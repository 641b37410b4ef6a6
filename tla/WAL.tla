-------------------------------- MODULE WAL --------------------------------
(***************************************************************************)
(* The write-ahead log of xv6 (log.c, in src/unnamed/part_000 lines       *)
(* 108-361): begin_op / end_op / log_write called by file-system           *)
(* operations of concurrent processes, commit() run by the last end_op,    *)
(* and recover_from_log() run at boot.                                     *)
(*                                                                         *)
(* Disk blocks are written synchronously and atomically per sector (bwrite *)
(* returns once iderw has completed; the driver itself is module Ide).     *)
(* A block's content is a member of Vals.  The buffer cache is abstracted  *)
(* to the in-memory content of every home sector; after a crash it holds   *)
(* what is on disk again.                                                  *)
(***************************************************************************)
EXTENDS Naturals, Sequences, FiniteSets, FiniteSetsExt

CONSTANTS
  Procs,        \* processes that run file-system operations
  Sectors,      \* home sectors of the file system (outside the log region)
  Vals,         \* possible block contents
  V0,           \* content of every home sector after mkfs
  LOGSIZE,      \* param.h: capacity of logheader.sector[]
  MAXOPBLOCKS,  \* param.h: max # of distinct blocks one FS operation writes
  NLOG,         \* sb.nlog = log.size: header block + NLOG-1 log data blocks
  NoSector,     \* content of an unused logheader.sector[] slot
  MaxCrashes,   \* bound on power failures in one behaviour
  WriteErrors   \* whether the disk may fail a block write (ide.c:144)

ASSUME /\ V0 \in Vals
       /\ LOGSIZE \in Nat \ {0} /\ MAXOPBLOCKS \in Nat \ {0}
       /\ NLOG \in Nat /\ NLOG >= 2
       /\ NoSector \notin Sectors
       /\ MaxCrashes \in Nat /\ WriteErrors \in BOOLEAN

VARIABLES
  home,         \* disk: content of each home sector
  logdisk,      \* disk: content of log data block log.start+i, i in LogSlots
  dhead,        \* disk: the header block (log.start), as the sequence it names
  cache,        \* buffer cache: in-memory content of each home sector
  lhn,          \* log.lh.n
  lhsec,        \* log.lh.sector[]
  outstanding,  \* log.outstanding
  committing,   \* log.committing
  pc,           \* where each process is
  opblocks,     \* sectors the current operation of a process has written
  lwi,          \* log_write's local i, per process
  lws,          \* log_write's b->sector, per process
  tail,         \* loop index of write_log / install_trans (1-based)
  boot,         \* "recover", "rinstall" (recover_from_log), "up", "halted"
  crashes,      \* power failures so far
  durable,      \* ghost: the file-system image of the last committed txn
  txdirty,      \* ghost: sectors written by operations of the current txn
  before        \* ghost: the image durable replaced at the running commit

vars == <<home, logdisk, dhead, cache, lhn, lhsec, outstanding, committing,
          pc, opblocks, lwi, lws, tail, boot, crashes, durable, txdirty,
          before>>

Slots    == 1..LOGSIZE
LogSlots == 1..(NLOG - 1)
PCs == {"idle", "begin", "sleep", "op", "lw_set", "lw_inc",
        "commit", "wlog", "install", "cend"}
CommitPCs == {"commit", "wlog", "install", "cend"}
OpPCs     == {"op", "lw_set", "lw_inc"}

\* The in-memory header log.lh as the sequence of its first n sectors.
Header == [i \in 1..lhn |-> lhsec[i]]

\* The image a disk denotes: home locations with the log replayed over them
\* in header order (a later slot for the same sector wins).
Replay(h, ld, base) ==
  [s \in Sectors |->
     LET hits == {i \in 1..Len(h) : h[i] = s}
     IN  IF hits = {} THEN base[s] ELSE ld[Max(hits)]]

\* The image a header write commits: the transaction's blocks as the cache
\* holds them, over the image base the disk denoted before it.
Committed(base) ==
  [s \in Sectors |-> IF \E i \in 1..lhn : lhsec[i] = s THEN cache[s]
                                                    ELSE base[s]]

\* Ghosts: once a commit has ended or the machine has stopped, the outcome
\* is what recovery would replay (a transaction whose writes failed may
\* have committed nothing).  Where Recoverable holds this changes neither.
Settle ==
  /\ durable' = Replay(dhead, logdisk, home)
  /\ before' = durable'

\* wakeup(&log): every process sleeping in begin_op re-checks its condition.
Wakeup(f) == [q \in Procs |-> IF f[q] = "sleep" THEN "begin" ELSE f[q]]

\* Everything in memory is lost; the buffer cache is refilled from disk.
VolatileReset ==
  /\ cache' = home
  /\ lhn' = 0
  /\ lhsec' = [i \in Slots |-> NoSector]
  /\ outstanding' = 0
  /\ committing' = FALSE
  /\ pc' = [p \in Procs |-> "idle"]
  /\ opblocks' = [p \in Procs |-> {}]
  /\ lwi' = [p \in Procs |-> 0]
  /\ lws' = [p \in Procs |-> NoSector]
  /\ tail' = 0
  /\ txdirty' = {}

\* bwrite(b): the disk block goes from old to new.  iderw never reads the
\* status of a write (ide.c:144), so a write the controller fails leaves
\* the block as it was and bwrite returns as if it had succeeded.
Bwrite(old, new) == IF WriteErrors THEN {old, new} ELSE {new}

-----------------------------------------------------------------------------
Init ==
  /\ home = [s \in Sectors |-> V0]
  /\ logdisk = [i \in LogSlots |-> V0]
  /\ dhead = <<>>
  /\ cache = home
  /\ lhn = 0
  /\ lhsec = [i \in Slots |-> NoSector]
  /\ outstanding = 0
  /\ committing = FALSE
  /\ pc = [p \in Procs |-> "idle"]
  /\ opblocks = [p \in Procs |-> {}]
  /\ lwi = [p \in Procs |-> 0]
  /\ lws = [p \in Procs |-> NoSector]
  /\ tail = 0
  /\ boot = "recover"
  /\ crashes = 0
  /\ durable = home
  /\ txdirty = {}
  /\ before = home

\* install_trans, one iteration: copy log block tail to its home sector
\* (bread both, memmove, bwrite the home buffer).  lbuf is what bread of
\* the log block returns: in commit() the buffer write_log just filled is
\* still cached (B_VALID even if its write failed), so it holds the home
\* buffer's content; at boot the cache is empty and bread reads the disk.
InstallBlock(lbuf) ==
  /\ tail <= lhn
  /\ home' \in Bwrite(home, [home EXCEPT ![lhsec[tail]] = lbuf[tail]])
  /\ cache' = [cache EXCEPT ![lhsec[tail]] = lbuf[tail]]
  /\ tail' = tail + 1

\* The log buffers as write_log left them in the cache during commit().
LogBufs == [i \in Slots |-> IF i <= lhn THEN cache[lhsec[i]] ELSE V0]

-----------------------------------------------------------------------------
(* Boot: recover_from_log().                                               *)

\* read_head(): copy the on-disk header into log.lh.
ReadHead ==
  /\ boot = "recover"
  /\ lhn' = Len(dhead)
  /\ lhsec' = [i \in Slots |-> IF i <= Len(dhead) THEN dhead[i] ELSE lhsec[i]]
  /\ tail' = 1
  /\ boot' = "rinstall"
  /\ UNCHANGED <<home, logdisk, dhead, cache, outstanding, committing, pc,
                 opblocks, lwi, lws, crashes, durable, before, txdirty>>

\* install_trans() during recovery.
RecoverInstall ==
  /\ boot = "rinstall"
  /\ InstallBlock(logdisk)
  /\ UNCHANGED <<logdisk, dhead, lhn, lhsec, outstanding, committing, pc,
                 opblocks, lwi, lws, boot, crashes, durable, before, txdirty>>

\* log.lh.n = 0; write_head(): the log is clear and the system is up.
RecoverClear ==
  /\ boot = "rinstall"
  /\ tail > lhn
  /\ lhn' = 0
  /\ dhead' \in Bwrite(dhead, <<>>)
  /\ boot' = "up"
  /\ UNCHANGED <<home, logdisk, cache, lhsec, outstanding, committing, pc,
                 opblocks, lwi, lws, tail, crashes, durable, before, txdirty>>

-----------------------------------------------------------------------------
(* File-system operations: begin_op, log_write, end_op.                    *)

\* Mutant: begin_op admits operations while a commit is running.
BeginOpIgnoringCommit(p) ==
  /\ boot = "up"
  /\ pc[p] \in {"idle", "begin"}
  /\ \/ /\ \/ FALSE
             \/ lhn + (outstanding + 1) * MAXOPBLOCKS > LOGSIZE
          /\ pc' = [pc EXCEPT ![p] = "sleep"]
          /\ UNCHANGED <<outstanding, opblocks>>
       \/ /\ TRUE
          /\ lhn + (outstanding + 1) * MAXOPBLOCKS <= LOGSIZE
          /\ outstanding' = outstanding + 1
          /\ pc' = [pc EXCEPT ![p] = "op"]
          /\ opblocks' = [opblocks EXCEPT ![p] = {}]
  /\ UNCHANGED <<home, logdisk, dhead, cache, lhn, lhsec, committing, lwi,
                 lws, tail, boot, crashes, durable, before, txdirty>>

\* Mutant: begin_op reserves no room for the operation it admits.
BeginOpNoReservation(p) ==
  /\ boot = "up"
  /\ pc[p] \in {"idle", "begin"}
  /\ \/ /\ \/ committing
             \/ lhn + outstanding * MAXOPBLOCKS > LOGSIZE
          /\ pc' = [pc EXCEPT ![p] = "sleep"]
          /\ UNCHANGED <<outstanding, opblocks>>
       \/ /\ ~committing
          /\ lhn + outstanding * MAXOPBLOCKS <= LOGSIZE
          /\ outstanding' = outstanding + 1
          /\ pc' = [pc EXCEPT ![p] = "op"]
          /\ opblocks' = [opblocks EXCEPT ![p] = {}]
  /\ UNCHANGED <<home, logdisk, dhead, cache, lhn, lhsec, committing, lwi,
                 lws, tail, boot, crashes, durable, before, txdirty>>

\* begin_op(): sleep while a commit runs or while admitting one more
\* operation could overflow the log; otherwise count the operation in.
\* pc = "idle" is a process entering a file-system call; pc = "begin" is
\* one that was woken and re-checks the loop condition.
BeginOp(p) ==
  /\ boot = "up"
  /\ pc[p] \in {"idle", "begin"}
  /\ \/ /\ \/ committing
             \/ lhn + (outstanding + 1) * MAXOPBLOCKS > LOGSIZE
          /\ pc' = [pc EXCEPT ![p] = "sleep"]
          /\ UNCHANGED <<outstanding, opblocks>>
       \/ /\ ~committing
          /\ lhn + (outstanding + 1) * MAXOPBLOCKS <= LOGSIZE
          /\ outstanding' = outstanding + 1
          /\ pc' = [pc EXCEPT ![p] = "op"]
          /\ opblocks' = [opblocks EXCEPT ![p] = {}]
  /\ UNCHANGED <<home, logdisk, dhead, cache, lhn, lhsec, committing, lwi,
                 lws, tail, boot, crashes, durable, before, txdirty>>

\* log_write's absorption scan: the first slot naming s, else slot n+1.
Absorb(s) ==
  LET hits == {i \in 1..lhn : lhsec[i] = s}
  IN  IF hits = {} THEN lhn + 1 ELSE Min(hits)

\* The caller modifies buffer s (bp->data) to v and calls log_write(bp):
\* the two capacity panics, then the absorption scan.  log_write does not
\* take log.lock, so its scan, its store into lh.sector[i] and its
\* increment of lh.n are separate steps that other processes interleave
\* with.  The caller writes at most MAXOPBLOCKS distinct blocks per
\* operation (the contract begin_op's reservation relies on).
LogWrite(p, s, v) ==
  /\ boot = "up"
  /\ pc[p] = "op"
  /\ s \in opblocks[p] \/ Cardinality(opblocks[p]) < MAXOPBLOCKS
  /\ \/ /\ lhn >= LOGSIZE \/ lhn >= NLOG - 1
        /\ boot' = "halted"          \* panic("too big a transaction")
        /\ UNCHANGED <<cache, pc, opblocks, lwi, lws, txdirty>>
     \/ /\ lhn < LOGSIZE /\ lhn < NLOG - 1
        /\ cache' = [cache EXCEPT ![s] = v]
        /\ opblocks' = [opblocks EXCEPT ![p] = @ \cup {s}]
        /\ txdirty' = txdirty \cup {s}
        /\ lwi' = [lwi EXCEPT ![p] = Absorb(s)]
        /\ lws' = [lws EXCEPT ![p] = s]
        /\ pc' = [pc EXCEPT ![p] = "lw_set"]
        /\ UNCHANGED boot
  /\ UNCHANGED <<home, logdisk, dhead, lhn, lhsec, outstanding, committing,
                 tail, crashes, durable, before>>

\* log.lh.sector[i] = b->sector;
LogWriteSet(p) ==
  /\ boot = "up"
  /\ pc[p] = "lw_set"
  /\ lhsec' = [lhsec EXCEPT ![lwi[p]] = lws[p]]
  /\ pc' = [pc EXCEPT ![p] = "lw_inc"]
  /\ UNCHANGED <<home, logdisk, dhead, cache, lhn, outstanding, committing,
                 opblocks, lwi, lws, tail, boot, crashes, durable, before, txdirty>>

\* Mutant: log_write counts a new slot even when it absorbed the block.
LogWriteIncAlways(p) ==
  /\ boot = "up"
  /\ pc[p] = "lw_inc"
  /\ lhn' = lhn + 1
  /\ pc' = [pc EXCEPT ![p] = "op"]
  /\ UNCHANGED <<home, logdisk, dhead, cache, lhsec, outstanding, committing,
                 opblocks, lwi, lws, tail, boot, crashes, durable, before, txdirty>>

\* if (i == log.lh.n) log.lh.n++;  (B_DIRTY pins the buffer in the cache.)
LogWriteInc(p) ==
  /\ boot = "up"
  /\ pc[p] = "lw_inc"
  /\ lhn' = IF lwi[p] = lhn + 1 THEN lhn + 1 ELSE lhn
  /\ pc' = [pc EXCEPT ![p] = "op"]
  /\ UNCHANGED <<home, logdisk, dhead, cache, lhsec, outstanding, committing,
                 opblocks, lwi, lws, tail, boot, crashes, durable, before, txdirty>>

\* end_op(): the last operation out becomes the committer; any other wakes
\* begin_op sleepers, since log space may now suffice.  (Its
\* panic("log.committing") cannot fire: QuiescentCommit below.)
EndOp(p) ==
  /\ boot = "up"
  /\ pc[p] = "op"
  /\ outstanding' = outstanding - 1
  /\ \/ /\ outstanding - 1 = 0
        /\ committing' = TRUE
        /\ pc' = [pc EXCEPT ![p] = "commit"]
     \/ /\ outstanding - 1 # 0
        /\ pc' = Wakeup([pc EXCEPT ![p] = "idle"])
        /\ UNCHANGED committing
  /\ UNCHANGED <<home, logdisk, dhead, cache, lhn, lhsec, opblocks, lwi, lws,
                 tail, boot, crashes, durable, before, txdirty>>

-----------------------------------------------------------------------------
(* commit(), run by the committer without log.lock.                        *)

\* if (log.lh.n > 0): start write_log(); otherwise nothing to do.
Commit(p) ==
  /\ boot = "up"
  /\ pc[p] = "commit"
  /\ \/ /\ lhn > 0
        /\ pc' = [pc EXCEPT ![p] = "wlog"]
        /\ tail' = 1
     \/ /\ lhn = 0
        /\ pc' = [pc EXCEPT ![p] = "cend"]
        /\ UNCHANGED tail
  /\ UNCHANGED <<home, logdisk, dhead, cache, lhn, lhsec, outstanding,
                 committing, opblocks, lwi, lws, boot, crashes, durable, before,
                 txdirty>>

\* write_log(), one iteration: copy the cached block to log slot tail.
WriteLog(p) ==
  /\ boot = "up"
  /\ pc[p] = "wlog"
  /\ tail <= lhn
  /\ logdisk' \in Bwrite(logdisk,
                         [logdisk EXCEPT ![tail] = cache[lhsec[tail]]])
  /\ tail' = tail + 1
  /\ UNCHANGED <<home, dhead, cache, lhn, lhsec, outstanding, committing, pc,
                 opblocks, lwi, lws, boot, crashes, durable, before, txdirty>>

\* Mutant: the header is written before write_log has finished.
WriteHeadBeforeLog(p) ==
  /\ boot = "up"
  /\ pc[p] = "wlog"
  /\ dhead' = Header
  /\ before' = Replay(dhead, logdisk, home)
  /\ durable' = Committed(before')
  /\ tail' = 1
  /\ pc' = [pc EXCEPT ![p] = "install"]
  /\ UNCHANGED <<home, logdisk, cache, lhn, lhsec, outstanding, committing,
                 opblocks, lwi, lws, boot, crashes, txdirty>>

\* write_head(): the header reaches disk -- the commit point.  The ghost
\* durable takes the transaction's blocks as the cache holds them.
WriteHead(p) ==
  /\ boot = "up"
  /\ pc[p] = "wlog"
  /\ tail > lhn
  /\ dhead' \in Bwrite(dhead, Header)
  /\ before' = Replay(dhead, logdisk, home)
  /\ durable' = Committed(before')
  /\ tail' = 1
  /\ pc' = [pc EXCEPT ![p] = "install"]
  /\ UNCHANGED <<home, logdisk, cache, lhn, lhsec, outstanding, committing,
                 opblocks, lwi, lws, boot, crashes, txdirty>>

\* Mutant: the install loop of commit never advances its index.
InstallNoAdvance(p) ==
  /\ boot = "up"
  /\ pc[p] = "install"
  /\ tail <= lhn
  /\ home' = [home EXCEPT ![lhsec[tail]] = LogBufs[tail]]
  /\ UNCHANGED <<logdisk, dhead, cache, lhn, lhsec, outstanding, committing,
                 pc, tail,
                 opblocks, lwi, lws, boot, crashes, durable, before, txdirty>>

\* install_trans() during commit.
Install(p) ==
  /\ boot = "up"
  /\ pc[p] = "install"
  /\ InstallBlock(LogBufs)
  /\ UNCHANGED <<logdisk, dhead, lhn, lhsec, outstanding, committing, pc,
                 opblocks, lwi, lws, boot, crashes, durable, before, txdirty>>

\* log.lh.n = 0; write_head(): erase the transaction from the log.
ClearHead(p) ==
  /\ boot = "up"
  /\ pc[p] = "install"
  /\ tail > lhn
  /\ lhn' = 0
  /\ dhead' \in Bwrite(dhead, <<>>)
  /\ txdirty' = {}
  /\ pc' = [pc EXCEPT ![p] = "cend"]
  /\ UNCHANGED <<home, logdisk, cache, lhsec, outstanding, committing,
                 opblocks, lwi, lws, tail, boot, crashes, durable, before>>

\* Mutant: the committer clears log.committing but wakes nobody.
CommitEndNoWakeup(p) ==
  /\ boot = "up"
  /\ pc[p] = "cend"
  /\ committing' = FALSE
  /\ pc' = [pc EXCEPT ![p] = "idle"]
  /\ Settle
  /\ UNCHANGED <<home, logdisk, dhead, cache, lhn, lhsec, outstanding,
                 opblocks, lwi, lws, tail, boot, crashes, txdirty>>

\* Back in end_op: log.committing = 0; wakeup(&log).
CommitEnd(p) ==
  /\ boot = "up"
  /\ pc[p] = "cend"
  /\ committing' = FALSE
  /\ pc' = Wakeup([pc EXCEPT ![p] = "idle"])
  /\ Settle
  /\ UNCHANGED <<home, logdisk, dhead, cache, lhn, lhsec, outstanding,
                 opblocks, lwi, lws, tail, boot, crashes, txdirty>>

-----------------------------------------------------------------------------
(* Failures.                                                               *)

\* Power failure at any point: memory is lost, the disk is kept, and the
\* next boot runs recover_from_log().
Crash ==
  /\ crashes < MaxCrashes
  /\ boot # "halted"
  /\ VolatileReset
  /\ boot' = "recover"
  /\ crashes' = crashes + 1
  /\ Settle
  /\ UNCHANGED <<home, logdisk, dhead>>

\* A panic halted the kernel; the machine is restarted.
Reboot ==
  /\ boot = "halted"
  /\ VolatileReset
  /\ boot' = "recover"
  /\ Settle
  /\ UNCHANGED <<home, logdisk, dhead, crashes>>

-----------------------------------------------------------------------------
Next ==
  \/ ReadHead \/ RecoverInstall \/ RecoverClear
  \/ \E p \in Procs :
       \/ BeginOp(p)
       \/ \E s \in Sectors, v \in Vals : LogWrite(p, s, v)
       \/ LogWriteSet(p) \/ LogWriteInc(p) \/ EndOp(p)
       \/ Commit(p) \/ WriteLog(p) \/ WriteHead(p) \/ Install(p)
       \/ ClearHead(p) \/ CommitEnd(p)
  \/ Crash \/ Reboot

\* Kernel code runs to completion once scheduled: every step a process has
\* started (a woken begin_op, a log_write, end_op, the commit) is weakly
\* fair, as is recovery.  A file-system operation is finite (spec: one
\* begin_op/end_op bracket around finitely many log_writes), so a process
\* that keeps returning to "op" eventually calls end_op: strong fairness,
\* since log_writes make end_op only intermittently enabled.  Entering a
\* file-system call, writing a block and failing are not fair.
Fairness ==
  /\ WF_vars(ReadHead) /\ WF_vars(RecoverInstall) /\ WF_vars(RecoverClear)
  /\ \A p \in Procs :
       /\ WF_vars(pc[p] = "begin" /\ BeginOp(p))
       /\ WF_vars(LogWriteSet(p)) /\ WF_vars(LogWriteInc(p))
       /\ SF_vars(EndOp(p))
       /\ WF_vars(Commit(p)) /\ WF_vars(WriteLog(p)) /\ WF_vars(WriteHead(p))
       /\ WF_vars(Install(p)) /\ WF_vars(ClearHead(p)) /\ WF_vars(CommitEnd(p))

Spec == Init /\ [][Next]_vars /\ Fairness

-----------------------------------------------------------------------------
TypeOK ==
  /\ home \in [Sectors -> Vals]
  /\ logdisk \in [LogSlots -> Vals]
  /\ dhead \in Seq(Sectors) /\ Len(dhead) <= LOGSIZE
  /\ cache \in [Sectors -> Vals]
  /\ lhn \in 0..LOGSIZE
  /\ lhsec \in [Slots -> Sectors \cup {NoSector}]
  /\ \A i \in 1..lhn : lhsec[i] \in Sectors
  /\ outstanding \in 0..Cardinality(Procs)
  /\ committing \in BOOLEAN
  /\ pc \in [Procs -> PCs]
  /\ opblocks \in [Procs -> SUBSET Sectors]
  /\ lwi \in [Procs -> 0..LOGSIZE]
  /\ lws \in [Procs -> Sectors \cup {NoSector}]
  /\ tail \in 0..(LOGSIZE + 1)
  /\ boot \in {"recover", "rinstall", "up", "halted"}
  /\ crashes \in 0..MaxCrashes
  /\ durable \in [Sectors -> Vals]
  /\ txdirty \in SUBSET Sectors
  /\ before \in [Sectors -> Vals]

\* Crash consistency (spec 4.2, 7): in every state -- so after a crash at
\* any point of commit() or of recover_from_log() -- replaying the on-disk
\* header over the home locations yields exactly the image of the last
\* committed transaction: a committed transaction is fully applied and an
\* uncommitted one not at all.
Recoverable == Replay(dhead, logdisk, home) = durable

\* All or nothing (spec 7) when block writes may fail: bwrite returns void
\* and the driver never reads a write's status, so commit() cannot tell a
\* failed write_log or write_head block from a good one and goes on to
\* install.  In every state the disk must still denote either the image
\* before the running commit or the one after it, so that a crash at any
\* point recovers one of the two.
AllOrNothing == Replay(dhead, logdisk, home) \in {before, durable}

\* Exactly one commit runs per transaction, and only at a quiescent point:
\* while a process is in commit() no other process is inside a
\* begin_op/end_op bracket or also committing (so end_op's
\* panic("log.committing") never fires).
QuiescentCommit ==
  \A p \in Procs : pc[p] \in CommitPCs =>
     /\ committing /\ outstanding = 0
     /\ \A q \in Procs \ {p} : pc[q] \notin CommitPCs \cup OpPCs

\* begin_op's admission test reserves MAXOPBLOCKS slots per admitted
\* operation: the logged count plus the unused reservation of every running
\* operation never exceeds LOGSIZE.
LogSpaceReserved ==
  boot = "up" =>
    lhn + MapThenSumSet(LAMBDA p : MAXOPBLOCKS - Cardinality(opblocks[p]),
                        {p \in Procs : pc[p] \in OpPCs}) <= LOGSIZE

\* A commit that has started eventually completes (end_op clears
\* log.committing), unless the machine fails.
CommitCompletes == committing ~> ~committing

\* begin_op's sleep has no timeout (part_000:249): a process asleep for log
\* space or for a commit is woken only by a later end_op or by the end of
\* the commit.  No sleeper is left behind: every process asleep in begin_op
\* is eventually woken, unless a power failure or a panic ends its call.
SleepersWoken ==
  \A p \in Procs : pc[p] = "sleep" ~> (pc[p] # "sleep" \/ boot = "halted")

\* Spec 4.2: the reservation guarantees that an admitted operation is never
\* aborted for lack of log space: log_write's panic never fires for an
\* operation that keeps to MAXOPBLOCKS distinct blocks.
NoTooBigPanic == boot # "halted"

\* Spec 4.2 (log_write records the block in the transaction): once no
\* log_write is half-done, the header names every block the operations of
\* this transaction wrote.
LoggedWritesRecorded ==
  (boot = "up" /\ \A p \in Procs : pc[p] \notin {"lw_set", "lw_inc"})
     => txdirty = {lhsec[i] : i \in 1..lhn}

=============================================================================
