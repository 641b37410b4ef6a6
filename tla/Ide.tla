-------------------------------- MODULE Ide --------------------------------
(***************************************************************************)
(* The PIO IDE driver of xv6 (src/ide.c): iderw() called by processes     *)
(* that hold a buffer, the request queue idequeue, idestart() issuing one  *)
(* command to the controller, the controller completing it and raising an  *)
(* interrupt, and ideintr() handling the interrupt.                        *)
(*                                                                         *)
(* Every process holds at most one buffer; a buffer is named by its owner. *)
(* The buffer cache (bio.c, not in this repository) is the caller: bread   *)
(* on a miss and bwrite are the client actions below.  idelock is held     *)
(* across every driver step, and interrupts are off while it is held, so   *)
(* each driver step is atomic.                                             *)
(***************************************************************************)
EXTENDS Naturals, Sequences, FiniteSets, Ata

CONSTANTS
  Procs,        \* processes, each holding at most one buffer
  Devs,         \* device numbers used by the file system, a subset of {0, 1}
  Sectors,      \* sector numbers (b->sector)
  Vals,         \* possible sector contents
  V0,           \* initial content of every sector and buffer
  Disk1Present, \* whether a second drive is attached
  ReadErrors,   \* whether the controller may end a read with DF or ERR
  WriteErrors   \* whether the controller may end a write with DF or ERR

\* The file system's sectors are below FSSIZE, far below 2^28.
ASSUME /\ Devs \subseteq {0, 1} /\ 0 \in Devs
       /\ Sectors \subseteq 0..LbaLimit - 1
       /\ V0 \in Vals
       /\ Disk1Present \in BOOLEAN /\ ReadErrors \in BOOLEAN
       /\ WriteErrors \in BOOLEAN

Blocks == Devs \X Sectors

VARIABLES
  disk,         \* content of every sector of every drive
  queue,        \* idequeue, linked through qnext, as a sequence of buffers
  havedisk1,    \* havedisk1
  blk,          \* (b->dev, b->sector) of the buffer each process holds
  valid,        \* b->flags & B_VALID
  dirty,        \* b->flags & B_DIRTY
  data,         \* b->data
  isread,       \* whether the current request of a process is a read
  ctrl,         \* controller: "idle", "busy" with a command, "done" (IRQ)
  creq,         \* the buffer whose command the controller is executing
  cblk,         \* the drive and sector address in the controller registers
  cwrite,       \* the command is IDE_CMD_WRITE
  cdata,        \* sector data the command transfers (outsl / to be insl'd)
  cerr,         \* status has IDE_DF or IDE_ERR set
  pc,           \* where each process is
  boot          \* "init" (before ideinit), "up", "halted" (panic)

vars == <<disk, queue, havedisk1, blk, valid, dirty, data, isread, ctrl, creq,
          cblk, cwrite, cdata, cerr, pc, boot>>

\* Buffers (named by their owners) that are currently held.
Held == {p \in Procs : pc[p] # "idle"}

-----------------------------------------------------------------------------
Init ==
  /\ disk = [b \in Blocks |-> V0]
  /\ queue = <<>>
  /\ havedisk1 = FALSE
  /\ blk = [p \in Procs |-> <<0, CHOOSE s \in Sectors : TRUE>>]
  /\ valid = [p \in Procs |-> FALSE]
  /\ dirty = [p \in Procs |-> FALSE]
  /\ data = [p \in Procs |-> V0]
  /\ isread = [p \in Procs |-> TRUE]
  /\ ctrl = "idle"
  /\ creq = CHOOSE p \in Procs : TRUE
  /\ cblk = <<0, CHOOSE s \in Sectors : TRUE>>
  /\ cwrite = FALSE
  /\ cdata = V0
  /\ cerr = FALSE
  /\ pc = [p \in Procs |-> "idle"]
  /\ boot = "init"

\* ideinit(): probe for disk 1 (status non-zero once it is selected).
IdeInit ==
  /\ boot = "init"
  /\ havedisk1' = Disk1Present
  /\ boot' = "up"
  /\ UNCHANGED <<disk, queue, blk, valid, dirty, data, isread, ctrl, creq, cblk,
                 cwrite, cdata, cerr, pc>>

\* idestart's outb's of the address: the sector's three low bytes, then
\* 0xe0 | ((dev&1)<<4) | ((sector>>24)&0x0f), whose three parts occupy
\* disjoint bits, so that | is +.  x & (2^k - 1) is x % 2^k and x >> k is
\* x \div 2^k.
TaskFile(dev, sector) ==
  [r3 |-> Outb(sector % 2^8),
   r4 |-> Outb((sector \div 2^8) % 2^8),
   r5 |-> Outb((sector \div 2^16) % 2^8),
   r6 |-> Outb(224 + (dev % 2) * 16 + ((sector \div 2^24) % 16))]

\* idestart(b): wait until the controller is ready (idewait(0)), load the
\* sector address, and issue a write with the buffer's data (outsl) if b is
\* dirty, a read otherwise.  Primes the controller variables for b; cblk
\* is the drive and sector the controller decodes from the task file.
IdeStart(b) ==
  /\ ctrl # "busy"
  /\ ctrl' = "busy"
  /\ creq' = b
  /\ LET tf == TaskFile(blk[b][1], blk[b][2]) IN
       cblk' = <<AtaDrive(tf), AtaLba(tf)>>
  /\ cwrite' = dirty[b]
  /\ cdata' = IF dirty[b] THEN data[b] ELSE cdata

-----------------------------------------------------------------------------
(* The buffer cache, calling iderw().                                      *)

\* bread() of a block not in the cache: an invalid buffer for block k.
\* B_BUSY makes the holder the only one with a buffer for k.
BRead(p, k) ==
  /\ boot = "up"
  /\ pc[p] = "idle"
  /\ \A q \in Held : blk[q] # k
  /\ blk' = [blk EXCEPT ![p] = k]
  /\ valid' = [valid EXCEPT ![p] = FALSE]
  /\ dirty' = [dirty EXCEPT ![p] = FALSE]
  /\ isread' = [isread EXCEPT ![p] = TRUE]
  /\ pc' = [pc EXCEPT ![p] = "rw"]
  /\ UNCHANGED <<disk, queue, havedisk1, data, ctrl, creq, cblk, cwrite, cdata,
                 cerr, boot>>

\* bwrite() of a buffer for block k the caller has filled with v.
BWrite(p, k, v) ==
  /\ boot = "up"
  /\ pc[p] = "idle"
  /\ \A q \in Held : blk[q] # k
  /\ blk' = [blk EXCEPT ![p] = k]
  /\ data' = [data EXCEPT ![p] = v]
  /\ valid' = [valid EXCEPT ![p] = TRUE]
  /\ dirty' = [dirty EXCEPT ![p] = TRUE]
  /\ isread' = [isread EXCEPT ![p] = FALSE]
  /\ pc' = [pc EXCEPT ![p] = "rw"]
  /\ UNCHANGED <<disk, queue, havedisk1, ctrl, creq, cblk, cwrite, cdata, cerr,
                 boot>>

\* brelse(): the holder is done with the buffer.
BRelse(p) ==
  /\ pc[p] = "done"
  /\ pc' = [pc EXCEPT ![p] = "idle"]
  /\ UNCHANGED <<disk, queue, havedisk1, blk, valid, dirty, data, isread,
                 ctrl, creq, cblk, cwrite, cdata, cerr, boot>>

-----------------------------------------------------------------------------
(* The driver.                                                             *)

\* Mutant: iderw starts the controller whether or not the queue was empty.
IderwAlwaysStart(p) ==
  /\ boot = "up"
  /\ pc[p] = "rw"
  /\ \/ /\ blk[p][1] # 0 /\ ~havedisk1
        /\ boot' = "halted"
        /\ UNCHANGED <<queue, ctrl, creq, cblk, cwrite, cdata, pc>>
     \/ /\ blk[p][1] = 0 \/ havedisk1
        /\ queue' = Append(queue, p)
        /\ IdeStart(p)
        /\ pc' = [pc EXCEPT ![p] = "sleep"]
        /\ UNCHANGED boot
  /\ UNCHANGED <<disk, havedisk1, blk, valid, dirty, data, isread, cerr>>

\* iderw(b): panic if disk 1 is addressed but absent; otherwise append b
\* to idequeue, start the controller if b is the only request, and sleep
\* until b is valid and not dirty.  (Its other two panics are contract
\* checks on the caller, which holds b and always has work for it.)
Iderw(p) ==
  /\ boot = "up"
  /\ pc[p] = "rw"
  /\ \/ /\ blk[p][1] # 0 /\ ~havedisk1
        /\ boot' = "halted"          \* panic("iderw: ide disk 1 not present")
        /\ UNCHANGED <<queue, ctrl, creq, cblk, cwrite, cdata, pc>>
     \/ /\ blk[p][1] = 0 \/ havedisk1
        /\ queue' = Append(queue, p)
        /\ IF queue = <<>> THEN IdeStart(p)
                           ELSE UNCHANGED <<ctrl, creq, cblk, cwrite, cdata>>
        /\ pc' = [pc EXCEPT ![p] = "sleep"]
        /\ UNCHANGED boot
  /\ UNCHANGED <<disk, havedisk1, blk, valid, dirty, data, isread, cerr>>

\* Mutant: iderw's sleep loop tests B_VALID alone, ignoring B_DIRTY.
IderwReturnValidOnly(p) ==
  /\ boot = "up"
  /\ pc[p] = "sleep"
  /\ valid[p]
  /\ pc' = [pc EXCEPT ![p] = "done"]
  /\ UNCHANGED <<disk, queue, havedisk1, blk, valid, dirty, data, isread,
                 ctrl, creq, cblk, cwrite, cdata, cerr, boot>>

\* Woken by ideintr: the sleep loop ends once (flags & (B_VALID|B_DIRTY))
\* == B_VALID; iderw releases idelock and returns.
IderwReturn(p) ==
  /\ boot = "up"
  /\ pc[p] = "sleep"
  /\ valid[p] /\ ~dirty[p]
  /\ pc' = [pc EXCEPT ![p] = "done"]
  /\ UNCHANGED <<disk, queue, havedisk1, blk, valid, dirty, data, isread,
                 ctrl, creq, cblk, cwrite, cdata, cerr, boot>>

\* The controller executes the command in its registers and raises IRQ 14.
\* A command may end with DF or ERR in the status register, having
\* transferred nothing: a failed write leaves the sector as it was.
DiskComplete ==
  /\ ctrl = "busy"
  /\ ctrl' = "done"
  /\ \/ /\ cwrite
        /\ cerr' \in IF WriteErrors THEN BOOLEAN ELSE {FALSE}
        /\ disk' = IF cerr' THEN disk ELSE [disk EXCEPT ![cblk] = cdata]
        /\ UNCHANGED cdata
     \/ /\ ~cwrite
        /\ cerr' \in IF ReadErrors THEN BOOLEAN ELSE {FALSE}
        /\ cdata' = IF cerr' THEN cdata ELSE disk[cblk]
        /\ UNCHANGED disk
  /\ UNCHANGED <<queue, havedisk1, blk, valid, dirty, data, isread, creq,
                 cblk, cwrite, pc, boot>>

\* Mutant: ideintr's data transfer tests B_DIRTY the wrong way round.
IdeIntrInvertedRead ==
  /\ boot = "up"
  /\ ctrl = "done"
  /\ queue # <<>>
  /\ LET b == Head(queue) IN
     /\ queue' = Tail(queue)
     /\ data' = IF dirty[b] /\ ~cerr
                  THEN [data EXCEPT ![b] = cdata] ELSE data
     /\ valid' = [valid EXCEPT ![b] = TRUE]
     /\ dirty' = [dirty EXCEPT ![b] = FALSE]
     /\ \/ /\ Tail(queue) # <<>>
           /\ IdeStart(Head(Tail(queue)))
        \/ /\ Tail(queue) = <<>>
           /\ ctrl' = "idle"
           /\ UNCHANGED <<creq, cblk, cwrite, cdata>>
  /\ UNCHANGED <<disk, havedisk1, blk, isread, cerr, pc, boot>>

\* Mutant: ideintr does not start the next queued request.
IdeIntrNoRestart ==
  /\ boot = "up"
  /\ ctrl = "done"
  /\ queue # <<>>
  /\ LET b == Head(queue) IN
     /\ queue' = Tail(queue)
     /\ data' = IF ~dirty[b] /\ ~cerr
                  THEN [data EXCEPT ![b] = cdata] ELSE data
     /\ valid' = [valid EXCEPT ![b] = TRUE]
     /\ dirty' = [dirty EXCEPT ![b] = FALSE]
     /\ ctrl' = "idle"
     /\ UNCHANGED <<creq, cblk, cwrite, cdata>>
  /\ UNCHANGED <<disk, havedisk1, blk, isread, cerr, pc, boot>>

\* Mutant: ideintr does not unlink the request it completes.
IdeIntrNoPop ==
  /\ boot = "up"
  /\ ctrl = "done"
  /\ queue # <<>>
  /\ LET b == Head(queue) IN
     /\ UNCHANGED queue
     /\ data' = IF ~dirty[b] /\ ~cerr
                  THEN [data EXCEPT ![b] = cdata] ELSE data
     /\ valid' = [valid EXCEPT ![b] = TRUE]
     /\ dirty' = [dirty EXCEPT ![b] = FALSE]
     /\ \/ /\ Tail(queue) # <<>>
           /\ IdeStart(Head(Tail(queue)))
        \/ /\ Tail(queue) = <<>>
           /\ ctrl' = "idle"
           /\ UNCHANGED <<creq, cblk, cwrite, cdata>>
  /\ UNCHANGED <<disk, havedisk1, blk, isread, cerr, pc, boot>>

\* idewait(checkerr) once the controller is ready: it fails (-1) when
\* asked to check errors and the status has IDE_DF or IDE_ERR set.
IdewaitOK(checkerr) == ~(checkerr /\ cerr)

\* ideintr(): pop the active request b; for a read, copy the data in
\* (insl) unless idewait(1) sees DF or ERR; set B_VALID and clear B_DIRTY
\* in every case; wakeup(b); start the next request, if any.  (With the
\* controller only interrupting on completion, its "spurious IDE
\* interrupt" branch for an empty queue is never taken.)
IdeIntr ==
  /\ boot = "up"
  /\ ctrl = "done"
  /\ queue # <<>>
  /\ LET b == Head(queue) IN
     /\ queue' = Tail(queue)
     /\ data' = IF ~dirty[b] /\ IdewaitOK(TRUE)
                  THEN [data EXCEPT ![b] = cdata] ELSE data
     /\ valid' = [valid EXCEPT ![b] = TRUE]
     /\ dirty' = [dirty EXCEPT ![b] = FALSE]
     /\ \/ /\ Tail(queue) # <<>>
           /\ IdeStart(Head(Tail(queue)))
        \/ /\ Tail(queue) = <<>>
           /\ ctrl' = "idle"
           /\ UNCHANGED <<creq, cblk, cwrite, cdata>>
  /\ UNCHANGED <<disk, havedisk1, blk, isread, cerr, pc, boot>>

\* panic() spins forever with interrupts off.
Halted ==
  /\ boot = "halted"
  /\ UNCHANGED vars

-----------------------------------------------------------------------------
Next ==
  \/ IdeInit
  \/ \E p \in Procs :
       \/ \E k \in Blocks : BRead(p, k)
       \/ \E k \in Blocks, v \in Vals : BWrite(p, k, v)
       \/ Iderw(p) \/ IderwReturn(p) \/ BRelse(p)
  \/ DiskComplete \/ IdeIntr
  \/ Halted

\* The controller completes every command and its interrupt is delivered
\* and handled; a process that called iderw runs once woken.  Whether a
\* process issues I/O at all is not assumed.
Fairness ==
  /\ WF_vars(IdeInit) /\ WF_vars(DiskComplete) /\ WF_vars(IdeIntr)
  /\ \A p \in Procs : WF_vars(Iderw(p)) /\ WF_vars(IderwReturn(p))

Spec == Init /\ [][Next]_vars /\ Fairness

-----------------------------------------------------------------------------
TypeOK ==
  /\ disk \in [Blocks -> Vals]
  /\ queue \in Seq(Procs) /\ Len(queue) <= Cardinality(Procs)
  /\ havedisk1 \in BOOLEAN
  /\ blk \in [Procs -> Blocks]
  /\ valid \in [Procs -> BOOLEAN] /\ dirty \in [Procs -> BOOLEAN]
  /\ data \in [Procs -> Vals]
  /\ isread \in [Procs -> BOOLEAN]
  /\ ctrl \in {"idle", "busy", "done"}
  /\ creq \in Procs /\ cblk \in Blocks /\ cwrite \in BOOLEAN /\ cdata \in Vals
  /\ cerr \in BOOLEAN
  /\ pc \in [Procs -> {"idle", "rw", "sleep", "done"}]
  /\ boot \in {"init", "up", "halted"}

\* Only the head of idequeue is ever at the controller (spec 4.1: one
\* request Issued, the rest waiting in FIFO order), and the pipeline never
\* stalls: the controller is idle exactly when the queue is empty, and its
\* registers hold the head's block and direction.
DeviceServesHead ==
  boot # "halted" =>
    /\ (ctrl = "idle") = (queue = <<>>)
    /\ ctrl # "idle" =>
         /\ creq = Head(queue)
         /\ cblk = blk[creq]
         /\ cwrite = ~isread[creq]

\* A process woken from iderw was woken by the completion of its own
\* request: after a write the disk holds its data, after a read its buffer
\* holds the disk's data (spec 4.1: a read that failed leaves the block
\* invalid instead).
CompletedOnReturn ==
  \A p \in Procs : pc[p] = "done" =>
    IF isread[p] THEN data[p] = disk[blk[p]] ELSE disk[blk[p]] = data[p]

\* Every iderw call returns (the caller actually blocks and is woken),
\* unless the kernel panicked.
IderwReturns ==
  \A p \in Procs : pc[p] = "sleep" ~> (pc[p] = "done" \/ boot = "halted")

-----------------------------------------------------------------------------
(* Refinement: the driver implements SyncDisk.  A request takes effect at  *)
(* the controller's completion (DiskComplete); from then until ideintr     *)
(* copies the data in, the abstract buffer of a read is already the        *)
(* controller's data.  Before IdeInit no process can submit.               *)

\* The abstract state of each process's request.
AbsPc ==
  [p \in Procs |->
     IF pc[p] \in {"idle", "done"} THEN pc[p]
     ELSE IF pc[p] = "sleep" /\ ((ctrl = "done" /\ creq = p) \/ (valid[p] /\ ~dirty[p]))
          THEN "served" ELSE "req"]

\* The abstract buffer: a completed read's data is in the controller.
AbsData ==
  [p \in Procs |->
     IF pc[p] = "sleep" /\ ctrl = "done" /\ creq = p /\ isread[p]
     THEN cdata ELSE data[p]]

SD == INSTANCE SyncDisk
        WITH Blocks <- Blocks,
             Present <- IF Disk1Present THEN Devs ELSE Devs \cap {0},
             adisk <- disk, apc <- AbsPc, ablk <- blk, aread <- isread,
             adata <- AbsData, ahalted <- (boot = "halted")

\* Every behaviour of the driver is one of SyncDisk: each iderw request
\* takes effect atomically at one instant (a read returns the block's
\* content then, a write replaces it), one at a time, and every request
\* is eventually served and returns.
ImplementsSyncDisk == SD!Spec

=============================================================================
