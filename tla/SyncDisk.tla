------------------------------ MODULE SyncDisk ------------------------------
(***************************************************************************)
(* What the driver promises its callers (spec 4.1, submit_and_wait): a     *)
(* process holding a buffer for a block submits a read or a write of it,   *)
(* the request takes effect on the disk atomically at one instant -- a     *)
(* read returns the block's content at that instant, a write replaces it   *)
(* -- and only then does the call return.  Requests of different          *)
(* processes take effect one at a time, in some order.  Addressing a       *)
(* drive that is not present halts the system.                             *)
(***************************************************************************)
EXTENDS Naturals

CONSTANTS
  Procs,        \* processes
  Blocks,       \* (drive, sector) pairs
  Present,      \* drives that are present
  Vals,         \* block contents
  V0            \* initial content of every block and buffer

VARIABLES
  adisk,        \* content of every block
  apc,          \* per process: "idle", "req", "served", "done"
  ablk,         \* the block each process's buffer is for
  aread,        \* the request is a read
  adata,        \* the buffer's content
  ahalted       \* the system halted

avars == <<adisk, apc, ablk, aread, adata, ahalted>>

Init ==
  /\ adisk = [k \in Blocks |-> V0]
  /\ apc = [p \in Procs |-> "idle"]
  /\ ablk \in [Procs -> Blocks]
  /\ aread \in [Procs -> BOOLEAN]
  /\ adata = [p \in Procs |-> V0]
  /\ ahalted = FALSE

\* A process takes a buffer for block k and submits a read, or a write of v.
Submit(p, k, rd, v) ==
  /\ ~ahalted /\ apc[p] = "idle"
  /\ apc' = [apc EXCEPT ![p] = "req"]
  /\ ablk' = [ablk EXCEPT ![p] = k]
  /\ aread' = [aread EXCEPT ![p] = rd]
  /\ adata' = IF rd THEN adata ELSE [adata EXCEPT ![p] = v]
  /\ UNCHANGED <<adisk, ahalted>>

\* The request of p takes effect on the disk.  A halt does not stop one
\* the device has already accepted.
Serve(p) ==
  /\ apc[p] = "req" /\ ablk[p][1] \in Present
  /\ apc' = [apc EXCEPT ![p] = "served"]
  /\ IF aread[p] THEN /\ adata' = [adata EXCEPT ![p] = adisk[ablk[p]]]
                      /\ UNCHANGED adisk
                 ELSE /\ adisk' = [adisk EXCEPT ![ablk[p]] = adata[p]]
                      /\ UNCHANGED adata
  /\ UNCHANGED <<ablk, aread, ahalted>>

\* The call returns; later the buffer is released.
Return(p) ==
  /\ ~ahalted /\ apc[p] = "served"
  /\ apc' = [apc EXCEPT ![p] = "done"]
  /\ UNCHANGED <<adisk, ablk, aread, adata, ahalted>>

Release(p) ==
  /\ apc[p] = "done"
  /\ apc' = [apc EXCEPT ![p] = "idle"]
  /\ UNCHANGED <<adisk, ablk, aread, adata, ahalted>>

\* A request for an absent drive halts the system.
Halt(p) ==
  /\ ~ahalted /\ apc[p] = "req" /\ ablk[p][1] \notin Present
  /\ ahalted' = TRUE
  /\ UNCHANGED <<adisk, apc, ablk, aread, adata>>

Next ==
  \E p \in Procs :
    \/ \E k \in Blocks, rd \in BOOLEAN, v \in Vals : Submit(p, k, rd, v)
    \/ Serve(p) \/ Return(p) \/ Release(p) \/ Halt(p)

\* Until the system halts, every submitted request is served and returns;
\* holding a buffer and submitting are the caller's choice.
Spec ==
  /\ Init /\ [][Next]_avars
  /\ \A p \in Procs : WF_avars(~ahalted /\ Serve(p)) /\ WF_avars(Return(p))
====
