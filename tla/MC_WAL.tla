------------------------------- MODULE MC_WAL -------------------------------
(* Instantiates WAL for TLC: two processes, two home sectors, two block    *)
(* contents, a log of LOGSIZE = 2 slots with MAXOPBLOCKS = 1, so that two   *)
(* operations share one transaction and absorption and a full header both  *)
(* occur.                                                                  *)
EXTENDS WAL, TLC

CONSTANTS p1, p2, s1, s2, v0, v1

MCProcs   == {p1, p2}
MCSectors == {s1, s2}
MCVals    == {v0, v1}

\* The state after mkfs lays out LOGSIZE log blocks behind the header.
MCNLOG == 3

SymmProcs == Permutations(MCProcs)
=============================================================================
