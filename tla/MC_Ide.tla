------------------------------- MODULE MC_Ide -------------------------------
(* Instantiates Ide for TLC: three processes, so that one request is at    *)
(* the controller while two wait in idequeue; two sector numbers on each  *)
(* of two drives; two sector contents.                                     *)
EXTENDS Ide, TLC

CONSTANTS p1, p2, p3, v0, v1

MCProcs   == {p1, p2, p3}
\* Sector 0, and a sector below 2^28 whose four parts of the task file
\* (three bytes and a nibble) all differ: 0x0E0C0A01.
HighSector == 14 * 2^24 + 12 * 2^16 + 10 * 2^8 + 1
MCSectors  == {0, HighSector}
MCVals    == {v0, v1}

\* Liveness and the refinement are checked without symmetry, on two
\* processes: one request at the controller and one queued behind it.
LiveProcs == {p1, p2}

SymmProcs == Permutations(MCProcs)
=============================================================================
