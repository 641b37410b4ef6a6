CONSTANTS
  p1 = p1  p2 = p2  s1 = s1  s2 = s2  v0 = v0  v1 = v1
  NoSector = NoSector
  Procs <- MCProcs
  Sectors <- MCSectors
  Vals <- MCVals
  V0 = v0
  LOGSIZE = 2
  MAXOPBLOCKS = 1
  NLOG <- MCNLOG
  MaxCrashes = 2
  WriteErrors = FALSE
SPECIFICATION Spec
SYMMETRY SymmProcs




INVARIANT LoggedWritesRecorded
