CONSTANTS
  p1 = p1  p2 = p2  p3 = p3  v0 = v0  v1 = v1
  Procs <- MCProcs
  Devs = {0, 1}
  Sectors <- MCSectors
  Vals <- MCVals
  V0 = v0
  Disk1Present = FALSE
  ReadErrors = TRUE
  WriteErrors = FALSE
SPECIFICATION Spec
SYMMETRY SymmProcs
INVARIANT CompletedOnReturn
