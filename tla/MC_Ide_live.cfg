CONSTANTS
  p1 = p1  p2 = p2  p3 = p3  v0 = v0  v1 = v1
  Procs <- LiveProcs
  Devs = {0, 1}
  Sectors <- MCSectors
  Vals <- MCVals
  V0 = v0
  Disk1Present = TRUE
  ReadErrors = FALSE
  WriteErrors = FALSE
SPECIFICATION Spec
PROPERTY IderwReturns ImplementsSyncDisk
