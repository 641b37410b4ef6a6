CONSTANTS
  CPUs <- MCCPUs
  BSP = 0
  PGSIZE = 2
  END = 1
  P4MB = 8
  PHYSTOP = 14
  NoCPU = NoCPU
SPECIFICATION Spec
INVARIANT TypeOK
INVARIANT FreeListExclusive
INVARIANT PagesConserved
INVARIANT ApStackMapped
INVARIANT FreedExact
PROPERTY BootCompletes
