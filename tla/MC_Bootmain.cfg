\* Images laid out as the kernel is linked: segments on separate pages.
CONSTANTS
  SECTSIZE = 2
  PAGE = 4
  HDRLEN = 4
  EHSIZE = 2
  PHSIZE = 1
  SCRATCH = 0
  LOADBASE = 4
  MEMTOP = 16
  MAXPH = 2
  MAXSZ = 3
  FILELEN = 12
  SharedPages = FALSE
  Zero = Zero
  Junk = Junk
SPECIFICATION Spec
\* bootmain ends by jumping to the kernel or returning to bootasm.S.
CHECK_DEADLOCK FALSE
INVARIANTS TypeOK SegmentsLoaded HeaderIntact ReadsectAddressesKernel
