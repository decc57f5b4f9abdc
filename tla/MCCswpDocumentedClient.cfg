\* A client in the documented order that never lists a mem-ap's registers.
SPECIFICATION ClientSpec
CONSTANTS
  MaxDevices = 2
  MaxRegs = 1
  MemApRegs = 2
  Dirs = {p1, p2}
  DevMem = DevMem
  NULL = NULL
  InitScanFails = FALSE
  ListMemAp = FALSE
SYMMETRY DirSymmetry
INVARIANTS
  NoCrash
  ClientViewHolds
PROPERTY
  RegisterIdsStable
