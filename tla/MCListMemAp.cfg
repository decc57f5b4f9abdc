\* The same client listing the registers of a mem-ap device too.
SPECIFICATION ClientSpec
CONSTANTS
  MaxDevices = 2
  MaxRegs = 1
  MemApRegs = 2
  Dirs = {p1, p2}
  DevMem = DevMem
  NULL = NULL
  InitScanFails = FALSE
  ListMemAp = TRUE
SYMMETRY DirSymmetry
PROPERTY
  RegListAnswered
CHECK_DEADLOCK FALSE
