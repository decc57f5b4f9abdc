\* Any client: every command in every order, well formed or not.
SPECIFICATION Spec
CONSTANTS
  MaxDevices = 2
  MaxRegs = 1
  MemApRegs = 2
  Dirs = {p1, p2}
  DevMem = DevMem
  NULL = NULL
  InitScanFails = TRUE
SYMMETRY DirSymmetry
\* a server that dereferenced a null pointer is gone
CHECK_DEADLOCK FALSE
INVARIANTS
  TypeOK
  PrivateTableCoversDevices
  
