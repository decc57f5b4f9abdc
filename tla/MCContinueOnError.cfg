\* What the client interface says of a batch that continues on error.
SPECIFICATION Spec
CONSTANTS
  MaxOps = 3
  CmdCap = 7
  RspCap = 5
CHECK_DEADLOCK FALSE
PROPERTY
  ContinueRunsAll
