\* What the protocol says of a connection that is lost.
SPECIFICATION Spec
CONSTANTS
  MaxLoops = 2
  MaxConns = 2
  NULL = NULL
CHECK_DEADLOCK FALSE
INVARIANT
  SessionEndsWithConnection
