\* What the event handler takes for granted on ENABLE.
SPECIFICATION Spec
CONSTANTS
  MaxLoops = 2
  MaxConns = 2
  NULL = NULL
CHECK_DEADLOCK FALSE
INVARIANT
  RunningWhenEnabled
