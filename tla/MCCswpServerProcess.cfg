\* Two loops over three connections, over USB and over TCP.
SPECIFICATION Spec
CONSTANTS
  MaxLoops = 2
  MaxConns = 3
  NULL = NULL
\* a client that has gone, or the bounds, may leave nothing to do
CHECK_DEADLOCK FALSE
INVARIANTS
  TypeOK
  OneLoop
  NoReplayWhileAttached
  AtMostTwice
PROPERTIES
  ServesNextClient
  BatchSettled
