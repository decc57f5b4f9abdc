SPECIFICATION MCSpec
CONSTANTS
  MaxAddr = 7
  Widths = {2, 4}
  AccessFails = TRUE
  QueueCap = 2
  CallersCount = 3
  BUFFER_SIZE = 2000
  Grains = {1, 5}
  Threads = {t1, t2}
  MaxHandle = 2
  MaxEnvs = 3
  NoCall = NoCall
  UNKNOWN = UNKNOWN
  NULL = NULL
CHECK_DEADLOCK FALSE
INVARIANTS
  RddiMemApTypeOK
  WireTypeOK
  ApiTypeOK
  CountExact
  FramesWhole
  
  OwnOutcome
  HandleDesignates
  
PROPERTIES
  KeepsListPromise
  ListReturns
