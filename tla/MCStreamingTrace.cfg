\* A client that calls in any order and attaches twice; requests, submissions
\* and transfers may fail.
SPECIFICATION MCSpec
CONSTANTS
  Sinks = {s1}
  Endpoints = {e1}
  DataBufs = {d1}
  EventBufs = {v1}
  DataBufferCount = 1
  CONTROL = CONTROL
  NULL = NULL
  MaxAttach = 2
  MaxControl = 2
  RequestsFail = TRUE
  SubmitsFail = TRUE
  TransfersFail = TRUE
  LimitedSize = TRUE
\* the client may leave the library alone
CHECK_DEADLOCK FALSE
INVARIANTS
  TypeOK
  
  NoEmptyQueueTaken
  
  DetachedHasNoThread
