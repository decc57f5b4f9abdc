\* A capture in which every request, submission and transfer may fail.
SPECIFICATION CaptureSpec
CONSTANTS
  Sinks = {s1}
  Endpoints = {e1}
  DataBufs = {d1, d2}
  EventBufs = {v1}
  DataBufferCount = 2
  CONTROL = CONTROL
  NULL = NULL
  MaxAttach = 1
  MaxControl = 2
  RequestsFail = TRUE
  SubmitsFail = TRUE
  TransfersFail = TRUE
  LimitedSize = FALSE
\* the application ends
CHECK_DEADLOCK FALSE
PROPERTIES
  CaptureEnds
INVARIANTS
  PendingIsHeld
  DrainGetsAll
