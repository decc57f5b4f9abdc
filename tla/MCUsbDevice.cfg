\* Two endpoints with two transfers each in flight; one endpoint may queue.
SPECIFICATION MCSpec
CONSTANTS
  Endpoints = {e1, e2}
  Descriptor <- MCDescriptor
  MaxTokens = 3
  MAX_IN_FLIGHT = 2
  Completers = {c1}
  Buses <- MCBuses
  SubmitsFail = TRUE
  ResubmitsFail = FALSE
  NULL = NULL
CHECK_DEADLOCK FALSE
INVARIANTS
  UsbTypeOK
  PendingCountExact
  ReturnedNotInUse
PROPERTIES
  KeepsUsbPromise
  
