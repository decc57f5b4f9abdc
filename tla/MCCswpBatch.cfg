\* Batches of up to three commands of every kind.  The request buffer takes
\* three commands unless two are register reads; the response buffer takes
\* one data reply and some more.
SPECIFICATION Spec
CONSTANTS
  MaxOps = 3
  CmdCap = 7
  RspCap = 5
\* a client that copied from an uninitialised pointer may be gone
CHECK_DEADLOCK FALSE
INVARIANTS
  TypeOK
  Aligned
  CompletedExact
PROPERTY
  KeepsPromise
