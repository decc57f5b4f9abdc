----------------------------- MODULE RddiMemAp ------------------------------
(***************************************************************************)
(* One memory call of the RDDI MEM-AP library: MEM_AP_AccessBatch with a   *)
(* list of operations, or one of the direct calls.  The list is queued as  *)
(* CSWP commands (rddi-memap env.cpp, cswp_client.c), the server runs them *)
(* in order and stops at the first that fails (cswp_server_cmdint.c), and  *)
(* the client hands the results to the operations.                         *)
(*                                                                         *)
(* The address of an operation stands for its offset and the base address. *)
(***************************************************************************)
EXTENDS MemAccess

CONSTANTS
  QueueCap,      \* commands the request buffer holds
  CallersCount   \* what *opsCompleted was before the call

ASSUME RddiMemApAssumption == QueueCap \in Nat /\ CallersCount \in Nat

VARIABLES
  \* the caller and the library
  phase,         \* "idle", "queueing", "sent", "returned"
  direct,        \* a direct call and not a list
  list,          \* the operations
  next,          \* the loop's i, from 1
  pollMask,      \* MEM_AP_AccessBatch's locals
  pollValue,
  localOps,
  commands,      \* commands in the request buffer
  refused,       \* one could not be encoded
  opsCompleted,  \* *opsCompleted
  result,        \* what the call returns
  heard,         \* a reply was received
  own,           \* data delivered to each operation, or NULL
  \* the server
  serving,       \* it has the request
  ran            \* outcomes of the commands run

callVars   == <<phase, direct, list, next, pollMask, pollValue, localOps, commands, refused>>
returnVars == <<opsCompleted, result, heard, own>>
listVars   == <<callVars, returnVars, serving, ran>>

AllBytes == PollBytes
Zero     == [i \in PollBytes |-> 0]

RddiMemApInit ==
  /\ phase = "idle"
  /\ direct = FALSE
  /\ list = <<>>
  /\ next = 1
  /\ pollMask = AllBytes
  /\ pollValue = Zero
  /\ localOps = 0
  /\ commands = <<>>
  /\ refused = FALSE
  /\ opsCompleted = CallersCount
  /\ result = "none"
  /\ heard = FALSE
  /\ own = <<>>
  /\ serving = FALSE
  /\ ran = <<>>

-----------------------------------------------------------------------------
(* The library: queueing *)

Local(e) == e.op \in {"POLL_MASK", "POLL_VALUE"}
Repeats(e) == e.op \in {"WRITE_RPT", "READ_RPT"}
Polls(e) == e.op \in {"POLL_EQ", "POLL_NE"}
Checks(e) == e.op \in {"CHECK_EQ", "CHECK_NE"}

\* The command queued for operation i: polls and checks are of four bytes,
\* with the mask and value in force; a check makes no try.
Command(e, i) ==
  [kind  |-> CASE e.op \in {"WRITE", "WRITE_RPT"} -> "write"
               [] e.op \in {"READ", "READ_RPT"}   -> "read"
               [] Polls(e)                        -> "poll"
               [] Checks(e)                       -> "check",
   addr  |-> e.addr,
   size  |-> IF Polls(e) \/ Checks(e) THEN 4
             ELSE IF Repeats(e) THEN e.acc * e.count ELSE e.count,
   acc   |-> e.acc,
   incr  |-> ~Repeats(e),
   tries |-> IF Polls(e) THEN e.count ELSE 0,
   mask  |-> pollMask,
   value |-> pollValue,
   ne    |-> e.op \in {"POLL_NE", "CHECK_NE"},
   data  |-> e.data,
   from  |-> i]

\* MEM_AP_AccessBatch is called.
AccessBatch(ops) ==
  /\ phase = "idle"
  /\ phase' = "queueing"
  /\ list' = ops
  /\ own' = [i \in DOMAIN ops |-> NULL]
  /\ UNCHANGED <<direct, next, pollMask, pollValue, localOps, commands, refused,
                 opsCompleted, result, heard, serving, ran, memVars>>

\* POLL_MASK and POLL_VALUE are done by the library itself.
SetLocally(e) ==
  /\ Local(e)
  /\ pollMask' = IF e.op = "POLL_MASK" THEN e.mask ELSE pollMask
  /\ pollValue' = IF e.op = "POLL_VALUE" THEN e.data ELSE pollValue
  /\ localOps' = localOps + 1
  /\ UNCHANGED <<commands, refused>>

\* Slip: a command that does not fit is queued all the same.
QueueUnchecked(e) ==
  /\ ~Local(e)
  /\ commands' = Append(commands, Command(e, next))
  /\ refused' = (Len(commands) >= QueueCap)
  /\ UNCHANGED <<pollMask, pollValue, localOps>>

\* Any other operation becomes a command, if the buffer has room.
Queue(e) ==
  /\ ~Local(e)
  /\ commands' = IF Len(commands) < QueueCap THEN Append(commands, Command(e, next)) ELSE commands
  /\ refused' = (Len(commands) >= QueueCap)
  /\ UNCHANGED <<pollMask, pollValue, localOps>>

MoreToQueue == next <= Len(list) /\ ~refused

\* One turn of the loop.
QueueNext ==
  /\ phase = "queueing" /\ MoreToQueue
  /\ SetLocally(list[next]) \/ Queue(list[next])
  /\ next' = next + 1
  /\ UNCHANGED <<phase, direct, list, returnVars, serving, ran, memVars>>

\* cswp_batch_end: the request goes out; with nothing queued *opsCompleted is
\* only added to.
BatchEnd ==
  /\ phase = "queueing" /\ ~MoreToQueue
  /\ IF commands = <<>>
     THEN /\ phase' = "returned"
          /\ opsCompleted' = opsCompleted + localOps
          /\ result' = "success"
          /\ UNCHANGED serving
     ELSE /\ phase' = "sent"
          /\ serving' = TRUE
          /\ opsCompleted' = 0
          /\ UNCHANGED result
  /\ UNCHANGED <<direct, list, next, pollMask, pollValue, localOps, commands,
                 refused, heard, own, ran, memVars>>

\* MEM_AP_WriteValueRepeat and MEM_AP_Fill send a buffer filled with a value.
Filled(val, acc, count) == [i \in 1 .. acc * count |-> val[((i - 1) % acc) + 1]]

\* MEM_AP_Read, ReadRepeat, Write, WriteRepeat, WriteValueRepeat and Fill: one
\* command outside a batch.
DirectCall(e) ==
  /\ phase = "idle"
  /\ phase' = "sent"
  /\ direct' = TRUE
  /\ list' = <<e>>
  /\ next' = 2
  /\ commands' = <<Command(e, 1)>>
  /\ own' = <<NULL>>
  /\ serving' = TRUE
  /\ UNCHANGED <<pollMask, pollValue, localOps, refused, opsCompleted, result,
                 heard, ran, memVars>>

-----------------------------------------------------------------------------
(* The server: cswp_mem_read, cswp_mem_write, cswp_mem_poll, one by one *)

SomeFailed == \E i \in DOMAIN ran : ~ran[i].ok
ServerDone == poll = NULL /\ (SomeFailed \/ Len(ran) = Len(commands))
Current    == commands[Len(ran) + 1]
Finished(outcome) == ran' = Append(ran, outcome)

RunRead ==
  /\ Current.kind = "read"
  /\ \E o \in MemRead(Current) : Finished(o)
  /\ UNCHANGED memVars

RunWrite ==
  /\ Current.kind = "write"
  /\ \E ok \in BOOLEAN : MemWrite(Current, ok) /\ Finished([ok |-> ok, data |-> <<>>])
  /\ UNCHANGED <<device, lastPoll, poll>>

RunCheck ==
  /\ Current.kind = "check"
  /\ Finished(CheckLast(Current))
  /\ UNCHANGED memVars

RunPoll ==
  /\ Current.kind = "poll"
  /\ \/ poll = NULL /\ ~PollRefused(Current) /\ PollBegins(Current) /\ UNCHANGED ran
     \/ poll = NULL /\ PollFailsEarly(Current) /\ Finished(Failure)
     \/ PollTry(Current) /\ UNCHANGED ran
     \/ /\ poll # NULL
        /\ \E o \in {Failure, Success(poll.buf)} : PollEnds(o) /\ Finished(o)
  /\ UNCHANGED device

RunCommand ==
  /\ serving /\ ~ServerDone
  /\ RunRead \/ RunWrite \/ RunCheck \/ RunPoll
  /\ UNCHANGED <<callVars, returnVars, serving>>

-----------------------------------------------------------------------------
(* The library: the reply *)

\* Commands that succeeded: all before the first that failed.
Succeeded == Cardinality({i \in DOMAIN ran : ran[i].ok})

\* The command that was queued for operation i, and whether it succeeded.
Performed(i) == \E k \in DOMAIN ran : commands[k].from = i /\ ran[k].ok

\* What a reply delivers to operation i: a check has nowhere to put its data.
Delivered(i) ==
  IF Performed(i) /\ ~Checks(list[i]) /\ list[i].op \notin {"WRITE", "WRITE_RPT"}
  THEN ran[CHOOSE k \in DOMAIN ran : commands[k].from = i].data ELSE NULL

\* Slip: the failing command is counted.
CountWithFailing == IF direct THEN opsCompleted ELSE Len(ran) + localOps

\* What MEM_AP_AccessBatch makes of the count.
Count == IF direct THEN opsCompleted ELSE Succeeded + localOps

\* The reply comes; its error, if any, replaces that of the queueing loop.
Reply ==
  /\ phase = "sent" /\ serving /\ ServerDone
  /\ phase' = "returned"
  /\ heard' = TRUE
  /\ opsCompleted' = Count
  /\ own' = [i \in DOMAIN list |-> Delivered(i)]
  /\ result' = IF SomeFailed THEN "failed" ELSE "success"
  /\ serving' = FALSE
  /\ UNCHANGED <<direct, list, next, pollMask, pollValue, localOps, commands,
                 refused, ran, memVars>>

\* The transport's send or receive fails; the server may be at work on the
\* request all the same.
ConnectionFails ==
  /\ phase = "sent"
  /\ phase' = "returned"
  /\ opsCompleted' = IF direct THEN opsCompleted ELSE localOps
  /\ result' = "failed"
  /\ serving' = TRUE \/ (ran = <<>> /\ poll = NULL /\ serving' = FALSE)
  /\ UNCHANGED <<direct, list, next, pollMask, pollValue, localOps, commands,
                 refused, heard, own, ran, memVars>>

\* The server's reply has no receiver.
ReplyLost ==
  /\ phase = "returned" /\ serving /\ ServerDone
  /\ serving' = FALSE
  /\ UNCHANGED <<callVars, returnVars, ran, memVars>>

\* The client makes one call, with one of the lists or operations.
RddiMemApNext(lists, operations) ==
  \/ \E ops \in lists : AccessBatch(ops)
  \/ \E e \in operations : DirectCall(e)
  \/ QueueNext \/ BatchEnd \/ RunCommand \/ Reply \/ ConnectionFails \/ ReplyLost

-----------------------------------------------------------------------------

RddiMemApTypeOK ==
  /\ MemTypeOK
  /\ phase \in {"idle", "queueing", "sent", "returned"}
  /\ next \in 1 .. Len(list) + 1
  /\ pollMask \subseteq PollBytes /\ Len(pollValue) = 4
  /\ Len(commands) <= (IF direct THEN 1 ELSE QueueCap) /\ Len(ran) <= Len(commands)
  /\ result \in {"none", "success", "failed"}
  /\ DOMAIN own = DOMAIN list
  /\ serving => phase \in {"sent", "returned"}

\* A list is done exactly when *opsCompleted says so: whatever stopped it - a
\* failing command, a full request buffer whose error is overwritten, a lost
\* reply - the count tells, unless nothing was sent at all.
CountExact ==
  phase = "returned" /\ commands # <<>> /\ ~direct =>
    LET all == \A i \in DOMAIN list : Local(list[i]) \/ Performed(i) IN
    /\ opsCompleted = Len(list) => all
    /\ heard => /\ all => opsCompleted = Len(list)
                /\ (result = "success") = (Succeeded = Len(commands))

-----------------------------------------------------------------------------
(* The promise it keeps *)

\* A try that matched has decided its poll, before the server says so.
PollDecided == poll # NULL /\ poll.done /\ poll.res = "success"

Reachable  == device # "none"
PolledLast == IF PollDecided THEN poll.buf ELSE lastPoll

LastDone ==
  IF PollDecided THEN Current.from
  ELSE IF Succeeded = 0 THEN 0 ELSE commands[Succeeded].from

SamplesTaken == IF poll = NULL \/ PollDecided THEN 0 ELSE Current.tries - poll.left

ResultsSoFar ==
  [i \in DOMAIN list |-> IF PollDecided /\ Current.from = i THEN poll.buf ELSE Delivered(i)]

Returned == IF phase = "returned" THEN result ELSE "no"

ListPromise == INSTANCE MemApListPromise WITH
  reachable <- Reachable,
  polled    <- PolledLast,
  at        <- LastDone,
  samples   <- SamplesTaken,
  failed    <- SomeFailed,
  results   <- ResultsSoFar,
  returned  <- Returned

\* A list of operations is performed as if on the memory itself, whatever the
\* target does meanwhile and even when its connection is lost.
KeepsListPromise == ListPromise!Spec
=============================================================================
