--------------------------- MODULE StreamingTrace ---------------------------
(***************************************************************************)
(* The RDDI streaming trace library: StreamingTraceBase with its USB and   *)
(* AMIS layers.  A client attaches to a sink, submits buffers, starts,     *)
(* waits, flushes, stops and detaches, in any order; a data thread per     *)
(* attached sink completes USB transfers.                                  *)
(*                                                                         *)
(* Every API call holds m_lock from beginning to end and is one action,    *)
(* except Detach, which releases it to join the data thread and in         *)
(* waitForBuffer.  The USB device and the trace driver behind it are       *)
(* external: transfers of an endpoint complete in order.                   *)
(***************************************************************************)
EXTENDS Integers, Sequences, FiniteSets, Functions

CONSTANTS
  Sinks,            \* sinks discovered by Connect
  Endpoints,        \* bulk endpoints for trace data
  DataBufs,         \* the client's data buffers
  EventBufs,        \* the client's event buffers
  DataBufferCount,  \* SinkDetails.dataBufferCount: transfers a sink keeps in flight
  CONTROL,          \* the control endpoint, and what its transfers read into
  NULL,
  MaxAttach,        \* bound: calls of Attach
  MaxControl,       \* bound: control transfers outstanding when a call adds one
  RequestsFail,     \* BOOLEAN: a control request to the device may fail
  SubmitsFail,      \* BOOLEAN: the submission of a transfer may fail
  TransfersFail     \* BOOLEAN: a transfer may fail that is not cancelled

ASSUME TraceAssumption ==
  /\ DataBufferCount \in Nat \ {0}
  /\ MaxAttach \in Nat \ {0} /\ MaxControl \in Nat \ {0}
  /\ RequestsFail \in BOOLEAN /\ SubmitsFail \in BOOLEAN
  /\ TransfersFail \in BOOLEAN
  /\ DataBufs \cap EventBufs = {}
  /\ CONTROL \notin DataBufs \cup EventBufs \cup Endpoints
  /\ NULL \notin Sinks \cup Endpoints \cup DataBufs \cup EventBufs \cup {CONTROL}
  /\ "client" \notin Sinks \cup {NULL}

VARIABLES
  \* SinkState, per sink
  status,        \* DETACHED, ATTACHED, ACTIVE
  queued,        \* queuedBuffers: submitted by the client, not yet to USB
  pending,       \* pendingBuffers: submitted to USB
  eventBufs,     \* eventBuffers
  completed,     \* completedEventTokens
  transportID,   \* the endpoint; not initialised by the constructor
  \* StreamingTraceBase, StreamingTraceUSB, StreamingTraceAMIS
  dataThread,    \* m_dataThread: the sink of the thread it holds, or NULL
  dataTokens,    \* m_dataTransferTokens
  controlToken,  \* m_controlToken
  controlMsg,    \* m_controlMsg
  attachedSink,  \* m_traceEndpoints: the sink of each endpoint
  \* threads
  agent,         \* the client and each sink's data thread
  \* client
  holder,        \* of each buffer: the client, the sink it was submitted to, or
                 \* NULL when the submission failed
  bufType,       \* pEventBuffer->type, NONE also for used = 0
  result,        \* the outcome of the last API call
  attaches,      \* calls of Attach so far, which tell a buffer's tokens apart
  \* USB device and trace driver
  inFlight,      \* transfers per endpoint
  done,          \* completed transfers, in order of completion
  stream         \* the driver's state of each sink

library == <<status, queued, pending, eventBufs, completed, transportID,
             dataThread, dataTokens, controlToken, attachedSink>>
client  == <<holder, bufType, result, attaches>>
usb     == <<inFlight, done, controlMsg, stream>>
vars    == <<library, agent, client, usb>>

CLIENT  == "client"
Agents  == Sinks \cup {CLIENT}
Buffers == DataBufs \cup EventBufs

\* A library token and the token of the transfer that fills its buffer: the
\* buffer, the sink and the Attach it was submitted under.  Control transfers are
\* numbered by the smallest number that is free.  CANCELLED and ERROR, which
\* differ in the type of an empty buffer only, are both FAILED.
Tokens        == [buf : Buffers, sink : Sinks, no : 0 .. MaxAttach]
ControlTokens == [buf : {CONTROL}, no : 0 .. MaxControl]
Completions   == [token : Tokens \cup ControlTokens,
                  status : {"SUCCESS", "FAILED"}]
Nothing       == [token |-> NULL, status |-> "FAILED"]

ASSUME NullAssumption == NULL \notin Tokens \cup ControlTokens

\* pc    data thread: run (to look at the queues), cond (waiting for buffers),
\*       exited; client: join, detachDevice, discard (in Detach); both: usb
\*       (in completeTransfer), got (back from it, without the lock yet)
\* sink  the sink the client detaches from, or the thread's own
\* buf   the buffer that waitForBuffer was called with
\* got   what completeTransfer returned, Nothing for -1
Idle == [pc |-> "idle", sink |-> NULL, buf |-> NULL, got |-> Nothing]

TypeOK ==
  /\ status \in [Sinks -> {"DETACHED", "ATTACHED", "ACTIVE"}]
  /\ queued \in [Sinks -> Seq(Tokens)]
  /\ pending \in [Sinks -> Seq(Tokens)]
  /\ eventBufs \in [Sinks -> Seq(Tokens)]
  /\ completed \in [Sinks -> Seq(Tokens)]
  /\ transportID \in [Sinks -> Endpoints \cup {NULL}]
  /\ dataThread \in Sinks \cup {NULL}
  /\ dataTokens \in Seq(Tokens)
  /\ controlToken \in ControlTokens \cup {NULL}
  /\ controlMsg \in [status : {"END_SESSION", "OTHER"}, sink : Sinks]
  /\ attachedSink \in [Endpoints -> Sinks \cup {NULL}]
  /\ agent \in [Agents ->
       [pc : {"idle", "run", "cond", "usb", "got", "exited", "join",
              "detachDevice", "discard"},
        sink : Sinks \cup {NULL}, buf : Tokens \cup {NULL},
        got : Completions \cup {Nothing}]]
  /\ holder \in [Buffers -> Agents \cup {NULL}]
  /\ bufType \in [Buffers -> {"NONE", "DATA", "END_OF_DATA"}]
  /\ result \in {"ok", "error"}
  /\ attaches \in [Sinks -> 0 .. MaxAttach]
  /\ inFlight \in [Endpoints \cup {CONTROL} ->
       Seq([token : Tokens \cup ControlTokens, cancelled : BOOLEAN])]
  /\ done \in Seq(Completions)
  /\ stream \in [Sinks -> {"detached", "attached", "started", "stopping"}]

\* The state Connect leaves.
Init ==
  /\ status = [s \in Sinks |-> "DETACHED"]
  /\ queued = [s \in Sinks |-> <<>>]
  /\ pending = [s \in Sinks |-> <<>>]
  /\ eventBufs = [s \in Sinks |-> <<>>]
  /\ completed = [s \in Sinks |-> <<>>]
  /\ transportID \in [Sinks -> Endpoints \cup {NULL}]
  /\ dataThread = NULL
  /\ dataTokens = <<>>
  /\ controlToken = NULL
  /\ controlMsg \in [status : {"OTHER"}, sink : Sinks]
  /\ attachedSink = [e \in Endpoints |-> NULL]
  /\ agent = [a \in Agents |-> Idle]
  /\ holder = [b \in Buffers |-> CLIENT]
  /\ bufType = [b \in Buffers |-> "NONE"]
  /\ result = "ok"
  /\ attaches = [s \in Sinks |-> 0]
  /\ inFlight = [e \in Endpoints \cup {CONTROL} |-> <<>>]
  /\ done = <<>>
  /\ stream = [s \in Sinks |-> "detached"]

-----------------------------------------------------------------------------
(* USB transfers *)

Transfer(t) == [token |-> t, cancelled |-> FALSE]

\* Tokens of the transfers that are not completed yet, and of those that are
\* but have not been handled.
InFlight     == UNION {{x.token : x \in Range(inFlight[e])} : e \in DOMAIN inFlight}
Outstanding  == InFlight \cup {x.token : x \in Range(done)}
                         \cup {agent[a].got.token : a \in Agents}

ControlsOut  == {t \in Outstanding \cup {controlToken} : t \in ControlTokens}
FreshControl ==
  [buf |-> CONTROL,
   no  |-> CHOOSE n \in 0 .. MaxControl :
             /\ [buf |-> CONTROL, no |-> n] \notin ControlsOut
             /\ \A m \in 0 .. n - 1 : [buf |-> CONTROL, no |-> m] \in ControlsOut]

\* submitControlChannelRequest, with flight the transfers of the endpoints.
SubmitControl(flight) ==
  /\ inFlight' = [flight EXCEPT ![CONTROL] = Append(@, Transfer(FreshControl))]
  /\ controlToken' = FreshControl

Cancelled(flight) ==
  [e \in DOMAIN flight |->
     [i \in DOMAIN flight[e] |-> [flight[e][i] EXCEPT !.cancelled = TRUE]]]

\* cancelTransfers: all of them, whatever sink or endpoint they are for.
CancelTransfers == inFlight' = Cancelled(inFlight)

\* completeTransfer returns to agent a the next completion, or -1 when there
\* is nothing to wait for.
CompleteTransfer(a) ==
  \/ /\ done # <<>>
     /\ agent' = [agent EXCEPT ![a].got = Head(done), ![a].pc = "got"]
     /\ done' = Tail(done)
  \/ /\ done = <<>> /\ InFlight = {}
     /\ agent' = [agent EXCEPT ![a].got = Nothing, ![a].pc = "got"]
     /\ UNCHANGED done

-----------------------------------------------------------------------------
(* Buffers *)

Smaller(m, n) == IF m < n THEN m ELSE n

\* How many buffers of queue q submitBuffers can pass on when p are pending.
Room(p, q) == IF Len(p) < DataBufferCount THEN Smaller(Len(q), DataBufferCount - Len(p)) ELSE 0

\* submitBuffers for sink s, whose queues are q and p, with dt the tokens of
\* the transfers before: the first n buffers are submitted and the data thread
\* is notified of each.
Submit(s, q, p, dt, n) ==
  LET moved == SubSeq(q, 1, n) IN
  /\ queued' = [queued EXCEPT ![s] = SubSeq(q, n + 1, Len(q))]
  /\ pending' = [pending EXCEPT ![s] = p \o moved]
  /\ dataTokens' = dt \o moved

Submitted(s, q, n) ==
  IF n = 0 THEN inFlight
  ELSE [inFlight EXCEPT ![transportID[s]] = @ \o [i \in 1 .. n |-> Transfer(q[i])]]

\* The loop ends with the queue or the room used up, or one submission
\* throws: the endpoint does not exist, or the USB stack reports an error.
SubmitsAll(s, q, p, n) ==
  n = Room(p, q) /\ (n > 0 => transportID[s] # NULL)

SubmitThrows(s, q, p, n) ==
  /\ n < Room(p, q)
  /\ IF transportID[s] = NULL THEN n = 0 ELSE SubmitsFail

\* pendingBuffersCond.
Notified(s, n) ==
  IF n > 0 /\ agent[s].pc = "cond" THEN [agent EXCEPT ![s].pc = "run"] ELSE agent

-----------------------------------------------------------------------------
(* API calls *)

LockFree   == agent[CLIENT].pc \notin {"detachDevice", "discard"}
ClientIdle == agent[CLIENT].pc = "idle"

Fails   == result' = "error"
Returns == result' = "ok"

EndpointOf(s) == {e \in Endpoints : attachedSink[e] = s}

\* Attach, with attachDevice: the sink counts as attached even when the device
\* refuses, and then has no data thread.  The client attaches a sink that is
\* detached and whose former thread is gone.
AttachSucceeds(s, e) ==
  /\ SubmitControl(inFlight)
  /\ attachedSink' = [attachedSink EXCEPT ![e] = s]
  /\ transportID' = [transportID EXCEPT ![s] = e]
  /\ stream' = [stream EXCEPT ![s] = "attached"]
  /\ agent' = [agent EXCEPT ![s] = [Idle EXCEPT !.pc = "run", !.sink = s]]
  /\ dataThread' = s
  /\ Returns

AttachFails(s) ==
  /\ \/ /\ RequestsFail \/ \A e \in Endpoints : attachedSink[e] # NULL
        /\ UNCHANGED stream
     \/ /\ SubmitsFail
        /\ stream' = [stream EXCEPT ![s] = "attached"]
  /\ Fails
  /\ UNCHANGED <<inFlight, controlToken, attachedSink, transportID, agent,
                 dataThread>>

Attach(s) ==
  /\ ClientIdle
  /\ status[s] = "DETACHED" /\ agent[s].pc \in {"idle", "exited"}
  /\ attaches[s] < MaxAttach
  /\ Cardinality(ControlsOut) < MaxControl
  /\ attaches' = [attaches EXCEPT ![s] = @ + 1]
  /\ status' = [status EXCEPT ![s] = "ATTACHED"]
  /\ \/ \E e \in Endpoints : attachedSink[e] = NULL /\ AttachSucceeds(s, e)
     \/ AttachFails(s)
  /\ UNCHANGED <<queued, pending, eventBufs, completed, dataTokens, controlMsg,
                 holder, bufType, done>>

TokenOf(s, b) == [buf |-> b, sink |-> s, no |-> attaches[s]]

\* SubmitEventBuffer.  When the transfer cannot be submitted the call fails
\* and the buffer stays in the queue: a careful client does not use it before
\* it has detached.
SubmitData(s, b) ==
  LET q == Append(queued[s], TokenOf(s, b)) IN
  /\ \/ /\ status[s] = "ATTACHED"
        /\ queued' = [queued EXCEPT ![s] = q]
        /\ holder' = [holder EXCEPT ![b] = s]
        /\ Returns
        /\ UNCHANGED <<pending, dataTokens, inFlight, agent>>
     \/ /\ status[s] = "ACTIVE"
        /\ \E n \in 0 .. Len(q) :
             /\ \/ /\ SubmitsAll(s, q, pending[s], n)
                   /\ holder' = [holder EXCEPT ![b] = s]
                   /\ Returns
                \/ /\ SubmitThrows(s, q, pending[s], n)
                   /\ holder' = [holder EXCEPT ![b] = NULL]
                   /\ Fails
             /\ Submit(s, q, pending[s], dataTokens, n)
             /\ inFlight' = Submitted(s, q, n)
             /\ agent' = Notified(s, n)

SubmitEvent(s, b) ==
  /\ eventBufs' = [eventBufs EXCEPT ![s] = Append(@, TokenOf(s, b))]
  /\ holder' = [holder EXCEPT ![b] = s]
  /\ Returns

SubmitEventBuffer(s, b) ==
  /\ ClientIdle
  /\ status[s] # "DETACHED"
  /\ holder[b] = CLIENT
  /\ bufType' = [bufType EXCEPT ![b] = "NONE"]
  /\ \/ /\ b \in DataBufs
        /\ SubmitData(s, b)
        /\ UNCHANGED eventBufs
     \/ /\ b \in EventBufs
        /\ SubmitEvent(s, b)
        /\ UNCHANGED <<queued, pending, dataTokens, inFlight, agent>>
  /\ UNCHANGED <<status, completed, transportID, dataThread, controlToken,
                 attachedSink, attaches, done, controlMsg, stream>>

\* WaitForEvent, which does not ask whether the sink is attached.  A client
\* that keeps the token of each buffer finds no buffer for an invalid one, nor
\* for one whose submission failed, since it was not told the token.
WaitForEvent(s) ==
  /\ ClientIdle
  /\ completed[s] # <<>>
  /\ completed' = [completed EXCEPT ![s] = Tail(@)]
  /\ LET t == Head(completed[s]) IN
     holder' = [holder EXCEPT ![t.buf] = IF t = TokenOf(s, t.buf) /\ @ = s THEN CLIENT ELSE @]
  /\ Returns
  /\ UNCHANGED <<status, queued, pending, eventBufs, transportID, dataThread,
                 dataTokens, controlToken, attachedSink, agent,
                 bufType, attaches, usb>>

\* startDevice assigns -1 to m_controlToken where it means to compare it, so a
\* control request is submitted whether or not there is one.
StartsDevice(s, flight) ==
  \/ /\ EndpointOf(s) # {}
     /\ Cardinality(ControlsOut) < MaxControl
     /\ SubmitControl(flight)
     /\ \/ /\ Returns
           /\ stream' = [stream EXCEPT ![s] = "started"]
        \/ /\ RequestsFail
           /\ Fails
           /\ UNCHANGED stream
  \/ /\ EndpointOf(s) # {} /\ SubmitsFail
     /\ Fails
     /\ inFlight' = flight /\ controlToken' = NULL
     /\ UNCHANGED stream
  \/ /\ EndpointOf(s) = {}
     /\ Fails
     /\ inFlight' = flight
     /\ UNCHANGED <<controlToken, stream>>

\* Start: the sink is ACTIVE even when the call fails.
Start(s) ==
  /\ ClientIdle
  /\ status[s] # "DETACHED"
  /\ status' = [status EXCEPT ![s] = "ACTIVE"]
  /\ \E n \in 0 .. Len(queued[s]) :
       /\ \/ /\ SubmitsAll(s, queued[s], pending[s], n)
             /\ StartsDevice(s, Submitted(s, queued[s], n))
          \/ /\ SubmitThrows(s, queued[s], pending[s], n)
             /\ Fails
             /\ inFlight' = Submitted(s, queued[s], n)
             /\ UNCHANGED <<controlToken, stream>>
       /\ Submit(s, queued[s], pending[s], dataTokens, n)
       /\ agent' = Notified(s, n)
  /\ UNCHANGED <<eventBufs, completed, transportID, dataThread, attachedSink,
                 holder, bufType, attaches, done, controlMsg>>

\* Slip: event buffers are not completed.
StopKeepsEvents(s) ==
  /\ ClientIdle
  /\ status[s] = "ACTIVE"
  /\ status' = [status EXCEPT ![s] = "ATTACHED"]
  /\ CancelTransfers
  /\ Returns
  /\ UNCHANGED <<queued, pending, eventBufs, completed, transportID, dataThread,
                 dataTokens, controlToken, attachedSink, agent, holder, bufType,
                 attaches, done, controlMsg, stream>>

\* Slip: nothing is cancelled.
StopWithoutCancel(s) ==
  /\ ClientIdle
  /\ status[s] = "ACTIVE"
  /\ status' = [status EXCEPT ![s] = "ATTACHED"]
  /\ completed' = [completed EXCEPT ![s] = @ \o eventBufs[s]]
  /\ eventBufs' = [eventBufs EXCEPT ![s] = <<>>]
  /\ Returns
  /\ UNCHANGED <<queued, pending, transportID, dataThread, dataTokens,
                 controlToken, attachedSink, agent, holder, bufType, attaches,
                 inFlight, done, controlMsg, stream>>

\* Stop: what is in flight is cancelled and comes back through the data
\* thread, event buffers are completed here.
Stop(s) ==
  /\ ClientIdle
  /\ status[s] = "ACTIVE"
  /\ status' = [status EXCEPT ![s] = "ATTACHED"]
  /\ CancelTransfers
  /\ completed' = [completed EXCEPT ![s] = @ \o eventBufs[s]]
  /\ eventBufs' = [eventBufs EXCEPT ![s] = <<>>]
  /\ bufType' = [b \in Buffers |->
       IF \E t \in Range(eventBufs[s]) : t.buf = b THEN "NONE" ELSE bufType[b]]
  /\ Returns
  /\ UNCHANGED <<queued, pending, transportID, dataThread, dataTokens,
                 controlToken, attachedSink, agent, holder, attaches,
                 done, controlMsg, stream>>

\* Flush, with doFlush's request to stop the stream.
Flush(s) ==
  /\ ClientIdle
  /\ status[s] # "DETACHED"
  /\ \/ /\ EndpointOf(s) # {}
        /\ stream' = [stream EXCEPT ![s] = IF @ = "started" THEN "stopping" ELSE @]
        /\ Returns
     \/ /\ EndpointOf(s) = {} \/ RequestsFail
        /\ Fails
        /\ UNCHANGED stream
  /\ UNCHANGED <<library, agent, holder, bufType, attaches, inFlight,
                 done, controlMsg>>

-----------------------------------------------------------------------------
(* waitForBuffer, as seen by agent a after completeTransfer *)

Got(a) == agent[a].got

\* Slip: any completion is taken for the one expected.
ExpectedAny(a) == Got(a) # Nothing /\ dataTokens # <<>>

\* The transfer at the front of m_dataTransferTokens completed.
Expected(a) == Got(a) # Nothing /\ dataTokens # <<>> /\ Got(a).token = Head(dataTokens)

\* Data, or an empty buffer.
FillBuffer(a) ==
  bufType' = [bufType EXCEPT ![agent[a].buf.buf] =
                IF Got(a).status = "SUCCESS" THEN "DATA" ELSE "NONE"]

\* Slip: the device's code of the event is the buffer's type.
RawEndOfData(s) ==
  IF eventBufs[s] # <<>>
  THEN /\ completed' = [completed EXCEPT ![s] = Append(@, Head(eventBufs[s]))]
       /\ eventBufs' = [eventBufs EXCEPT ![s] = Tail(@)]
       /\ bufType' = [bufType EXCEPT ![Head(eventBufs[s]).buf] = "END_SESSION"]
  ELSE UNCHANGED <<completed, eventBufs, bufType>>

\* doSendStateEvent: a state event needs a buffer of the client's.
EndOfData(s) ==
  IF eventBufs[s] # <<>>
  THEN /\ completed' = [completed EXCEPT ![s] = Append(@, Head(eventBufs[s]))]
       /\ eventBufs' = [eventBufs EXCEPT ![s] = Tail(@)]
       /\ bufType' = [bufType EXCEPT ![Head(eventBufs[s]).buf] = "END_OF_DATA"]
  ELSE UNCHANGED <<completed, eventBufs, bufType>>

\* completeUsbTransfer of the control transfer: the message is the one in
\* m_controlMsg now.
IsControl(a) == ~Expected(a) /\ Got(a) # Nothing /\ Got(a).token = controlToken

HandleMessage ==
  IF controlMsg.status = "END_SESSION"
  THEN EndOfData(controlMsg.sink)
  ELSE UNCHANGED <<completed, eventBufs, bufType>>

\* agents' is the state afterwards, thrown when the next request throws.
HandleControl(a, after, thrown) ==
  IF Got(a).status = "SUCCESS"
  THEN /\ HandleMessage
       /\ \/ /\ SubmitControl(inFlight)
             /\ agent' = [agent EXCEPT ![a] = after]
          \/ /\ SubmitsFail
             /\ agent' = [agent EXCEPT ![a] = thrown]
             /\ UNCHANGED <<inFlight, controlToken>>
  ELSE /\ controlToken' = NULL
       /\ agent' = [agent EXCEPT ![a] = after]
       /\ UNCHANGED <<completed, eventBufs, bufType, inFlight>>

\* Any other transfer is forgotten, as is -1.
IsIgnored(a) == Got(a) = Nothing \/ ~(Expected(a) \/ IsControl(a))

-----------------------------------------------------------------------------
(* The data thread of sink s: WaitForDataEvent *)

Thread(s, pc) == [Idle EXCEPT !.pc = pc, !.sink = s]

DataThreadLooks(s) ==
  /\ LockFree /\ agent[s].pc = "run"
  /\ agent' = [agent EXCEPT ![s] =
       IF status[s] = "DETACHED" THEN Thread(s, "exited")
       ELSE IF pending[s] = <<>> THEN Thread(s, "cond")
       ELSE [Thread(s, "usb") EXCEPT !.buf = Head(pending[s])]]
  /\ UNCHANGED <<library, client, usb>>

DataThreadCompletes(s) ==
  /\ agent[s].pc = "usb"
  /\ CompleteTransfer(s)
  /\ UNCHANGED <<library, client, inFlight, controlMsg, stream>>

\* The buffer is returned after the next ones are submitted; when that
\* throws, the thread ends with the token still in its hands.
DataThreadReturnsBuffer(s) ==
  LET rest == Tail(pending[s])
      n0   == IF status[s] = "ACTIVE" THEN Len(queued[s]) ELSE 0
  IN
  /\ Expected(s)
  /\ FillBuffer(s)
  /\ \E n \in 0 .. n0 :
       /\ \/ /\ status[s] = "ACTIVE" => SubmitsAll(s, queued[s], rest, n)
             /\ completed' = [completed EXCEPT ![s] = Append(@, agent[s].buf)]
             /\ agent' = [agent EXCEPT ![s] = Thread(s, "run")]
          \/ /\ status[s] = "ACTIVE" /\ SubmitThrows(s, queued[s], rest, n)
             /\ agent' = [agent EXCEPT ![s] = Thread(s, "exited")]
             /\ UNCHANGED completed
       /\ Submit(s, queued[s], rest, Tail(dataTokens), n)
       /\ inFlight' = Submitted(s, queued[s], n)
  /\ UNCHANGED <<eventBufs, controlToken>>

DataThreadHandles(s) ==
  /\ LockFree /\ agent[s].pc = "got"
  /\ \/ DataThreadReturnsBuffer(s)
     \/ /\ IsControl(s)
        /\ HandleControl(s, Thread(s, "run"), Thread(s, "exited"))
        /\ UNCHANGED <<queued, pending, dataTokens>>
     \/ /\ IsIgnored(s)
        /\ agent' = [agent EXCEPT ![s] = Thread(s, "run")]
        /\ UNCHANGED <<queued, pending, eventBufs, completed, dataTokens,
                       controlToken, bufType, inFlight>>
  /\ UNCHANGED <<status, transportID, dataThread, attachedSink, holder, result,
                 attaches, done, controlMsg, stream>>

-----------------------------------------------------------------------------
(* Detach *)

\* The loop of Detach waits for the first buffer of p, or is at its end.
Draining(s, p) ==
  IF p # <<>>
  THEN [Idle EXCEPT !.pc = "usb", !.sink = s, !.buf = Head(p)]
  ELSE [Idle EXCEPT !.pc = "detachDevice", !.sink = s]

\* Slip: the data thread is not waited for.
DetachWithoutJoin(s) ==
  /\ ClientIdle
  /\ status' = [status EXCEPT ![s] = "DETACHED"]
  /\ LET woken == IF agent[s].pc = "cond" THEN [agent EXCEPT ![s].pc = "run"]
                                          ELSE agent IN
     agent' = [woken EXCEPT ![CLIENT] = Draining(s, pending[s])]
  /\ CancelTransfers
  /\ UNCHANGED <<queued, pending, eventBufs, completed, transportID, dataThread,
                 dataTokens, controlToken, attachedSink, client, done,
                 controlMsg, stream>>

\* The thread that m_dataThread holds is joined, whichever sink it serves.
Detach(s) ==
  /\ ClientIdle
  /\ status' = [status EXCEPT ![s] = "DETACHED"]
  /\ LET woken == IF agent[s].pc = "cond" THEN [agent EXCEPT ![s].pc = "run"]
                                          ELSE agent IN
     IF dataThread # NULL
     THEN /\ agent' = [woken EXCEPT ![CLIENT] = [Idle EXCEPT !.pc = "join", !.sink = s]]
          /\ UNCHANGED inFlight
     ELSE /\ agent' = [woken EXCEPT ![CLIENT] = Draining(s, pending[s])]
          /\ CancelTransfers
  /\ UNCHANGED <<queued, pending, eventBufs, completed, transportID, dataThread,
                 dataTokens, controlToken, attachedSink, client, done,
                 controlMsg, stream>>

DetachJoins ==
  /\ agent[CLIENT].pc = "join"
  /\ agent[dataThread].pc = "exited"
  /\ dataThread' = NULL
  /\ CancelTransfers
  /\ LET s == agent[CLIENT].sink IN
     agent' = [agent EXCEPT ![CLIENT] = Draining(s, pending[s])]
  /\ UNCHANGED <<status, queued, pending, eventBufs, completed, transportID,
                 dataTokens, controlToken, attachedSink, client, done,
                 controlMsg, stream>>

DetachCompletes ==
  /\ agent[CLIENT].pc = "usb"
  /\ CompleteTransfer(CLIENT)
  /\ UNCHANGED <<library, client, inFlight, controlMsg, stream>>

\* A transfer that is not the one expected ends the loop, a control transfer
\* among them.
DetachHandles ==
  LET s     == agent[CLIENT].sink
      leave == [Idle EXCEPT !.pc = "detachDevice", !.sink = s]
  IN
  /\ agent[CLIENT].pc = "got"
  /\ \/ /\ Expected(CLIENT)
        /\ FillBuffer(CLIENT)
        /\ dataTokens' = Tail(dataTokens)
        /\ pending' = [pending EXCEPT ![s] = Tail(@)]
        /\ agent' = [agent EXCEPT ![CLIENT] = Draining(s, Tail(pending[s]))]
        /\ UNCHANGED <<eventBufs, completed, controlToken, inFlight, result>>
     \/ /\ IsControl(CLIENT)
        /\ HandleControl(CLIENT, leave, Idle)
        /\ result' = IF agent'[CLIENT] = Idle THEN "error" ELSE result
        /\ UNCHANGED <<pending, dataTokens>>
     \/ /\ IsIgnored(CLIENT)
        /\ agent' = [agent EXCEPT ![CLIENT] = leave]
        /\ UNCHANGED <<pending, eventBufs, completed, dataTokens, controlToken,
                       bufType, inFlight, result>>
  /\ UNCHANGED <<status, queued, transportID, dataThread, attachedSink, holder,
                 attaches, done, controlMsg, stream>>

\* detachDevice.  With the lock held, every outstanding transfer is completed
\* and thrown away.
DetachDevice ==
  LET s == agent[CLIENT].sink IN
  /\ agent[CLIENT].pc = "detachDevice"
  /\ \/ /\ attachedSink' = [e \in Endpoints |->
             IF attachedSink[e] = s THEN NULL ELSE attachedSink[e]]
        /\ stream' = [stream EXCEPT ![s] = "detached"]
        /\ agent' = [agent EXCEPT ![CLIENT].pc = "discard"]
        /\ UNCHANGED result
     \/ /\ RequestsFail /\ EndpointOf(s) # {}
        /\ Fails
        /\ agent' = [agent EXCEPT ![CLIENT] = Idle]
        /\ UNCHANGED <<attachedSink, stream>>
  /\ UNCHANGED <<status, queued, pending, eventBufs, completed, transportID,
                 dataThread, dataTokens, controlToken, holder, bufType,
                 attaches, inFlight, done, controlMsg>>

DetachDiscards ==
  /\ agent[CLIENT].pc = "discard"
  /\ done # <<>>
  /\ done' = Tail(done)
  /\ UNCHANGED <<library, agent, client, inFlight, controlMsg, stream>>

\* Slip: detachDevice does not wait for what it cancelled.
NothingToDiscardNow == done = <<>>

NothingToDiscard == done = <<>> /\ InFlight = {}

DetachReturns ==
  LET s == agent[CLIENT].sink IN
  /\ agent[CLIENT].pc = "discard"
  /\ NothingToDiscard
  /\ queued' = [queued EXCEPT ![s] = <<>>]
  /\ pending' = [pending EXCEPT ![s] = <<>>]
  /\ eventBufs' = [eventBufs EXCEPT ![s] = <<>>]
  /\ holder' = [b \in Buffers |-> IF holder[b] \in {s, NULL} THEN CLIENT ELSE holder[b]]
  /\ agent' = [agent EXCEPT ![CLIENT] = Idle]
  /\ Returns
  /\ UNCHANGED <<status, completed, transportID, dataThread, dataTokens,
                 controlToken, attachedSink, bufType, attaches, usb>>

-----------------------------------------------------------------------------
(* The USB stack and the trace driver *)

Completes(e, how) ==
  /\ done' = Append(done, [token |-> Head(inFlight[e]).token, status |-> how])
  /\ inFlight' = [inFlight EXCEPT ![e] = Tail(@)]
  /\ UNCHANGED <<library, agent, client>>

DataArrives(e) ==
  /\ inFlight[e] # <<>>
  /\ attachedSink[e] # NULL
  /\ stream[attachedSink[e]] \in {"started", "stopping"}
  /\ Completes(e, "SUCCESS")
  /\ UNCHANGED <<controlMsg, stream>>

\* A cs_trace_ctl_msg: the end of a session, or some other change of status,
\* that to detached among them.
MessageArrives(s) ==
  /\ inFlight[CONTROL] # <<>>
  /\ \/ /\ stream[s] = "stopping"
        /\ stream' = [stream EXCEPT ![s] = "attached"]
        /\ controlMsg' = [status |-> "END_SESSION", sink |-> s]
     \/ /\ controlMsg' = [status |-> "OTHER", sink |-> s]
        /\ UNCHANGED stream
  /\ Completes(CONTROL, "SUCCESS")

CancelCompletes(e) ==
  /\ inFlight[e] # <<>> /\ Head(inFlight[e]).cancelled
  /\ Completes(e, "FAILED")
  /\ UNCHANGED <<controlMsg, stream>>

TransferFails(e) ==
  /\ TransfersFail
  /\ inFlight[e] # <<>>
  /\ Completes(e, "FAILED")
  /\ UNCHANGED <<controlMsg, stream>>

-----------------------------------------------------------------------------

Call(s) ==
  \/ Attach(s) \/ Start(s) \/ Stop(s) \/ Flush(s) \/ Detach(s) \/ WaitForEvent(s)
  \/ \E b \in Buffers : SubmitEventBuffer(s, b)

DetachContinues ==
  DetachJoins \/ DetachCompletes \/ DetachHandles \/ DetachDevice
    \/ DetachDiscards \/ DetachReturns

DataThread(s) ==
  DataThreadLooks(s) \/ DataThreadCompletes(s) \/ DataThreadHandles(s)

Device ==
  \/ \E e \in Endpoints : DataArrives(e)
  \/ \E s \in Sinks : MessageArrives(s)
  \/ \E e \in DOMAIN inFlight : CancelCompletes(e) \/ TransferFails(e)

Next ==
  \/ \E s \in Sinks : Call(s) \/ DataThread(s)
  \/ DetachContinues
  \/ Device

Spec == Init /\ [][Next]_vars

-----------------------------------------------------------------------------
(* Properties *)

\* waitForBuffer and its callers never take from an empty queue: whatever
\* transfer completes, a token is expected, and when it is the one expected a
\* buffer is pending.
NoEmptyQueueTaken ==
  \A a \in Agents :
    agent[a].pc = "got" /\ Got(a) # Nothing =>
      /\ dataTokens # <<>>
      /\ Expected(a) => pending[agent[a].sink] # <<>>

\* The data of a transfer is accounted to the buffer it was read into: where
\* the token completed is the one waitForBuffer expects, the buffer it was
\* called with is the one that was submitted with that token.
DataGoesToItsBuffer ==
  \A a \in Agents :
    agent[a].pc = "got" /\ Expected(a) => agent[a].buf = Got(a).token

\* No transfer is under way into a buffer that is the client's again, whatever
\* mix of Stop, Detach, failing calls and late completions returned it.
OwnedNotInFlight ==
  \A t \in InFlight : t.buf \in Buffers => holder[t.buf] # CLIENT

\* After Detach, also one that failed half way, no data thread of that sink
\* runs any more.
DetachedHasNoThread ==
  \A s \in Sinks :
    status[s] = "DETACHED" /\ agent[CLIENT].pc = "idle" => agent[s].pc \in {"idle", "exited"}

=============================================================================
