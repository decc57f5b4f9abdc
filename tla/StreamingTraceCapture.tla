----------------------- MODULE StreamingTraceCapture -----------------------
(***************************************************************************)
(* collect_trace of the streaming trace capture application, as the client *)
(* of the streaming trace library: attach, start, submit every buffer,     *)
(* resubmit what completes until the end of the data, a second Ctrl-C or   *)
(* the flush timeout, stop, wait for what is pending, detach.              *)
(***************************************************************************)
EXTENDS StreamingTrace

CONSTANT LimitedSize   \* BOOLEAN: max_capture_size was given

ASSUME CaptureAssumption ==
  /\ LimitedSize \in BOOLEAN
  /\ IsFiniteSet(Sinks) /\ Cardinality(Sinks) = 1
  /\ IsFiniteSet(DataBufs) /\ Cardinality(DataBufs) = DataBufferCount
  /\ IsFiniteSet(EventBufs)

VARIABLES
  app,             \* where collect_trace is, or "other" for another client
  toSubmit,        \* buffers of the first loop still to be submitted
  completedBuf,    \* the buffer WaitForEvent returned, to be submitted again
  pendingBuffers,  \* pendingBuffers
  exitFlag,        \* exitFlag, counting at most two signals
  captured,        \* bytesCaptured >= maxCaptureSize
  flushed,         \* flushed
  late             \* FLUSH_TIMEOUT has passed since tFlush

appVars     == <<app, toSubmit, completedBuf, pendingBuffers, exitFlag,
                 captured, flushed, late>>
libraryVars == <<library, agent, client, usb>>
captureVars == <<libraryVars, appVars>>

Sink == CHOOSE s \in Sinks : TRUE

CaptureTypeOK ==
  /\ app \in {"attach", "start", "submit", "abort", "loop", "wait", "resubmit",
              "stop", "drain", "detach", "detaching", "done", "other"}
  /\ toSubmit \subseteq Buffers
  /\ completedBuf \in Buffers \cup {NULL}
  /\ pendingBuffers \in 0 .. Cardinality(Buffers)
  /\ exitFlag \in 0 .. 2
  /\ captured \in BOOLEAN /\ flushed \in BOOLEAN /\ late \in BOOLEAN

AppInit ==
  /\ toSubmit = Buffers
  /\ completedBuf = NULL
  /\ pendingBuffers = 0
  /\ exitFlag = 0
  /\ captured = FALSE /\ flushed = FALSE /\ late = FALSE

CaptureInit == Init /\ AppInit /\ app = "attach"

Goes(pc)        == app' = pc
GoesIfOk(pc, q) == app' = IF result' = "ok" THEN pc ELSE q

AppAttach ==
  /\ app = "attach"
  /\ Attach(Sink)
  /\ GoesIfOk("start", "done")
  /\ UNCHANGED <<toSubmit, completedBuf, pendingBuffers, exitFlag, captured,
                 flushed, late>>

AppStart ==
  /\ app = "start"
  /\ Start(Sink)
  /\ GoesIfOk("submit", "detach")
  /\ UNCHANGED <<toSubmit, completedBuf, pendingBuffers, exitFlag, captured,
                 flushed, late>>

\* The data buffers first.
AppSubmit ==
  /\ app = "submit"
  /\ \E b \in toSubmit :
       /\ b \in EventBufs => toSubmit \subseteq EventBufs
       /\ SubmitEventBuffer(Sink, b)
       /\ toSubmit' = toSubmit \ {b}
  /\ GoesIfOk(IF toSubmit' = {} THEN "loop" ELSE "submit", "abort")
  /\ pendingBuffers' = IF app' = "loop" THEN Cardinality(Buffers) ELSE 0
  /\ UNCHANGED <<completedBuf, exitFlag, captured, flushed, late>>

AppAborts ==
  /\ app = "abort"
  /\ Stop(Sink)
  /\ Goes("detach")
  /\ UNCHANGED <<toSubmit, completedBuf, pendingBuffers, exitFlag, captured,
                 flushed, late>>

\* The head of the capture loop.
Leaves == exitFlag > 1 \/ (flushed /\ late)

AppLoops ==
  /\ app = "loop"
  /\ exitFlag' = IF exitFlag <= 1 /\ captured THEN 1 ELSE exitFlag
  /\ IF exitFlag <= 1 /\ exitFlag' = 1 /\ ~flushed
     THEN /\ Flush(Sink)
          /\ flushed' = TRUE
          /\ Goes("wait")
     ELSE /\ Goes(IF Leaves THEN "stop" ELSE "wait")
          /\ UNCHANGED <<flushed, libraryVars>>
  /\ UNCHANGED <<toSubmit, completedBuf, pendingBuffers, captured, late>>

\* Slip: a buffer that is submitted again is not counted.
ResubmitsUncounted ==
  /\ app = "resubmit"
  /\ SubmitEventBuffer(Sink, completedBuf)
  /\ GoesIfOk("loop", "stop")
  /\ UNCHANGED <<toSubmit, completedBuf, pendingBuffers, exitFlag, captured,
                 flushed, late>>

AppReceives ==
  /\ app = "wait"
  /\ WaitForEvent(Sink)
  /\ completedBuf' = Head(completed[Sink]).buf
  /\ pendingBuffers' = pendingBuffers - 1
  /\ Goes(IF bufType[completedBuf'] = "END_OF_DATA" THEN "stop" ELSE "resubmit")
  /\ captured' \in IF LimitedSize /\ bufType[completedBuf'] = "DATA"
                   THEN {captured, TRUE} ELSE {captured}
  /\ UNCHANGED <<toSubmit, exitFlag, flushed, late>>

AppTimesOut ==
  /\ app = "wait" /\ ClientIdle
  /\ completed[Sink] = <<>>
  /\ Goes("loop")
  /\ UNCHANGED <<libraryVars, toSubmit, completedBuf, pendingBuffers, exitFlag,
                 captured, flushed, late>>

AppResubmits ==
  /\ app = "resubmit"
  /\ SubmitEventBuffer(Sink, completedBuf)
  /\ GoesIfOk("loop", "stop")
  /\ pendingBuffers' = IF result' = "ok" THEN pendingBuffers + 1 ELSE pendingBuffers
  /\ UNCHANGED <<toSubmit, completedBuf, exitFlag, captured, flushed, late>>

AppStops ==
  /\ app = "stop"
  /\ Stop(Sink)
  /\ Goes("drain")
  /\ UNCHANGED <<toSubmit, completedBuf, pendingBuffers, exitFlag, captured,
                 flushed, late>>

\* The USB stack completes what is cancelled within the ten seconds that the
\* application waits, so the wait ends early only when nothing is under way.
NothingComes ==
  \/ agent[Sink].pc \in {"cond", "exited"}
  \/ done = <<>> /\ InFlight = {} /\ agent[Sink].pc # "got"

AppDrains ==
  /\ app = "drain"
  /\ \/ /\ pendingBuffers > 0
        /\ WaitForEvent(Sink)
        /\ pendingBuffers' = pendingBuffers - 1
        /\ Goes("drain")
     \/ /\ pendingBuffers > 0 => completed[Sink] = <<>> /\ NothingComes
        /\ Goes("detach")
        /\ UNCHANGED <<libraryVars, pendingBuffers>>
  /\ UNCHANGED <<toSubmit, completedBuf, exitFlag, captured, flushed, late>>

AppDetaches ==
  /\ app = "detach"
  /\ Detach(Sink)
  /\ Goes("detaching")
  /\ UNCHANGED <<toSubmit, completedBuf, pendingBuffers, exitFlag, captured,
                 flushed, late>>

AppEnds ==
  /\ app = "detaching" /\ ClientIdle
  /\ Goes("done")
  /\ UNCHANGED <<libraryVars, toSubmit, completedBuf, pendingBuffers, exitFlag,
                 captured, flushed, late>>

\* exit_handler, while it is installed.
Signal ==
  /\ app \notin {"attach", "done", "other"} /\ exitFlag < 2
  /\ exitFlag' = exitFlag + 1
  /\ UNCHANGED <<libraryVars, app, toSubmit, completedBuf, pendingBuffers,
                 captured, flushed, late>>

TimePasses ==
  /\ flushed /\ ~late
  /\ late' = TRUE
  /\ UNCHANGED <<libraryVars, app, toSubmit, completedBuf, pendingBuffers,
                 exitFlag, captured, flushed>>

App ==
  \/ AppAttach \/ AppStart \/ AppSubmit \/ AppAborts \/ AppLoops \/ AppReceives
  \/ AppTimesOut \/ AppResubmits \/ AppStops \/ AppDrains \/ AppDetaches \/ AppEnds

Detaching     == DetachContinues /\ UNCHANGED appVars
DataThreadOf  == DataThread(Sink) /\ UNCHANGED appVars
DeviceSteps   == Device /\ UNCHANGED appVars
Cancellations == (\E e \in DOMAIN inFlight : CancelCompletes(e)) /\ UNCHANGED appVars

CaptureNext ==
  App \/ Detaching \/ DataThreadOf \/ DeviceSteps \/ Signal \/ TimePasses

\* The threads run and the USB stack completes what it was told to cancel; the
\* device need not send anything.
CaptureFairness ==
  /\ WF_captureVars(App) /\ WF_captureVars(Detaching)
  /\ WF_captureVars(DataThreadOf) /\ WF_captureVars(Cancellations)
  /\ WF_captureVars(TimePasses)

CaptureSpec == CaptureInit /\ [][CaptureNext]_captureVars /\ CaptureFairness

-----------------------------------------------------------------------------
(* Properties *)

Held == {b \in Buffers : holder[b] = Sink}

\* A submission failed, and its buffer is in the library all the same.
Refused == \E b \in Buffers : holder[b] = NULL

\* The application's count of pending buffers is the number of buffers the
\* library holds, so that it neither waits for one that will not come nor
\* detaches with one outstanding; after a submission that failed it is no more
\* than that.
PendingIsHeld ==
  app \in {"loop", "wait", "resubmit", "stop", "drain"} =>
    /\ pendingBuffers <= Cardinality(Held)
    /\ app \in {"loop", "wait", "resubmit"} \/ ~Refused => pendingBuffers = Cardinality(Held)

\* After Stop every buffer comes back, events and cancelled transfers in
\* whatever order, unless a submission failed: one by the data thread, which
\* ends it, or one by the application.
DrainGetsAll ==
  app = "detach" /\ toSubmit = {} /\ ~Refused /\ agent[Sink].pc # "exited" => Held = {}

\* "control channel request will be cancelled by doCancelPendingBuffers()"
\* (streaming_trace_amis.cpp:285): none that detachDevice waits for was
\* submitted after the cancellation.
ControlRequestCancelled ==
  agent[CLIENT].pc = "discard" =>
    \A i \in DOMAIN inFlight[CONTROL] : inFlight[CONTROL][i].cancelled

\* However the capture loop is left, and whether or not the device ever sends
\* the end of the data, collect_trace returns once a signal asked for it; but
\* Detach waits for a control request that was not cancelled as long as the
\* device sends no message.
AwaitsMessage == ~ControlRequestCancelled /\ done = <<>>

CaptureEnds == exitFlag > 0 ~> app = "done" \/ AwaitsMessage

=============================================================================
