--------------------- MODULE StreamingTraceCaptureProofs ---------------------
(***************************************************************************)
(* Theorems about the capture application, for every number of buffers and *)
(* whatever fails: what it counts is what the library holds, and what it   *)
(* waits for it gets.                                                      *)
(***************************************************************************)
EXTENDS StreamingTraceCapture, StreamingTraceProofs

-----------------------------------------------------------------------------
(* The invariant of the counts *)

\* The application is not in Detach, or behind it.
Running == app \notin {"detaching", "done"}

\* Tokens of buffers that wait to be filled by USB, and of all in the library.
Waiting    == Range(queued[Sink]) \cup Range(pending[Sink])
Everywhere == Waiting \cup Range(eventBufs[Sink]) \cup Range(completed[Sink])

\* What the application's place in its calls says of the library.
Sequence ==
  /\ app # "other"
  /\ app # "detaching" => ClientIdle
  /\ app \in {"attach", "start"} =>
       /\ Everywhere = {} /\ toSubmit = Buffers
       /\ \A b \in Buffers : holder[b] = CLIENT
  /\ app \in {"submit", "abort", "loop", "wait", "resubmit", "stop"} => status[Sink] = "ACTIVE"
  /\ app = "drain" => status[Sink] = "ATTACHED" /\ eventBufs[Sink] = <<>>

\* Whose the buffers are, and how many the application counts.
Counts ==
  /\ app = "submit" => \A b \in Buffers : holder[b] = IF b \in toSubmit THEN CLIENT ELSE Sink
  /\ app = "abort" => Refused
  /\ app \in {"loop", "wait", "resubmit"} => ~Refused
  /\ app = "resubmit" => completedBuf \in Buffers
  /\ PendingIsHeld

\* There is one attachment, and only data buffers go to USB.
Fresh ==
  Running =>
    /\ \A t \in Everywhere : t.no = attaches[Sink]
    /\ \A t \in Waiting : t.buf \in DataBufs

CountInv == CaptureTypeOK /\ Sequence /\ Counts /\ Fresh

LEMMA TheSink ==
  /\ OneSink /\ Sink \in Sinks /\ Sink # CLIENT /\ Sink # NULL
  /\ IsFiniteSet(Buffers) /\ Cardinality(Buffers) \in Nat /\ Buffers # {}
<1>1. PICK s : Sinks = {s}
  BY CaptureAssumption, FS_Singleton
<1>2. OneSink /\ Sink \in Sinks
  BY <1>1 DEF OneSink, Sink
<1>3. Sink # CLIENT /\ Sink # NULL
  BY <1>2, TraceAssumption DEF CLIENT
<1>4. IsFiniteSet(Buffers) /\ Cardinality(Buffers) \in Nat
  BY CaptureAssumption, FS_Union, FS_CardinalityType DEF Buffers
<1>5. DataBufs # {}
  BY CaptureAssumption, TraceAssumption, FS_EmptySet
<1> QED
  BY <1>2, <1>3, <1>4, <1>5 DEF Buffers

\* Held is finite, and grows and shrinks by one.
LEMMA HeldIsFinite ==
  /\ Held \subseteq Buffers /\ IsFiniteSet(Held) /\ Cardinality(Held) \in Nat
  /\ Cardinality(Held) <= Cardinality(Buffers)
  /\ Cardinality(Held) = 0 => Held = {}
<1>1. Held \subseteq Buffers
  BY DEF Held
<1>2. IsFiniteSet(Held) /\ Cardinality(Held) <= Cardinality(Buffers)
  BY <1>1, TheSink, FS_Subset
<1> QED
  BY <1>1, <1>2, FS_CardinalityType, FS_EmptySet

LEMMA HeldGrows ==
  ASSUME NEW b \in Buffers, holder \in [Buffers -> Agents \cup {NULL}], holder[b] # Sink,
         holder' = [holder EXCEPT ![b] = Sink]
  PROVE  /\ Held' = Held \cup {b} /\ Cardinality(Held') = Cardinality(Held) + 1
         /\ Cardinality(Held') <= Cardinality(Buffers)
<1>1. Held' = Held \cup {b} /\ b \notin Held
  BY DEF Held
<1>2. Cardinality(Held \cup {b}) = Cardinality(Held) + 1
  BY <1>1, HeldIsFinite, FS_AddElement
<1>3. Held \cup {b} \subseteq Buffers
  BY HeldIsFinite
<1>4. Cardinality(Held \cup {b}) <= Cardinality(Buffers)
  BY <1>3, TheSink, FS_Subset
<1> QED
  BY <1>1, <1>2, <1>4

LEMMA HeldShrinks ==
  ASSUME NEW b \in Buffers, holder \in [Buffers -> Agents \cup {NULL}], holder[b] = Sink,
         holder' = [holder EXCEPT ![b] = CLIENT]
  PROVE  /\ Held' = Held \ {b} /\ Cardinality(Held') = Cardinality(Held) - 1
         /\ Cardinality(Held) >= 1
<1>1. Held' = Held \ {b} /\ b \in Held
  BY TheSink DEF Held
<1>2. Cardinality(Held \ {b}) = Cardinality(Held) - 1
  BY <1>1, HeldIsFinite, FS_RemoveElement
<1>3. Cardinality(Held) # 0
  BY <1>1, HeldIsFinite
<1> QED
  BY <1>1, <1>2, <1>3, HeldIsFinite

LEMMA SinkTypes ==
  ASSUME IInv
  PROVE  /\ queued \in [Sinks -> Seq(Tokens)] /\ pending \in [Sinks -> Seq(Tokens)]
         /\ eventBufs \in [Sinks -> Seq(Tokens)] /\ completed \in [Sinks -> Seq(Tokens)]
         /\ queued[Sink] \in Seq(Tokens) /\ pending[Sink] \in Seq(Tokens)
         /\ eventBufs[Sink] \in Seq(Tokens) /\ completed[Sink] \in Seq(Tokens)
         /\ holder \in [Buffers -> Agents \cup {NULL}] /\ attaches[Sink] \in Int
         /\ Everywhere \subseteq Tokens /\ \A t \in Tokens : t.buf \in Buffers /\ t.sink = Sink
         /\ \A b \in Buffers : holder[b] \in {Sink, CLIENT, NULL}
<1>1. /\ queued \in [Sinks -> Seq(Tokens)] /\ pending \in [Sinks -> Seq(Tokens)]
      /\ eventBufs \in [Sinks -> Seq(Tokens)] /\ completed \in [Sinks -> Seq(Tokens)]
      /\ holder \in [Buffers -> Agents \cup {NULL}] /\ attaches[Sink] \in Int
  <2>1. /\ queued \in [Sinks -> Seq(Tokens)] /\ pending \in [Sinks -> Seq(Tokens)]
        /\ eventBufs \in [Sinks -> Seq(Tokens)] /\ completed \in [Sinks -> Seq(Tokens)]
        /\ holder \in [Buffers -> Agents \cup {NULL}] /\ attaches \in [Sinks -> 0 .. MaxAttach]
    BY Zenon DEF IInv, TypeOK
  <2>2. attaches[Sink] \in 0 .. MaxAttach
    BY <2>1, TheSink
  <2> QED
    BY <2>1, <2>2
<1>2. /\ queued[Sink] \in Seq(Tokens) /\ pending[Sink] \in Seq(Tokens)
      /\ eventBufs[Sink] \in Seq(Tokens) /\ completed[Sink] \in Seq(Tokens)
  BY <1>1, TheSink
<1>3. Everywhere \subseteq Tokens
  BY <1>2, RangesAre DEF Everywhere, Waiting
<1>4. \A t \in Tokens : t.buf \in Buffers /\ t.sink = Sink
  BY TheSink, TokenFields DEF OneSink
<1>5. \A b \in Buffers : holder[b] \in {Sink, CLIENT, NULL}
  BY <1>1, TheSink DEF Agents, OneSink
<1> QED
  BY <1>1, <1>2, <1>3, <1>4, <1>5

\* What the data thread and the device do to the buffers: they move on to the
\* completed ones, and only behind a submission that failed can one be lost.
Drift ==
  /\ UNCHANGED <<holder, attaches, status>>
  /\ agent'[CLIENT] = agent[CLIENT]
  /\ Everywhere' \subseteq Everywhere /\ Waiting' \subseteq Waiting
  /\ eventBufs[Sink] = <<>> => eventBufs'[Sink] = <<>>
  /\ queued[Sink] = <<>> => queued'[Sink] = <<>> /\ Everywhere' = Everywhere

LEMMA NothingDrifts ==
  ASSUME UNCHANGED <<holder, attaches, status, queued, pending, eventBufs, completed>>,
         agent'[CLIENT] = agent[CLIENT]
  PROVE  Drift
BY DEF Drift, Everywhere, Waiting

\* An event buffer is completed.
LEMMA EventDrifts ==
  ASSUME IInv, HandleMessage \/ UNCHANGED <<completed, eventBufs, bufType>>,
         UNCHANGED <<holder, attaches, status, queued, pending>>,
         agent'[CLIENT] = agent[CLIENT]
  PROVE  Drift
<1>1. CASE UNCHANGED <<completed, eventBufs>>
  BY <1>1, NothingDrifts
<1>2. CASE ~UNCHANGED <<completed, eventBufs>>
  <2>1. controlMsg.sink = Sink
    BY TheSink DEF IInv, TypeOK, OneSink
  <2>2. /\ eventBufs[Sink] # <<>>
        /\ completed' = [completed EXCEPT ![Sink] = Append(@, Head(eventBufs[Sink]))]
        /\ eventBufs' = [eventBufs EXCEPT ![Sink] = Tail(@)]
    BY <1>2, <2>1 DEF HandleMessage, EndOfData
  <2> DEFINE e == eventBufs[Sink]
             c == completed[Sink]
             x == Head(e)
  <2>3. e \in Seq(Tokens) /\ c \in Seq(Tokens)
    BY SinkTypes
  <2>4. x \in Tokens /\ Range(e) = {x} \cup Range(Tail(e))
    BY <2>2, <2>3, TailDistinct
  <2>5. Range(Append(c, x)) = Range(c) \cup {x}
    <3> HIDE DEF x, c
    <3> QED
      BY <2>3, <2>4, AppendDistinct
  <2>6. completed'[Sink] = Append(c, x) /\ eventBufs'[Sink] = Tail(e)
    BY <2>2, SinkTypes, TheSink
  <2>7. Waiting' = Waiting
    BY DEF Waiting
  <2>8. Everywhere' = Everywhere
    <3>1. /\ Everywhere = Waiting \cup Range(e) \cup Range(c)
          /\ Everywhere' = Waiting' \cup Range(Tail(e)) \cup Range(Append(c, x))
      BY <2>6 DEF Everywhere
    <3> HIDE DEF e, c, x
    <3> QED
      BY <2>4, <2>5, <2>7, <3>1
  <2> QED
    BY <2>2, <2>7, <2>8 DEF Drift
<1> QED
  BY <1>1, <1>2

\* The data thread returns the first pending buffer, and submits more.
LEMMA ReturnDrifts ==
  ASSUME IInv, DataThreadReturnsBuffer(Sink), agent[Sink].pc = "got", agent[Sink].sink = Sink,
         UNCHANGED <<holder, attaches, status>>
  PROVE  Drift
<1> DEFINE q  == queued[Sink]
           p  == pending[Sink]
           c  == completed[Sink]
           x  == Head(p)
           pt == Tail(p)
<1>t. q \in Seq(Tokens) /\ p \in Seq(Tokens) /\ c \in Seq(Tokens)
  BY SinkTypes
<1>a. Sink \in Agents /\ CLIENT \in Agents /\ Sink # CLIENT
  BY TheSink DEF Agents
<1>1. p # <<>> /\ agent[Sink].buf = x
  BY <1>a, TheSink, ExpectedIs
<1>2. x \in Tokens /\ pt \in Seq(Tokens) /\ Range(p) = {x} \cup Range(pt)
  BY <1>t, <1>1, TailDistinct
<1>3. PICK n \in 0 .. (IF status[Sink] = "ACTIVE" THEN Len(q) ELSE 0) :
        /\ \/ /\ status[Sink] = "ACTIVE" => SubmitsAll(Sink, q, pt, n)
              /\ completed' = [completed EXCEPT ![Sink] = Append(@, agent[Sink].buf)]
              /\ agent' = [agent EXCEPT ![Sink] = Thread(Sink, "run")]
           \/ /\ status[Sink] = "ACTIVE" /\ SubmitThrows(Sink, q, pt, n)
              /\ agent' = [agent EXCEPT ![Sink] = Thread(Sink, "exited")]
              /\ UNCHANGED completed
        /\ Submit(Sink, q, pt, Tail(dataTokens), n)
  BY DEF DataThreadReturnsBuffer
<1>4. n \in 0 .. Len(q)
  BY <1>t, <1>3
<1> DEFINE moved == SubSeq(q, 1, n)
           rest  == SubSeq(q, n + 1, Len(q))
<1>5. /\ moved \in Seq(Tokens) /\ rest \in Seq(Tokens)
      /\ Range(moved) \subseteq Range(q) /\ Range(rest) \subseteq Range(q)
  BY <1>t, <1>4, SplitDistinct
<1>6. /\ queued' = [queued EXCEPT ![Sink] = rest]
      /\ pending' = [pending EXCEPT ![Sink] = pt \o moved]
  BY <1>3 DEF Submit
<1>7. queued'[Sink] = rest /\ pending'[Sink] = pt \o moved
  BY <1>6, SinkTypes, TheSink
<1>8. completed'[Sink] = c \/ completed'[Sink] = Append(c, x)
  BY <1>1, <1>3, SinkTypes, TheSink
<1>9. agent'[CLIENT] = agent[CLIENT] /\ eventBufs' = eventBufs
  BY <1>a, <1>3, AgentsAre DEF DataThreadReturnsBuffer, IInv
<1>10. ASSUME q = <<>>
       PROVE  /\ rest = <<>> /\ moved = <<>> /\ completed'[Sink] = Append(c, x)
  <2>1. Len(q) = 0 /\ n = 0
    BY <1>4, <1>10
  <2>2. Room(pt, q) = 0
    <3>1. Smaller(0, DataBufferCount - Len(pt)) = 0 \/ ~(Len(pt) < DataBufferCount)
      BY <1>2, TraceAssumption DEF Smaller
    <3> QED
      BY <2>1, <3>1 DEF Room
  <2>3. ~SubmitThrows(Sink, q, pt, n)
    BY <2>1, <2>2 DEF SubmitThrows
  <2>4. completed'[Sink] = Append(c, x)
    BY <1>1, <1>3, <2>3, SinkTypes, TheSink
  <2>5. rest = <<>> /\ moved = <<>>
    BY <1>10, <2>1
  <2> QED
    BY <2>4, <2>5
<1> HIDE DEF moved, rest, q, p, c, x, pt
<1>11. Range(pt \o moved) = Range(pt) \cup Range(moved)
  BY <1>2, <1>5, ConcatDistinct
<1>12. Range(Append(c, x)) = Range(c) \cup {x}
  BY <1>t, <1>2, AppendDistinct
<1>13. Waiting' \subseteq Waiting
  BY <1>2, <1>5, <1>7, <1>11 DEF Waiting, q, p
<1>14. /\ Everywhere = Waiting \cup Range(eventBufs[Sink]) \cup Range(c)
       /\ Everywhere' = Waiting' \cup Range(eventBufs[Sink]) \cup Range(completed'[Sink])
  BY <1>9 DEF Everywhere, c
<1>15. x \in Waiting
  BY <1>2 DEF Waiting, p
<1>16. Everywhere' \subseteq Everywhere
  BY <1>8, <1>12, <1>13, <1>14, <1>15
<1>17. ASSUME q = <<>>
       PROVE  Everywhere' = Everywhere
  <2>1. Range(queued'[Sink]) = {} /\ Range(moved) = {} /\ Range(q) = {}
    BY <1>7, <1>10, <1>17, EmptyQueue
  <2>2. Waiting = Range(q) \cup Range(p) /\ Waiting' = Range(queued'[Sink]) \cup Range(pending'[Sink])
    BY DEF Waiting, q, p
  <2> QED
    BY <1>2, <1>7, <1>10, <1>11, <1>12, <1>14, <1>17, <2>1, <2>2
<1>18. queued[Sink] = <<>> => queued'[Sink] = <<>> /\ Everywhere' = Everywhere
  BY <1>7, <1>10, <1>17 DEF q
<1> QED
  BY <1>9, <1>13, <1>16, <1>18 DEF Drift

\* A step of the data thread.
LEMMA ThreadDrifts ==
  ASSUME IInv, DataThread(Sink)
  PROVE  Drift
<1>a. /\ Sink \in Agents /\ CLIENT \in Agents /\ Sink # CLIENT
      /\ agent \in [Agents -> AgentStates]
  BY TheSink, AgentsAre DEF Agents, IInv
<1>1. CASE DataThreadLooks(Sink)
  BY <1>a, <1>1, NothingDrifts DEF DataThreadLooks, library, client
<1>2. CASE DataThreadCompletes(Sink)
  <2>1. agent'[CLIENT] = agent[CLIENT]
    BY <1>a, <1>2 DEF DataThreadCompletes, CompleteTransfer
  <2> QED
    BY <1>2, <2>1, NothingDrifts DEF DataThreadCompletes, library, client
<1>3. CASE DataThreadHandles(Sink)
  <2>1. /\ agent[Sink].pc = "got" /\ agent[Sink].sink = Sink
        /\ UNCHANGED <<status, holder, attaches>>
    BY <1>3, TheSink DEF DataThreadHandles, IInv, Phases
  <2>2. CASE DataThreadReturnsBuffer(Sink)
    BY <2>1, <2>2, ReturnDrifts
  <2>3. CASE /\ HandleControl(Sink, Thread(Sink, "run"), Thread(Sink, "exited"))
             /\ UNCHANGED <<queued, pending, dataTokens>>
    <3>1. /\ agent'[CLIENT] = agent[CLIENT]
          /\ HandleMessage \/ UNCHANGED <<completed, eventBufs, bufType>>
      BY <1>a, <2>3 DEF HandleControl
    <3> QED
      BY <2>1, <2>3, <3>1, EventDrifts
  <2>4. CASE /\ agent' = [agent EXCEPT ![Sink] = Thread(Sink, "run")]
             /\ UNCHANGED <<queued, pending, eventBufs, completed>>
    BY <1>a, <2>1, <2>4, NothingDrifts
  <2> QED
    BY <1>3, <2>2, <2>3, <2>4 DEF DataThreadHandles
<1> QED
  BY <1>1, <1>2, <1>3 DEF DataThread

\* A step of the device.
LEMMA DeviceDrifts ==
  ASSUME Device
  PROVE  Drift
<1>1. UNCHANGED <<library, agent, client>>
  BY DEF Device, DataArrives, MessageArrives, CancelCompletes, TransferFails, Completes
<1> QED
  BY <1>1, NothingDrifts DEF library, client

\* Such steps, and those that leave the library alone, keep the invariant.
LEMMA DriftKeeps ==
  ASSUME CountInv, Drift, exitFlag' \in 0 .. 2, late' \in BOOLEAN,
         UNCHANGED <<app, toSubmit, completedBuf, pendingBuffers, captured, flushed>>
  PROVE  CountInv'
<1>1. Held' = Held /\ Refused' = Refused /\ Running' = Running
  BY DEF Drift, Held, Refused, Running
<1>2. CaptureTypeOK'
  BY DEF CountInv, CaptureTypeOK
<1>3. Sequence'
  <2>1. ClientIdle' = ClientIdle
    BY DEF ClientIdle, Drift
  <2> QED
    BY <2>1 DEF CountInv, Sequence, Drift
<1>4. Counts'
  BY <1>1 DEF CountInv, Counts, PendingIsHeld, Drift
<1>5. Fresh'
  BY <1>1 DEF CountInv, Fresh, Drift
<1> QED
  BY <1>2, <1>3, <1>4, <1>5 DEF CountInv

LEMMA SplitRange ==
  ASSUME NEW q \in Seq(Tokens), NEW n \in 0 .. Len(q)
  PROVE  Range(q) = Range(SubSeq(q, 1, n)) \cup Range(SubSeq(q, n + 1, Len(q)))
<1> DEFINE m == Len(q)
           a == SubSeq(q, 1, n)
           b == SubSeq(q, n + 1, m)
<1>1. /\ m \in Nat /\ n \in Nat /\ n <= m /\ DOMAIN q = 1 .. m
      /\ DOMAIN a = 1 .. n /\ \A i \in 1 .. n : a[i] = q[i]
      /\ DOMAIN b = 1 .. (m - n) /\ \A i \in 1 .. (m - n) : b[i] = q[n + i]
  OBVIOUS
<1>2. Range(a) \subseteq Range(q) /\ Range(b) \subseteq Range(q)
  BY SplitDistinct
<1> HIDE DEF a, b, m
<1>3. Range(q) \subseteq Range(a) \cup Range(b)
  <2> SUFFICES ASSUME NEW i \in 1 .. m PROVE q[i] \in Range(a) \cup Range(b)
    BY <1>1 DEF Range
  <2>1. CASE i <= n
    <3>1. i \in 1 .. n
      BY <1>1, <2>1
    <3> QED
      BY <1>1, <3>1 DEF Range
  <2>2. CASE i > n
    <3>1. PICK j \in 1 .. (m - n) : n + j = i
      <4>1. i - n \in 1 .. (m - n) /\ n + (i - n) = i
        BY <1>1, <2>2
      <4> QED
        BY <4>1
    <3>2. b[j] = q[i]
      BY <1>1, <3>1
    <3> QED
      BY <1>1, <3>2 DEF Range
  <2> QED
    BY <1>1, <2>1, <2>2
<1> QED
  BY <1>2, <1>3 DEF a, b, m

\* SubmitEventBuffer while the sink is active.
LEMMA SubmitsBuffer ==
  ASSUME IInv, NEW b \in Buffers, status[Sink] = "ACTIVE", SubmitEventBuffer(Sink, b)
  PROVE  /\ holder[b] = CLIENT
         /\ \/ result' = "ok" /\ holder' = [holder EXCEPT ![b] = Sink]
            \/ result' = "error" /\ holder' = [holder EXCEPT ![b] = NULL]
         /\ agent'[CLIENT] = agent[CLIENT] /\ UNCHANGED <<attaches, status>>
         /\ TokenOf(Sink, b) \in Tokens
         /\ Everywhere' = Everywhere \cup {TokenOf(Sink, b)}
         /\ Waiting' \subseteq Waiting \cup IF b \in DataBufs THEN {TokenOf(Sink, b)} ELSE {}
<1> DEFINE t == TokenOf(Sink, b)
<1>t. /\ queued[Sink] \in Seq(Tokens) /\ pending[Sink] \in Seq(Tokens)
      /\ eventBufs[Sink] \in Seq(Tokens)
  BY SinkTypes
<1>a. /\ Sink \in Agents /\ CLIENT \in Agents /\ Sink # CLIENT
      /\ agent \in [Agents -> AgentStates]
  BY TheSink, AgentsAre DEF Agents, IInv
<1>1. t \in Tokens
  BY TheSink DEF TokenOf, Tokens, IInv, TypeOK
<1>2. holder[b] = CLIENT /\ UNCHANGED <<status, completed, attaches>>
  BY DEF SubmitEventBuffer
<1>3. CASE SubmitEvent(Sink, b) /\ b \in EventBufs /\ UNCHANGED <<queued, pending, agent>>
  <2>1. /\ eventBufs' = [eventBufs EXCEPT ![Sink] = Append(eventBufs[Sink], t)]
        /\ holder' = [holder EXCEPT ![b] = Sink] /\ result' = "ok"
    BY <1>3 DEF SubmitEvent, Returns
  <2>2. eventBufs'[Sink] = Append(eventBufs[Sink], t)
    BY <2>1, TheSink, SinkTypes
  <2> HIDE DEF t
  <2>3. Range(eventBufs'[Sink]) = Range(eventBufs[Sink]) \cup {t}
    BY <1>t, <1>1, <2>2, AppendDistinct
  <2>4. Waiting' = Waiting /\ Everywhere' = Everywhere \cup {t}
    BY <1>2, <1>3, <2>3 DEF Waiting, Everywhere
  <2> QED
    BY <1>1, <1>2, <1>3, <2>1, <2>4 DEF t
<1>4. CASE SubmitData(Sink, b) /\ b \in DataBufs /\ UNCHANGED eventBufs
  <2> DEFINE q == Append(queued[Sink], t)
             p == pending[Sink]
  <2>1. PICK n \in 0 .. Len(q) :
          /\ \/ /\ holder' = [holder EXCEPT ![b] = Sink]
                /\ Returns
             \/ /\ holder' = [holder EXCEPT ![b] = NULL]
                /\ Fails
          /\ Submit(Sink, q, p, dataTokens, n)
          /\ agent' = Notified(Sink, n)
    BY <1>4 DEF SubmitData
  <2> DEFINE moved == SubSeq(q, 1, n)
             rest  == SubSeq(q, n + 1, Len(q))
  <2>2. q \in Seq(Tokens) /\ Range(q) = Range(queued[Sink]) \cup {t}
    <3> HIDE DEF t
    <3> QED
      BY <1>t, <1>1, AppendDistinct
  <2>3. queued'[Sink] = rest /\ pending'[Sink] = p \o moved
    BY <2>1, TheSink, SinkTypes DEF Submit
  <2>4. agent'[CLIENT] = agent[CLIENT]
    BY <1>a, <2>1 DEF Notified
  <2> HIDE DEF q
  <2>5. /\ moved \in Seq(Tokens) /\ rest \in Seq(Tokens)
        /\ Range(q) = Range(moved) \cup Range(rest)
    BY <2>1, <2>2, SplitDistinct, SplitRange
  <2> HIDE DEF moved, rest, p, t
  <2>6. Range(pending'[Sink]) = Range(p) \cup Range(moved)
    BY <1>t, <2>3, <2>5, ConcatDistinct DEF p
  <2>7. Waiting' = Waiting \cup {t}
    BY <2>2, <2>3, <2>5, <2>6 DEF Waiting, p
  <2>8. Everywhere' = Everywhere \cup {t}
    BY <1>2, <1>4, <2>7 DEF Everywhere
  <2> QED
    BY <1>1, <1>2, <1>4, <2>1, <2>4, <2>7, <2>8 DEF Returns, Fails, t
<1> QED
  BY <1>3, <1>4 DEF SubmitEventBuffer

\* WaitForEvent, of a token of this attachment.
LEMMA TakesEvent ==
  ASSUME IInv, WaitForEvent(Sink), status[Sink] # "DETACHED",
         \A t \in Everywhere : t.no = attaches[Sink]
  PROVE  LET t == Head(completed[Sink])
         IN  /\ t \in Tokens /\ t \in Everywhere
             /\ \/ holder[t.buf] = Sink /\ holder' = [holder EXCEPT ![t.buf] = CLIENT]
                \/ holder[t.buf] = NULL /\ holder' = holder
             /\ agent' = agent /\ UNCHANGED <<attaches, status, bufType>>
             /\ Waiting' = Waiting /\ queued' = queued /\ eventBufs' = eventBufs
             /\ Everywhere' \cup {t} = Everywhere
<1> DEFINE c == completed[Sink]
           t == Head(c)
<1>1. /\ c # <<>> /\ completed' = [completed EXCEPT ![Sink] = Tail(c)]
      /\ holder' = [holder EXCEPT ![t.buf] =
                      IF t = TokenOf(Sink, t.buf) /\ @ = Sink THEN CLIENT ELSE @]
      /\ UNCHANGED <<status, queued, pending, eventBufs, agent, bufType, attaches>>
  BY DEF WaitForEvent
<1>2. c \in Seq(Tokens)
  BY SinkTypes
<1>3. t \in Tokens /\ Range(c) = {t} \cup Range(Tail(c))
  BY <1>1, <1>2, TailDistinct
<1>4. completed'[Sink] = Tail(c)
  BY <1>1, SinkTypes, TheSink
<1> HIDE DEF c
<1>5. t \in Range(c) /\ t \in Everywhere
  BY <1>3 DEF Everywhere, c
<1>6. t.no = attaches[Sink] /\ t.buf \in Buffers /\ t.sink = Sink
  BY <1>3, <1>5, SinkTypes
<1>7. t = TokenOf(Sink, t.buf)
  <2>1. \A u, v \in Tokens : u.buf = v.buf /\ u.sink = v.sink /\ u.no = v.no => u = v
    BY DEF Tokens
  <2>2. TokenOf(Sink, t.buf) \in Tokens
    BY <1>6, TheSink DEF TokenOf, Tokens, IInv, TypeOK
  <2> QED
    BY <1>3, <1>6, <2>1, <2>2 DEF TokenOf
<1>8. holder[t.buf] # CLIENT
  BY <1>5, <1>6, TheSink DEF IInv, Places, Placed, NotClients, c
<1> HIDE DEF t
<1>9. holder' = [holder EXCEPT ![t.buf] = IF holder[t.buf] = Sink THEN CLIENT ELSE holder[t.buf]]
  BY <1>1, <1>7
<1>10. \/ holder[t.buf] = Sink /\ holder' = [holder EXCEPT ![t.buf] = CLIENT]
       \/ holder[t.buf] = NULL /\ holder' = holder
  <2>1. CASE holder[t.buf] = Sink
    BY <1>9, <2>1
  <2>2. CASE holder[t.buf] = NULL
    BY <1>9, <2>2, SinkTypes, TheSink
  <2> QED
    BY <1>6, <1>8, <2>1, <2>2, SinkTypes
<1>11. Waiting' = Waiting
  BY <1>1 DEF Waiting
<1>12. Everywhere' \cup {t} = Everywhere
  <2>1. /\ Everywhere = Waiting \cup Range(eventBufs[Sink]) \cup Range(c)
        /\ Everywhere' = Waiting' \cup Range(eventBufs[Sink]) \cup Range(Tail(c))
    BY <1>1, <1>4 DEF Everywhere, c
  <2> QED
    BY <1>3, <1>11, <2>1 DEF t
<1> QED
  BY <1>1, <1>3, <1>5, <1>10, <1>11, <1>12 DEF t, c

\* Start, with nothing in the queues but what was there.
LEMMA StartsSink ==
  ASSUME IInv, Start(Sink)
  PROVE  /\ status'[Sink] = "ACTIVE" /\ UNCHANGED <<holder, attaches>>
         /\ agent'[CLIENT] = agent[CLIENT]
         /\ Waiting' = Waiting /\ Everywhere' = Everywhere
<1> DEFINE q == queued[Sink]
           p == pending[Sink]
<1>t. q \in Seq(Tokens) /\ p \in Seq(Tokens)
  BY SinkTypes
<1>1. PICK n \in 0 .. Len(q) :
        Submit(Sink, q, p, dataTokens, n) /\ agent' = Notified(Sink, n)
  BY DEF Start
<1>2. UNCHANGED <<eventBufs, completed, holder, attaches>> /\ status'[Sink] = "ACTIVE"
  BY TheSink DEF Start, IInv, TypeOK
<1>3. agent'[CLIENT] = agent[CLIENT]
  BY <1>1, TheSink, AgentsAre DEF Notified, IInv
<1> DEFINE moved == SubSeq(q, 1, n)
           rest  == SubSeq(q, n + 1, Len(q))
<1>4. queued'[Sink] = rest /\ pending'[Sink] = p \o moved
  BY <1>1, TheSink, SinkTypes DEF Submit
<1>5. moved \in Seq(Tokens) /\ Range(q) = Range(moved) \cup Range(rest)
  BY <1>t, <1>1, SplitDistinct, SplitRange
<1> HIDE DEF moved, rest, p, q
<1>6. Range(pending'[Sink]) = Range(p) \cup Range(moved)
  BY <1>t, <1>4, <1>5, ConcatDistinct
<1>7. Waiting' = Waiting
  BY <1>4, <1>5, <1>6 DEF Waiting, p, q
<1> QED
  BY <1>2, <1>3, <1>7 DEF Everywhere

\* Stop, which completes the event buffers.
LEMMA StopsSink ==
  ASSUME IInv, Stop(Sink)
  PROVE  /\ status'[Sink] = "ATTACHED" /\ UNCHANGED <<holder, attaches, queued, pending>>
         /\ agent' = agent /\ eventBufs'[Sink] = <<>>
         /\ Waiting' = Waiting /\ Everywhere' = Everywhere
<1> DEFINE e == eventBufs[Sink]
           c == completed[Sink]
<1>t. e \in Seq(Tokens) /\ c \in Seq(Tokens)
  BY SinkTypes
<1>1. /\ UNCHANGED <<queued, pending, holder, attaches, agent>> /\ status'[Sink] = "ATTACHED"
      /\ completed'[Sink] = c \o e /\ eventBufs'[Sink] = <<>>
  BY TheSink, SinkTypes DEF Stop, IInv, TypeOK
<1>2. Range(completed'[Sink]) = Range(c) \cup Range(e) /\ Range(eventBufs'[Sink]) = {}
  BY <1>t, <1>1, ConcatDistinct, EmptyQueue
<1>3. Waiting' = Waiting
  BY <1>1 DEF Waiting
<1>4. /\ Everywhere = Waiting \cup Range(e) \cup Range(c)
      /\ Everywhere' = Waiting' \cup Range(eventBufs'[Sink]) \cup Range(completed'[Sink])
  BY DEF Everywhere
<1> QED
  BY <1>1, <1>2, <1>3, <1>4

-----------------------------------------------------------------------------
(* The steps of the application keep the counts *)

\* A step that returns no buffer and submits none.
LEMMA SameBuffers ==
  ASSUME CountInv, Running, UNCHANGED <<holder, attaches>>,
         Everywhere' \subseteq Everywhere, Waiting' \subseteq Waiting
  PROVE  Held' = Held /\ Refused' = Refused /\ Fresh'
BY DEF CountInv, Held, Refused, Fresh

LEMMA AppAttachCounts ==
  ASSUME IInv, CountInv, AppAttach
  PROVE  CountInv'
<1>1. /\ app = "attach" /\ app' \in {"start", "done"}
      /\ UNCHANGED <<toSubmit, completedBuf, pendingBuffers, exitFlag, captured, flushed, late>>
  BY DEF AppAttach, GoesIfOk
<1>2. UNCHANGED <<queued, pending, eventBufs, completed, holder>>
  BY DEF AppAttach, Attach
<1>3. agent'[CLIENT] = agent[CLIENT]
  BY TheSink, AgentsAre DEF AppAttach, Attach, AttachSucceeds, AttachFails, IInv
<1>4. Everywhere' = Everywhere /\ Waiting' = Waiting
  BY <1>2 DEF Everywhere, Waiting
<1>5. Everywhere = {} /\ Waiting = {}
  BY <1>1 DEF CountInv, Sequence, Everywhere
<1>6. CaptureTypeOK'
  BY <1>1 DEF CountInv, CaptureTypeOK
<1>7. Sequence'
  BY <1>1, <1>2, <1>3, <1>4 DEF CountInv, Sequence, ClientIdle
<1>8. Counts' /\ Fresh'
  BY <1>1, <1>4, <1>5 DEF Counts, PendingIsHeld, Fresh
<1> QED
  BY <1>6, <1>7, <1>8 DEF CountInv

LEMMA AppStartCounts ==
  ASSUME IInv, CountInv, AppStart
  PROVE  CountInv'
<1>1. /\ app = "start" /\ app' \in {"submit", "detach"}
      /\ UNCHANGED <<toSubmit, completedBuf, pendingBuffers, exitFlag, captured, flushed, late>>
  BY DEF AppStart, GoesIfOk
<1>2. /\ status'[Sink] = "ACTIVE" /\ UNCHANGED <<holder, attaches>>
      /\ agent'[CLIENT] = agent[CLIENT] /\ Waiting' = Waiting /\ Everywhere' = Everywhere
  BY StartsSink DEF AppStart
<1>3. Fresh'
  BY <1>1, <1>2, SameBuffers DEF Running
<1>4. CaptureTypeOK'
  BY <1>1 DEF CountInv, CaptureTypeOK
<1>5. Sequence'
  BY <1>1, <1>2 DEF CountInv, Sequence, ClientIdle
<1>6. Counts'
  <2>1. \A b \in Buffers : b \in toSubmit /\ holder[b] = CLIENT
    BY <1>1 DEF CountInv, Sequence
  <2> QED
    BY <1>1, <1>2, <2>1 DEF Counts, PendingIsHeld
<1> QED
  BY <1>3, <1>4, <1>5, <1>6 DEF CountInv

LEMMA AppSubmitCounts ==
  ASSUME IInv, CountInv, AppSubmit
  PROVE  CountInv'
<1>1. PICK b \in toSubmit : SubmitEventBuffer(Sink, b) /\ toSubmit' = toSubmit \ {b}
  BY DEF AppSubmit
<1>2. /\ app = "submit" /\ status[Sink] = "ACTIVE" /\ b \in Buffers /\ toSubmit \subseteq Buffers
      /\ UNCHANGED <<completedBuf, exitFlag, captured, flushed, late>>
      /\ app' = IF result' = "ok" THEN IF toSubmit' = {} THEN "loop" ELSE "submit" ELSE "abort"
      /\ pendingBuffers' = IF app' = "loop" THEN Cardinality(Buffers) ELSE 0
      /\ ClientIdle
  BY <1>1 DEF AppSubmit, GoesIfOk, CountInv, CaptureTypeOK, Sequence
<1>3. /\ \/ result' = "ok" /\ holder' = [holder EXCEPT ![b] = Sink]
         \/ result' = "error" /\ holder' = [holder EXCEPT ![b] = NULL]
      /\ agent'[CLIENT] = agent[CLIENT] /\ UNCHANGED <<attaches, status>>
      /\ TokenOf(Sink, b) \in Tokens
      /\ Everywhere' = Everywhere \cup {TokenOf(Sink, b)}
      /\ Waiting' \subseteq Waiting \cup IF b \in DataBufs THEN {TokenOf(Sink, b)} ELSE {}
  BY <1>1, <1>2, SubmitsBuffer
<1>4. app' \in {"submit", "loop", "abort"}
  BY <1>2
<1>5. CaptureTypeOK'
  BY <1>1, <1>2, <1>4, TheSink DEF CountInv, CaptureTypeOK
<1>6. Sequence'
  BY <1>2, <1>3, <1>4 DEF CountInv, Sequence, ClientIdle
<1>7. Fresh'
  <2>1. TokenOf(Sink, b).no = attaches[Sink] /\ TokenOf(Sink, b).buf = b
    BY DEF TokenOf
  <2> QED
    BY <1>2, <1>3, <2>1 DEF CountInv, Fresh, Running
<1>8. \A c \in Buffers : holder[c] = IF c \in toSubmit THEN CLIENT ELSE Sink
  BY <1>2 DEF CountInv, Counts
<1>9. CASE result' = "ok"
  <2>1. holder' = [holder EXCEPT ![b] = Sink]
    BY <1>3, <1>9
  <2>2. \A c \in Buffers : holder'[c] = IF c \in toSubmit' THEN CLIENT ELSE Sink
    BY <1>1, <1>2, <1>8, <2>1, SinkTypes
  <2>3. CASE toSubmit' = {}
    <3>1. app' = "loop" /\ pendingBuffers' = Cardinality(Buffers)
      BY <1>2, <1>9, <2>3
    <3>2. Held' = Buffers /\ ~Refused'
      BY <2>2, <2>3, TheSink DEF Held, Refused
    <3> QED
      BY <1>5, <1>6, <1>7, <3>1, <3>2, TheSink DEF CountInv, Counts, PendingIsHeld
  <2>4. CASE toSubmit' # {}
    <3>1. app' = "submit"
      BY <1>2, <1>9, <2>4
    <3> QED
      BY <1>5, <1>6, <1>7, <2>2, <3>1 DEF CountInv, Counts, PendingIsHeld
  <2> QED
    BY <2>3, <2>4
<1>10. CASE result' = "error"
  <2>1. app' = "abort" /\ holder' = [holder EXCEPT ![b] = NULL]
    BY <1>2, <1>3, <1>10
  <2>2. Refused'
    BY <1>2, <2>1, SinkTypes DEF Refused
  <2> QED
    BY <1>5, <1>6, <1>7, <2>1, <2>2 DEF CountInv, Counts, PendingIsHeld
<1> QED
  BY <1>3, <1>9, <1>10

LEMMA AppStopsCounts ==
  ASSUME IInv, CountInv, AppStops \/ AppAborts
  PROVE  CountInv'
<1>1. /\ (app = "stop" /\ app' = "drain") \/ (app = "abort" /\ app' = "detach")
      /\ UNCHANGED <<toSubmit, completedBuf, pendingBuffers, exitFlag, captured, flushed, late>>
      /\ Stop(Sink)
  BY DEF AppStops, AppAborts, Goes
<1>2. /\ status'[Sink] = "ATTACHED" /\ UNCHANGED <<holder, attaches>>
      /\ agent' = agent /\ eventBufs'[Sink] = <<>>
      /\ Waiting' = Waiting /\ Everywhere' = Everywhere
  BY <1>1, StopsSink
<1>3. Fresh' /\ Held' = Held /\ Refused' = Refused
  BY <1>1, <1>2, SameBuffers DEF Running
<1>4. CaptureTypeOK'
  BY <1>1 DEF CountInv, CaptureTypeOK
<1>5. Sequence'
  BY <1>1, <1>2 DEF CountInv, Sequence, ClientIdle
<1>6. Counts'
  BY <1>1, <1>3 DEF CountInv, Counts, PendingIsHeld
<1> QED
  BY <1>3, <1>4, <1>5, <1>6 DEF CountInv

LEMMA AppLoopsCounts ==
  ASSUME IInv, CountInv, AppLoops
  PROVE  CountInv'
<1>1. /\ app = "loop" /\ app' \in {"wait", "stop"}
      /\ UNCHANGED <<toSubmit, completedBuf, pendingBuffers, captured, late>>
      /\ exitFlag' \in {exitFlag, 1} /\ flushed' \in {flushed, TRUE}
      /\ Flush(Sink) \/ UNCHANGED libraryVars
  BY DEF AppLoops, Goes
<1>2. UNCHANGED <<holder, attaches, status, queued, pending, eventBufs, completed, agent>>
  BY <1>1 DEF Flush, libraryVars, library, client
<1>3. Waiting' = Waiting /\ Everywhere' = Everywhere
  BY <1>2 DEF Waiting, Everywhere
<1>4. Fresh' /\ Held' = Held /\ Refused' = Refused
  BY <1>1, <1>2, <1>3, SameBuffers DEF Running
<1>5. CaptureTypeOK'
  <2>1. exitFlag' \in 0 .. 2
    BY <1>1 DEF CountInv, CaptureTypeOK
  <2>2. flushed' \in BOOLEAN
    BY <1>1 DEF CountInv, CaptureTypeOK
  <2> QED
    BY <1>1, <2>1, <2>2 DEF CountInv, CaptureTypeOK
<1>6. Sequence'
  BY <1>1, <1>2 DEF CountInv, Sequence, ClientIdle
<1>7. Counts'
  BY <1>1, <1>4 DEF CountInv, Counts, PendingIsHeld
<1> QED
  BY <1>4, <1>5, <1>6, <1>7 DEF CountInv

LEMMA AppTimesOutCounts ==
  ASSUME IInv, CountInv, AppTimesOut
  PROVE  CountInv'
<1>1. /\ app = "wait" /\ app' = "loop"
      /\ UNCHANGED <<toSubmit, completedBuf, pendingBuffers, exitFlag, captured, flushed, late>>
      /\ UNCHANGED <<holder, attaches, status, queued, pending, eventBufs, completed, agent>>
  BY DEF AppTimesOut, Goes, libraryVars, library, client
<1>2. Waiting' = Waiting /\ Everywhere' = Everywhere
  BY <1>1 DEF Waiting, Everywhere
<1>3. Fresh' /\ Held' = Held /\ Refused' = Refused
  BY <1>1, <1>2, SameBuffers DEF Running
<1>4. CaptureTypeOK'
  BY <1>1 DEF CountInv, CaptureTypeOK
<1>5. Sequence'
  BY <1>1 DEF CountInv, Sequence, ClientIdle
<1>6. Counts'
  BY <1>1, <1>3 DEF CountInv, Counts, PendingIsHeld
<1> QED
  BY <1>3, <1>4, <1>5, <1>6 DEF CountInv

\* What WaitForEvent returns is one buffer less in the library, unless it is the
\* one that was refused.
LEMMA OneReturned ==
  ASSUME IInv, CountInv, app \in {"wait", "drain"}, WaitForEvent(Sink)
  PROVE  /\ \/ /\ Cardinality(Held') = Cardinality(Held) - 1 /\ Cardinality(Held) >= 1
               /\ \A b \in Buffers : holder[b] = NULL <=> holder'[b] = NULL
            \/ Held' = Held /\ Refused /\ holder' = holder
         /\ Refused' = Refused /\ Fresh'
         /\ Head(completed[Sink]).buf \in Buffers
         /\ agent' = agent /\ UNCHANGED status /\ eventBufs' = eventBufs
         /\ ~Refused => holder'[Head(completed[Sink]).buf] = CLIENT
<1>1. PICK t : t = Head(completed[Sink])
  OBVIOUS
<1>2. status[Sink] # "DETACHED" /\ Running
  BY DEF CountInv, Sequence, Running
<1>3. \A u \in Everywhere : u.no = attaches[Sink]
  BY <1>2 DEF CountInv, Fresh
<1>4. /\ t \in Tokens /\ t \in Everywhere
      /\ \/ holder[t.buf] = Sink /\ holder' = [holder EXCEPT ![t.buf] = CLIENT]
         \/ holder[t.buf] = NULL /\ holder' = holder
      /\ agent' = agent /\ UNCHANGED <<attaches, status>>
      /\ Waiting' = Waiting /\ eventBufs' = eventBufs
      /\ Everywhere' \cup {t} = Everywhere
  BY <1>1, <1>2, <1>3, TakesEvent
<1>5. t.buf \in Buffers
  BY <1>4, SinkTypes
<1>6. Fresh'
  BY <1>2, <1>4 DEF CountInv, Fresh
<1>7. CASE holder[t.buf] = Sink /\ holder' = [holder EXCEPT ![t.buf] = CLIENT]
  <2>1. Cardinality(Held') = Cardinality(Held) - 1 /\ Cardinality(Held) >= 1
    BY <1>5, <1>7, HeldShrinks, SinkTypes
  <2>2. \A b \in Buffers : holder[b] = NULL <=> holder'[b] = NULL
    BY <1>5, <1>7, SinkTypes, TheSink, AgentsAre
  <2>3. Refused' = Refused
    BY <2>2 DEF Refused
  <2>4. holder'[t.buf] = CLIENT
    BY <1>5, <1>7, SinkTypes
  <2> QED
    BY <1>1, <1>4, <1>5, <1>6, <2>1, <2>2, <2>3, <2>4
<1>8. CASE holder[t.buf] = NULL /\ holder' = holder
  <2>1. Refused /\ Refused' = Refused /\ Held' = Held
    BY <1>5, <1>8 DEF Refused, Held
  <2> QED
    BY <1>1, <1>4, <1>5, <1>6, <1>8, <2>1
<1> QED
  BY <1>4, <1>7, <1>8

LEMMA AppReceivesCounts ==
  ASSUME IInv, CountInv, AppReceives
  PROVE  CountInv'
<1>1. /\ app = "wait" /\ app' \in {"stop", "resubmit"} /\ WaitForEvent(Sink)
      /\ UNCHANGED <<toSubmit, exitFlag, flushed, late>>
      /\ completedBuf' = Head(completed[Sink]).buf
      /\ pendingBuffers' = pendingBuffers - 1
      /\ captured' \in {captured, TRUE}
  BY DEF AppReceives, Goes
<1>2. ~Refused /\ pendingBuffers = Cardinality(Held)
  BY <1>1 DEF CountInv, Counts, PendingIsHeld
<1>3. /\ Cardinality(Held') = Cardinality(Held) - 1 /\ Cardinality(Held) >= 1
      /\ ~Refused' /\ Fresh' /\ completedBuf' \in Buffers
      /\ agent' = agent /\ UNCHANGED status
  BY <1>1, <1>2, OneReturned
<1>4. pendingBuffers' = Cardinality(Held') /\ pendingBuffers' \in 0 .. Cardinality(Buffers)
  BY <1>1, <1>2, <1>3, HeldIsFinite, TheSink
<1>5. CaptureTypeOK'
  BY <1>1, <1>3, <1>4 DEF CountInv, CaptureTypeOK
<1>6. Sequence'
  BY <1>1, <1>3 DEF CountInv, Sequence, ClientIdle
<1>7. Cardinality(Held') \in Int
  BY <1>3, HeldIsFinite
<1>8. Counts'
  BY <1>1, <1>3, <1>4, <1>7 DEF Counts, PendingIsHeld
<1> QED
  BY <1>3, <1>5, <1>6, <1>8 DEF CountInv

LEMMA AppResubmitsCounts ==
  ASSUME IInv, CountInv, AppResubmits
  PROVE  CountInv'
<1>1. /\ app = "resubmit" /\ completedBuf \in Buffers /\ SubmitEventBuffer(Sink, completedBuf)
      /\ status[Sink] = "ACTIVE" /\ ~Refused /\ pendingBuffers = Cardinality(Held)
      /\ app' = IF result' = "ok" THEN "loop" ELSE "stop"
      /\ pendingBuffers' = IF result' = "ok" THEN pendingBuffers + 1 ELSE pendingBuffers
      /\ UNCHANGED <<toSubmit, completedBuf, exitFlag, captured, flushed, late>>
  BY DEF AppResubmits, GoesIfOk, CountInv, Sequence, Counts, PendingIsHeld
<1>2. PICK b \in Buffers : b = completedBuf
  BY <1>1
<1>3. /\ holder[b] = CLIENT
      /\ \/ result' = "ok" /\ holder' = [holder EXCEPT ![b] = Sink]
         \/ result' = "error" /\ holder' = [holder EXCEPT ![b] = NULL]
      /\ agent'[CLIENT] = agent[CLIENT] /\ UNCHANGED <<attaches, status>>
      /\ TokenOf(Sink, b) \in Tokens
      /\ Everywhere' = Everywhere \cup {TokenOf(Sink, b)}
      /\ Waiting' \subseteq Waiting \cup IF b \in DataBufs THEN {TokenOf(Sink, b)} ELSE {}
  BY <1>1, <1>2, SubmitsBuffer
<1>4. Fresh'
  <2>1. TokenOf(Sink, b).no = attaches[Sink] /\ TokenOf(Sink, b).buf = b
    BY DEF TokenOf
  <2> QED
    BY <1>1, <1>3, <2>1 DEF CountInv, Fresh, Running
<1>5. app' \in {"loop", "stop"}
  BY <1>1
<1>6. Sequence'
  BY <1>1, <1>3, <1>5 DEF CountInv, Sequence, ClientIdle
<1>7. CASE result' = "ok" /\ holder' = [holder EXCEPT ![b] = Sink]
  <2>1. /\ Cardinality(Held') = Cardinality(Held) + 1
        /\ Cardinality(Held') <= Cardinality(Buffers)
    BY <1>3, <1>7, HeldGrows, SinkTypes, TheSink
  <2>2. ~Refused'
    BY <1>1, <1>7, SinkTypes, TheSink DEF Refused
  <2>3. /\ app' = "loop" /\ pendingBuffers' = Cardinality(Held')
        /\ pendingBuffers' \in 0 .. Cardinality(Buffers) /\ Cardinality(Held') \in Int
    BY <1>1, <1>7, <2>1, HeldIsFinite, TheSink
  <2>4. CaptureTypeOK'
    BY <1>1, <2>3 DEF CountInv, CaptureTypeOK
  <2>5. Counts'
    BY <2>2, <2>3 DEF Counts, PendingIsHeld
  <2> QED
    BY <1>4, <1>6, <2>4, <2>5 DEF CountInv
<1>8. CASE result' = "error" /\ holder' = [holder EXCEPT ![b] = NULL]
  <2>1. Held' = Held
    BY <1>3, <1>8, SinkTypes, TheSink DEF Held
  <2>2. Refused'
    BY <1>8, SinkTypes DEF Refused
  <2>3. app' = "stop" /\ pendingBuffers' = Cardinality(Held') /\ pendingBuffers' = pendingBuffers
    BY <1>1, <1>8, <2>1
  <2>4. CaptureTypeOK'
    BY <1>1, <2>3 DEF CountInv, CaptureTypeOK
  <2>5. Cardinality(Held') \in Int
    BY <2>1, HeldIsFinite
  <2>6. Counts'
    BY <2>2, <2>3, <2>5 DEF Counts, PendingIsHeld
  <2> QED
    BY <1>4, <1>6, <2>4, <2>6 DEF CountInv
<1> QED
  BY <1>3, <1>7, <1>8

LEMMA AppDrainsCounts ==
  ASSUME IInv, CountInv, AppDrains
  PROVE  CountInv'
<1>1. /\ app = "drain"
      /\ UNCHANGED <<toSubmit, completedBuf, exitFlag, captured, flushed, late>>
      /\ pendingBuffers <= Cardinality(Held)
      /\ ~Refused => pendingBuffers = Cardinality(Held)
      /\ pendingBuffers \in 0 .. Cardinality(Buffers)
  BY DEF AppDrains, CountInv, Counts, PendingIsHeld, CaptureTypeOK
<1>2. CASE /\ pendingBuffers > 0 /\ WaitForEvent(Sink)
           /\ pendingBuffers' = pendingBuffers - 1 /\ app' = "drain"
  <2>1. /\ \/ Cardinality(Held') = Cardinality(Held) - 1 \/ (Held' = Held /\ Refused)
        /\ Refused' = Refused /\ Fresh'
        /\ agent' = agent /\ UNCHANGED status /\ eventBufs' = eventBufs
    BY <1>1, <1>2, OneReturned
  <2>2. /\ pendingBuffers' <= Cardinality(Held')
        /\ ~Refused => pendingBuffers' = Cardinality(Held')
        /\ pendingBuffers' \in 0 .. Cardinality(Buffers)
    BY <1>1, <1>2, <2>1, HeldIsFinite, TheSink
  <2>3. CaptureTypeOK'
    BY <1>1, <1>2, <2>2 DEF CountInv, CaptureTypeOK
  <2>4. Sequence'
    BY <1>1, <1>2, <2>1 DEF CountInv, Sequence, ClientIdle
  <2>5. Counts'
    BY <1>2, <2>1, <2>2 DEF Counts, PendingIsHeld
  <2> QED
    BY <2>1, <2>3, <2>4, <2>5 DEF CountInv
<1>3. CASE app' = "detach" /\ UNCHANGED <<libraryVars, pendingBuffers>>
  <2>1. /\ UNCHANGED <<holder, attaches, status, queued, pending, eventBufs, completed, agent>>
    BY <1>3 DEF libraryVars, library, client
  <2>2. Waiting' = Waiting /\ Everywhere' = Everywhere
    BY <2>1 DEF Waiting, Everywhere
  <2>3. Fresh'
    BY <1>1, <2>1, <2>2, SameBuffers DEF Running
  <2>4. CaptureTypeOK'
    BY <1>1, <1>3 DEF CountInv, CaptureTypeOK
  <2>5. Sequence'
    BY <1>1, <1>3, <2>1 DEF CountInv, Sequence, ClientIdle
  <2>6. Counts'
    BY <1>3 DEF Counts, PendingIsHeld
  <2> QED
    BY <2>3, <2>4, <2>5, <2>6 DEF CountInv
<1> QED
  BY <1>2, <1>3 DEF AppDrains, Goes

\* Detach, and what comes behind it.
LEMMA AppDetachesCounts ==
  ASSUME IInv, CountInv, AppDetaches \/ AppEnds
  PROVE  CountInv'
<1>1. /\ app' = "detaching" \/ (app' = "done" /\ ClientIdle')
      /\ UNCHANGED <<toSubmit, completedBuf, pendingBuffers, exitFlag, captured, flushed, late>>
  BY DEF AppDetaches, AppEnds, Goes, libraryVars, ClientIdle
<1>2. CaptureTypeOK'
  BY <1>1 DEF CountInv, CaptureTypeOK
<1>3. Sequence' /\ Counts' /\ Fresh'
  BY <1>1 DEF Sequence, Counts, PendingIsHeld, Fresh, Running
<1> QED
  BY <1>2, <1>3 DEF CountInv

-----------------------------------------------------------------------------
(* Types and counts *)

\* The steps of Detach are those of a client that is in it.
LEMMA DetachingCounts ==
  ASSUME CountInv, DetachContinues, UNCHANGED appVars
  PROVE  app = "detaching" /\ CountInv'
<1>1. ~ClientIdle
  BY DEF DetachContinues, DetachJoins, DetachCompletes, DetachHandles, DetachDevice,
         DetachDiscards, DetachReturns, ClientIdle
<1>2. app = "detaching" /\ app' = "detaching"
  BY <1>1 DEF CountInv, Sequence, appVars
<1>3. CaptureTypeOK'
  BY DEF CountInv, CaptureTypeOK, appVars
<1>4. Sequence' /\ Counts' /\ Fresh'
  BY <1>2 DEF Sequence, Counts, PendingIsHeld, Fresh, Running
<1> QED
  BY <1>2, <1>3, <1>4 DEF CountInv

LEMMA CountStep ==
  ASSUME IInv, CountInv, [CaptureNext]_captureVars
  PROVE  CountInv'
<1>1. CASE App
  BY <1>1, AppAttachCounts, AppStartCounts, AppSubmitCounts, AppStopsCounts, AppLoopsCounts,
     AppReceivesCounts, AppTimesOutCounts, AppResubmitsCounts, AppDrainsCounts,
     AppDetachesCounts
  DEF App
<1>2. CASE Detaching
  BY <1>2, DetachingCounts DEF Detaching
<1>3. CASE DataThreadOf \/ DeviceSteps
  <2>1. Drift /\ UNCHANGED appVars
    BY <1>3, ThreadDrifts, DeviceDrifts DEF DataThreadOf, DeviceSteps
  <2> QED
    BY <2>1, DriftKeeps DEF appVars, CountInv, CaptureTypeOK
<1>4. CASE Signal \/ TimePasses \/ UNCHANGED captureVars
  <2>1. /\ UNCHANGED <<holder, attaches, status, queued, pending, eventBufs, completed, agent>>
        /\ UNCHANGED <<app, toSubmit, completedBuf, pendingBuffers, captured, flushed>>
    BY <1>4 DEF Signal, TimePasses, captureVars, libraryVars, library, client, appVars
  <2>2. exitFlag' \in 0 .. 2
    BY <1>4 DEF Signal, TimePasses, captureVars, appVars, CountInv, CaptureTypeOK
  <2>3. late' \in BOOLEAN
    BY <1>4 DEF Signal, TimePasses, captureVars, appVars, CountInv, CaptureTypeOK
  <2> QED
    BY <2>1, <2>2, <2>3, NothingDrifts, DriftKeeps
<1> QED
  BY <1>1, <1>2, <1>3, <1>4 DEF CaptureNext

\* A step of the capture is a step of the library, or leaves it alone.
LEMMA CaptureStepIsLibraryStep ==
  ASSUME [CaptureNext]_captureVars
  PROVE  [Next]_vars
<1>s. PICK s \in Sinks : s = Sink
  BY TheSink
<1>1. Call(s) \/ DataThread(s) \/ DetachContinues \/ Device => Next
  BY DEF Next
<1>2. UNCHANGED libraryVars => UNCHANGED vars
  BY DEF libraryVars, vars, library, client, usb
<1>3. ASSUME App
      PROVE  Call(s) \/ UNCHANGED libraryVars
  <2>1. ASSUME NEW b, SubmitEventBuffer(s, b)
        PROVE  Call(s)
    <3>1. b \in Buffers
      BY <2>1 DEF SubmitEventBuffer, Buffers
    <3> QED
      BY <2>1, <3>1 DEF Call
  <2>2. CASE AppSubmit \/ AppResubmits
    BY <1>s, <2>1, <2>2 DEF AppSubmit, AppResubmits
  <2>3. CASE AppAttach \/ AppStart \/ AppAborts \/ AppReceives \/ AppStops \/ AppDetaches
    BY <1>s, <2>3 DEF AppAttach, AppStart, AppAborts, AppReceives, AppStops, AppDetaches, Call
  <2>4. CASE AppLoops \/ AppDrains \/ AppTimesOut \/ AppEnds
    BY <1>s, <2>4 DEF AppLoops, AppDrains, AppTimesOut, AppEnds, Call, libraryVars
  <2> QED
    BY <1>3, <2>2, <2>3, <2>4 DEF App
<1>4. CASE CaptureNext
  BY <1>s, <1>1, <1>2, <1>3, <1>4
  DEF CaptureNext, Detaching, DataThreadOf, DeviceSteps, Signal, TimePasses
<1>5. CASE UNCHANGED captureVars
  BY <1>2, <1>5 DEF captureVars
<1> QED
  BY <1>4, <1>5

LEMMA CountInit == CaptureInit => IInv /\ CountInv
<1> SUFFICES ASSUME CaptureInit PROVE IInv /\ CountInv
  OBVIOUS
<1>1. IInv
  BY InitHolds DEF CaptureInit
<1>2. /\ app = "attach" /\ toSubmit = Buffers /\ completedBuf = NULL /\ pendingBuffers = 0
      /\ exitFlag = 0 /\ captured = FALSE /\ flushed = FALSE /\ late = FALSE
  BY DEF CaptureInit, AppInit
<1>3. /\ queued[Sink] = <<>> /\ pending[Sink] = <<>> /\ eventBufs[Sink] = <<>>
      /\ completed[Sink] = <<>> /\ agent[CLIENT] = Idle
      /\ \A b \in Buffers : holder[b] = CLIENT
  BY TheSink, AgentsAre DEF CaptureInit, Init
<1>4. Everywhere = {} /\ Waiting = {}
  BY <1>3, EmptyQueue DEF Everywhere, Waiting
<1>5. CaptureTypeOK
  <2>1. /\ app = "attach" /\ toSubmit \subseteq Buffers
        /\ completedBuf \in Buffers \cup {NULL}
    BY <1>2
  <2>2. exitFlag \in 0 .. 2 /\ pendingBuffers \in 0 .. Cardinality(Buffers)
    BY <1>2, TheSink
  <2>3. captured \in BOOLEAN /\ flushed \in BOOLEAN /\ late \in BOOLEAN
    BY <1>2, Zenon
  <2> QED
    BY <2>1, <2>2, <2>3 DEF CaptureTypeOK
<1>6. Sequence
  BY <1>2, <1>3, <1>4 DEF Sequence, ClientIdle, Idle
<1>7. Counts /\ Fresh
  BY <1>2, <1>4 DEF Counts, PendingIsHeld, Fresh
<1> QED
  BY <1>1, <1>5, <1>6, <1>7 DEF CountInv

LEMMA CountsHold == CaptureSpec => [](IInv /\ CountInv)
<1>1. IInv /\ CountInv /\ [CaptureNext]_captureVars => (IInv /\ CountInv)'
  BY CountStep, CaptureStepIsLibraryStep, StepKeeps, TheSink
<1> QED
  BY <1>1, CountInit, PTL DEF CaptureSpec

\* The application's own variables, among them that its count of pending buffers
\* stays between none and all of them.
THEOREM CaptureTypesHold == CaptureSpec => []CaptureTypeOK
<1>1. CountInv => CaptureTypeOK
  BY DEF CountInv
<1> QED
  BY <1>1, CountsHold, PTL

\* The application never waits for a buffer that the library does not hold, and
\* counts exactly those that it does unless a submission failed.
THEOREM PendingIsHeldAlways == CaptureSpec => []PendingIsHeld
<1>1. CountInv => PendingIsHeld
  BY DEF CountInv, Counts
<1> QED
  BY <1>1, CountsHold, PTL

-----------------------------------------------------------------------------
(* The order in which transfers come back *)

\* Transfer u does not come back before t: hand is the token in the hands of
\* the data thread, dn what is done, fl what is in flight.
Behind(u, t, hand, dn, fl) ==
  /\ u # hand
  /\ \A l, k \in DOMAIN dn : dn[l].token = u /\ dn[k].token = t => k < l
  /\ u \in TokensIn(dn) => t \notin FlightTokens(fl)
  /\ \A e \in DOMAIN fl : \A l, k \in DOMAIN fl[e] :
       fl[e][l].token = u /\ fl[e][k].token = t => k < l

\* Data is in flight on endpoint x only.
OnEndpoint(fl, x) == \A e \in DOMAIN fl : e # x => TokensIn(fl[e]) \cap Tokens = {}

Out(hand, dn, fl) == FlightTokens(fl) \cup TokensIn(dn) \cup {hand}

\* The pending buffers p all come back, in their order.
Line(p, hand, dn, fl, x) ==
  /\ OnEndpoint(fl, x)
  /\ Range(p) \subseteq Out(hand, dn, fl)
  /\ \A j \in DOMAIN p : \A i \in 1 .. j - 1 : Behind(p[j], p[i], hand, dn, fl)

LEMMA PairsOf ==
  ASSUME NEW p \in Seq(Tokens), NEW j \in DOMAIN p, NEW i \in 1 .. j - 1
  PROVE  /\ i \in DOMAIN p /\ i < j /\ p[i] \in Tokens /\ p[j] \in Tokens
         /\ p[i] \in Range(p) /\ p[j] \in Range(p)
<1>1. j \in 1 .. Len(p) /\ DOMAIN p = 1 .. Len(p) /\ Len(p) \in Nat
  OBVIOUS
<1>2. i \in 1 .. Len(p) /\ i < j
  BY <1>1
<1> QED
  BY <1>1, <1>2 DEF Range

LEMMA ControlsAreOther == Tokens \cap ControlTokens = {} /\ NULL \notin Tokens
<1>1. \A t \in Tokens : t.buf \in Buffers
  BY DEF Tokens
<1>2. \A t \in ControlTokens : t.buf = CONTROL
  BY DEF ControlTokens
<1> QED
  BY <1>1, <1>2, TraceAssumption, NullAssumption DEF Buffers

\* Cancelling what is in flight.
LEMMA LineCancelled ==
  ASSUME NEW p \in Seq(Tokens), NEW hand, NEW dn, NEW fl \in Flights, NEW x,
         Once(fl), Line(p, hand, dn, fl, x)
  PROVE  Line(p, hand, dn, Cancelled(fl), x)
<1> DEFINE new == Cancelled(fl)
<1>1. FlightTokens(new) = FlightTokens(fl)
  BY FlightCancelled
<1>2. \A e \in DOMAIN fl : fl[e] \in Seq(Transfers)
  BY DEF Flights
<1>3. /\ DOMAIN new = DOMAIN fl
      /\ \A e \in DOMAIN fl : new[e] = [i \in DOMAIN fl[e] |-> [fl[e][i] EXCEPT !.cancelled = TRUE]]
  BY DEF Cancelled
<1>4. \A e \in DOMAIN fl : /\ DOMAIN new[e] = DOMAIN fl[e]
                           /\ \A i \in DOMAIN fl[e] : new[e][i].token = fl[e][i].token
  <2> SUFFICES ASSUME NEW e \in DOMAIN fl
               PROVE  /\ DOMAIN new[e] = DOMAIN fl[e]
                      /\ \A i \in DOMAIN fl[e] : new[e][i].token = fl[e][i].token
    OBVIOUS
  <2>1. \A i \in DOMAIN fl[e] : fl[e][i] \in Transfers
    BY <1>2
  <2>2. \A r \in Transfers : [r EXCEPT !.cancelled = TRUE].token = r.token
    BY DEF Transfers
  <2>3. new[e] = [i \in DOMAIN fl[e] |-> [fl[e][i] EXCEPT !.cancelled = TRUE]]
    BY <1>3
  <2> HIDE DEF new
  <2> QED
    BY <2>1, <2>2, <2>3
<1> HIDE DEF new
<1>5. \A e \in DOMAIN fl : TokensIn(new[e]) = TokensIn(fl[e])
  BY <1>4 DEF TokensIn
<1>6. OnEndpoint(new, x)
  BY <1>3, <1>5 DEF Line, OnEndpoint
<1>7. Range(p) \subseteq Out(hand, dn, new)
  BY <1>1 DEF Line, Out
<1>8. ASSUME NEW u, NEW t, Behind(u, t, hand, dn, fl)
      PROVE  Behind(u, t, hand, dn, new)
  BY <1>1, <1>3, <1>4, <1>8 DEF Behind
<1>9. Line(p, hand, dn, new, x)
  BY <1>6, <1>7, <1>8 DEF Line
<1> QED
  BY <1>9 DEF new

\* A control transfer is submitted.
LEMMA LineControl ==
  ASSUME NEW p \in Seq(Tokens), NEW hand, NEW dn, NEW fl \in Flights, NEW x, Once(fl),
         Line(p, hand, dn, fl, x), NEW c \in ControlTokens, c \notin FlightTokens(fl)
  PROVE  Line(p, hand, dn, [fl EXCEPT ![CONTROL] = Append(@, Transfer(c))], x)
<1> DEFINE r   == Transfer(c)
           ys  == Append(fl[CONTROL], r)
           new == [fl EXCEPT ![CONTROL] = ys]
           E   == Endpoints \cup {CONTROL}
<1>1. FlightTokens(new) = FlightTokens(fl) \cup {c}
  BY ControlFlies
<1>2. c \notin Tokens
  BY ControlsAreOther
<1>3. /\ DOMAIN fl = E /\ fl[CONTROL] \in Seq(Transfers) /\ CONTROL \in E
      /\ r \in Transfers /\ r.token = c
  BY DEF Flights, Transfers, Transfer
<1>4. DOMAIN new = E /\ new[CONTROL] = ys /\ \A e \in E : e # CONTROL => new[e] = fl[e]
  BY <1>3
<1> HIDE DEF r
<1>5. TokensIn(ys) = TokensIn(fl[CONTROL]) \cup {c}
  BY <1>3, AppendTokens
<1>6. \A l \in DOMAIN ys : (l \in DOMAIN fl[CONTROL] /\ ys[l] = fl[CONTROL][l]) \/ ys[l] = r
  BY <1>3
<1> HIDE DEF ys, new, E
<1>7. \A e \in E : \A l \in DOMAIN new[e] :
        new[e][l].token \in Tokens => l \in DOMAIN fl[e] /\ new[e][l] = fl[e][l]
  BY <1>2, <1>3, <1>4, <1>6
<1>8. OnEndpoint(new, x)
  <2>1. \A e \in E : TokensIn(new[e]) \cap Tokens \subseteq TokensIn(fl[e])
    BY <1>2, <1>4, <1>5
  <2> QED
    BY <1>3, <1>4, <2>1 DEF Line, OnEndpoint
<1>9. Range(p) \subseteq Out(hand, dn, new)
  BY <1>1 DEF Line, Out
<1>10. ASSUME NEW u \in Tokens, NEW t \in Tokens, Behind(u, t, hand, dn, fl)
       PROVE  Behind(u, t, hand, dn, new)
  <2>1. u \in TokensIn(dn) => t \notin FlightTokens(new)
    BY <1>1, <1>2, <1>10 DEF Behind
  <2>2. \A e \in DOMAIN new : \A l, k \in DOMAIN new[e] :
          new[e][l].token = u /\ new[e][k].token = t => k < l
    BY <1>3, <1>4, <1>7, <1>10 DEF Behind
  <2> QED
    BY <1>10, <2>1, <2>2 DEF Behind
<1>11. Line(p, hand, dn, new, x)
  <2>1. \A j \in DOMAIN p : \A i \in 1 .. j - 1 : Behind(p[j], p[i], hand, dn, new)
    BY <1>10, PairsOf DEF Line
  <2> QED
    BY <1>8, <1>9, <2>1 DEF Line
<1> QED
  BY <1>11 DEF new, ys, r

\* The first transfer of an endpoint is done.
LEMMA LineLands ==
  ASSUME NEW p \in Seq(Tokens), NEW hand, NEW dn \in Seq(Completions), NEW fl \in Flights,
         NEW x, Once(fl), Line(p, hand, dn, fl, x),
         NEW e \in Endpoints \cup {CONTROL}, fl[e] # <<>>,
         NEW r \in Completions, r.token = Head(fl[e]).token
  PROVE  Line(p, hand, Append(dn, r), [fl EXCEPT ![e] = Tail(@)], x)
<1> DEFINE q   == fl[e]
           c   == Head(q).token
           ys  == Tail(q)
           new == [fl EXCEPT ![e] = ys]
           dd  == Append(dn, r)
           E   == Endpoints \cup {CONTROL}
           n   == Len(dn)
<1>1. FlightTokens(new) = FlightTokens(fl) \ {c} /\ c \in FlightTokens(fl)
  BY FlightLands
<1>2. DOMAIN fl = E /\ q \in Seq(Transfers) /\ e \in E /\ q # <<>>
  BY DEF Flights
<1>3. DOMAIN new = E /\ new[e] = ys /\ \A f \in E : f # e => new[f] = fl[f]
  BY <1>2
<1>4. /\ TokensIn(q) = {c} \cup TokensIn(ys)
      /\ \A l \in DOMAIN ys : l + 1 \in DOMAIN q /\ ys[l] = q[l + 1] /\ l \in Nat
  BY <1>2, TailTokens
<1>5. 1 \in DOMAIN q /\ q[1].token = c /\ \A l \in DOMAIN q : l \in Nat /\ l >= 1
  BY <1>2
<1>6. TokensIn(dd) = TokensIn(dn) \cup {c}
  BY AppendTokens
<1>7. /\ n \in Nat /\ DOMAIN dn = 1 .. n /\ DOMAIN dd = 1 .. n + 1
      /\ \A l \in 1 .. n : dd[l] = dn[l]
      /\ dd[n + 1] = r
  OBVIOUS
<1>8. \A l \in 1 .. n + 1 : l \in 1 .. n \/ l = n + 1
  BY <1>7
<1> HIDE DEF ys, new, dd, n, E, c
<1>9. OnEndpoint(new, x)
  <2>1. \A f \in E : TokensIn(new[f]) \subseteq TokensIn(fl[f])
    BY <1>3, <1>4
  <2> QED
    BY <1>2, <1>3, <2>1 DEF Line, OnEndpoint
<1>10. Range(p) \subseteq Out(hand, dd, new)
  BY <1>1, <1>6 DEF Line, Out
<1>11. ASSUME NEW u \in Tokens, NEW t \in Tokens, Behind(u, t, hand, dn, fl)
       PROVE  Behind(u, t, hand, dd, new)
  <2>1. u # hand
    BY <1>11 DEF Behind
  <2>2. ASSUME NEW l \in DOMAIN dd, NEW k \in DOMAIN dd, dd[l].token = u, dd[k].token = t
        PROVE  k < l
    <3>1. CASE l \in 1 .. n /\ k \in 1 .. n
      BY <1>7, <1>11, <2>2, <3>1 DEF Behind
    <3>2. CASE l = n + 1 /\ k \in 1 .. n
      BY <1>7, <3>2
    <3>3. CASE k = n + 1 /\ l \in 1 .. n
      <4>1. t = c /\ u \in TokensIn(dn)
        BY <1>7, <2>2, <3>3 DEF TokensIn, c
      <4> QED
        BY <1>1, <1>11, <4>1 DEF Behind
    <3>4. CASE l = n + 1 /\ k = n + 1
      <4>1. u = c /\ t = c
        BY <1>7, <2>2, <3>4 DEF c
      <4> QED
        BY <1>2, <1>5, <1>11, <4>1 DEF Behind
    <3> QED
      BY <1>7, <1>8, <3>1, <3>2, <3>3, <3>4
  <2>3. ASSUME u \in TokensIn(dd), t \in FlightTokens(new)
        PROVE  FALSE
    <3>1. t \in FlightTokens(fl) /\ t # c
      BY <1>1, <2>3
    <3>2. u = c
      BY <1>6, <1>11, <2>3, <3>1 DEF Behind
    <3>3. PICK f \in E : t \in TokensIn(fl[f])
      BY <1>2, <3>1, FlightTokensAre
    <3>4. CASE f = e
      <4>1. PICK k \in DOMAIN q : q[k].token = t
        BY <3>3, <3>4 DEF TokensIn
      <4>2. k < 1
        BY <1>2, <1>5, <1>11, <3>2, <4>1 DEF Behind
      <4>3. k \in Nat /\ k >= 1
        BY <1>5, <4>1
      <4> QED
        BY <4>2, <4>3
    <3>5. CASE f # e
      <4>1. u \in TokensIn(fl[e]) /\ u \in Tokens
        BY <1>4, <3>2
      <4>2. e = x /\ f = x
        BY <1>2, <3>3, <4>1 DEF Line, OnEndpoint
      <4> QED
        BY <3>5, <4>2
    <3> QED
      BY <3>4, <3>5
  <2>4. ASSUME NEW f \in DOMAIN new, NEW l \in DOMAIN new[f], NEW k \in DOMAIN new[f],
               new[f][l].token = u, new[f][k].token = t
        PROVE  k < l
    <3>1. CASE f = e
      <4>1. k + 1 < l + 1 /\ l \in Nat /\ k \in Nat
        BY <1>2, <1>3, <1>4, <1>11, <2>4, <3>1 DEF Behind
      <4> QED
        BY <4>1
    <3>2. CASE f # e
      BY <1>2, <1>3, <1>11, <2>4, <3>2 DEF Behind
    <3> QED
      BY <3>1, <3>2
  <2> QED
    BY <2>1, <2>2, <2>3, <2>4 DEF Behind
<1>12. Line(p, hand, dd, new, x)
  <2>1. \A j \in DOMAIN p : \A i \in 1 .. j - 1 : Behind(p[j], p[i], hand, dd, new)
    BY <1>11, PairsOf DEF Line
  <2> QED
    BY <1>9, <1>10, <2>1 DEF Line
<1> QED
  BY <1>12 DEF new, ys, dd

\* The data thread takes what is done first.
LEMMA LineTaken ==
  ASSUME NEW p \in Seq(Tokens), NEW dn \in Seq(Completions), NEW fl \in Flights, NEW x,
         Line(p, NULL, dn, fl, x), dn # <<>>
  PROVE  Line(p, Head(dn).token, Tail(dn), fl, x)
<1> DEFINE c  == Head(dn).token
           dd == Tail(dn)
<1>1. /\ TokensIn(dn) = {c} \cup TokensIn(dd)
      /\ \A l \in DOMAIN dd : l + 1 \in DOMAIN dn /\ dd[l] = dn[l + 1] /\ l \in Nat
      /\ 1 \in DOMAIN dn /\ dn[1].token = c /\ \A l \in DOMAIN dn : l >= 1
  BY TailTokens
<1> HIDE DEF c, dd
<1>2. Range(p) \subseteq Out(c, dd, fl)
  BY <1>1, RangesAre, ControlsAreOther DEF Line, Out
<1>3. ASSUME NEW j \in DOMAIN p, NEW i \in 1 .. j - 1
      PROVE  Behind(p[j], p[i], c, dd, fl)
  <2> DEFINE u == p[j]
             t == p[i]
  <2>1. /\ t \in Tokens /\ u \in Tokens /\ t \in Range(p)
        /\ Behind(u, t, NULL, dn, fl)
    BY PairsOf DEF Line
  <2> HIDE DEF u, t
  <2>2. u # c
    <3> SUFFICES ASSUME u = c PROVE FALSE
      OBVIOUS
    <3>1. u \in TokensIn(dn) /\ t \notin FlightTokens(fl)
      BY <1>1, <2>1 DEF Behind
    <3>2. t \in TokensIn(dn)
      BY <2>1, <3>1, ControlsAreOther DEF Line, Out
    <3>3. PICK k \in DOMAIN dn : dn[k].token = t
      BY <3>2 DEF TokensIn
    <3>4. k < 1
      BY <1>1, <2>1, <3>3 DEF Behind
    <3> QED
      BY <1>1, <3>4
  <2>3. ASSUME NEW l \in DOMAIN dd, NEW k \in DOMAIN dd, dd[l].token = u, dd[k].token = t
        PROVE  k < l
    <3>1. k + 1 < l + 1 /\ k \in Nat /\ l \in Nat
      BY <1>1, <2>1, <2>3 DEF Behind
    <3> QED
      BY <3>1
  <2>4. u \in TokensIn(dd) => t \notin FlightTokens(fl)
    BY <1>1, <2>1 DEF Behind
  <2>5. Behind(u, t, c, dd, fl)
    BY <2>1, <2>2, <2>3, <2>4 DEF Behind
  <2> QED
    BY <2>5 DEF u, t
<1>4. Line(p, c, dd, fl, x)
  BY <1>2, <1>3 DEF Line
<1> QED
  BY <1>4 DEF c, dd

\* The data thread is done with what it has in hand: the first pending buffer
\* is returned, anything else is forgotten.
LEMMA LineHandled ==
  ASSUME NEW p \in Seq(Tokens), DistinctIn(p, Tokens), NEW hand, NEW dn, NEW fl, NEW x,
         Line(p, hand, dn, fl, x)
  PROVE  /\ p # <<>> /\ hand = Head(p) => Line(Tail(p), NULL, dn, fl, x)
         /\ (p # <<>> => hand # Head(p)) => Line(p, NULL, dn, fl, x)
<1>1. ASSUME NEW u \in Tokens, NEW t, Behind(u, t, hand, dn, fl)
      PROVE  Behind(u, t, NULL, dn, fl)
  BY <1>1, ControlsAreOther DEF Behind
<1>2. ASSUME p # <<>>, hand = Head(p)
      PROVE  Line(Tail(p), NULL, dn, fl, x)
  <2> DEFINE q == Tail(p)
             h == Head(p)
  <2>1. /\ q \in Seq(Tokens) /\ Range(p) = {h} \cup Range(q)
        /\ ApartIn({h}, Range(q), Tokens) /\ h \in Tokens
    BY <1>2, TailDistinct
  <2>2. h \notin Range(q)
    BY <2>1, RangesAre DEF ApartIn
  <2>3. /\ DOMAIN q = 1 .. Len(p) - 1 /\ DOMAIN p = 1 .. Len(p) /\ Len(p) \in Nat
        /\ \A j \in DOMAIN q : q[j] = p[j + 1]
    BY <1>2
  <2> HIDE DEF q, h
  <2>4. Range(q) \subseteq Out(NULL, dn, fl)
    BY <1>2, <2>1, <2>2 DEF Line, Out, h
  <2>5. ASSUME NEW j \in DOMAIN q, NEW i \in 1 .. j - 1
        PROVE  Behind(q[j], q[i], NULL, dn, fl)
    <3>1. /\ j + 1 \in DOMAIN p /\ i + 1 \in 1 .. (j + 1) - 1 /\ i \in DOMAIN q
          /\ j \in DOMAIN q
      BY <2>3
    <3>2. Behind(p[j + 1], p[i + 1], hand, dn, fl)
      BY <3>1 DEF Line
    <3>3. Behind(q[j], q[i], hand, dn, fl)
      BY <2>3, <3>1, <3>2
    <3>4. q[j] \in Tokens
      BY <2>1, <3>1
    <3> QED
      BY <1>1, <3>3, <3>4
  <2>6. Line(q, NULL, dn, fl, x)
    BY <2>4, <2>5 DEF Line
  <2> QED
    BY <2>6 DEF q
<1>3. ASSUME p # <<>> => hand # Head(p)
      PROVE  Line(p, NULL, dn, fl, x)
  <2>1. hand \notin Range(p)
    <3> SUFFICES ASSUME NEW j \in DOMAIN p, p[j] = hand PROVE FALSE
      BY DEF Range
    <3>1. p # <<>> /\ j \in 1 .. Len(p) /\ Len(p) \in Nat /\ Head(p) = p[1]
      OBVIOUS
    <3>2. j # 1
      BY <1>3, <3>1
    <3>3. 1 \in 1 .. j - 1
      BY <3>1, <3>2
    <3>4. Behind(p[j], p[1], hand, dn, fl)
      BY <3>3 DEF Line
    <3> QED
      BY <3>4 DEF Behind
  <2>2. Range(p) \subseteq Out(NULL, dn, fl)
    BY <2>1 DEF Line, Out
  <2>3. \A j \in DOMAIN p : \A i \in 1 .. j - 1 : Behind(p[j], p[i], NULL, dn, fl)
    BY <1>1, PairsOf DEF Line
  <2> QED
    BY <2>2, <2>3 DEF Line
<1> QED
  BY <1>2, <1>3

\* One buffer is submitted to the endpoint.
LEMMA LineGrows ==
  ASSUME NEW p \in Seq(Tokens), NEW hand, NEW dn, NEW fl \in Flights,
         NEW x \in Endpoints, Once(fl), Line(p, hand, dn, fl, x), NEW t \in Tokens,
         t \notin Out(hand, dn, fl), NEW xs \in Seq(Transfers), Len(xs) = 1, xs[1].token = t
  PROVE  Line(Append(p, t), hand, dn, [fl EXCEPT ![x] = @ \o xs], x)
<1> DEFINE ys  == fl[x] \o xs
           new == [fl EXCEPT ![x] = ys]
           pp  == Append(p, t)
           E   == Endpoints \cup {CONTROL}
           n   == Len(fl[x])
           m   == Len(p)
<1>1. DOMAIN xs = 1 .. 1 /\ \A i \in 1 .. 1 : i = 1
  OBVIOUS
<1>2. TokensIn(xs) = {t} /\ DistinctTokens(xs)
  BY <1>1 DEF TokensIn, DistinctTokens
<1>3. x \in E /\ DOMAIN fl = E /\ fl[x] \in Seq(Transfers)
  BY DEF Flights
<1>4. FlightTokens(new) = FlightTokens(fl) \cup {t}
  <2>1. TokensIn(xs) \cap FlightTokens(fl) = {} /\ x \in Endpoints \cup {CONTROL}
    BY <1>2 DEF Out
  <2>2. FlightTokens(new) = FlightTokens(fl) \cup TokensIn(xs)
    BY <1>2, <2>1, FlightGrows
  <2> QED
    BY <1>2, <2>2
<1>5. DOMAIN new = E /\ new[x] = ys /\ \A e \in E : e # x => new[e] = fl[e]
  BY <1>3
<1>6. /\ n \in Nat /\ DOMAIN fl[x] = 1 .. n /\ DOMAIN ys = 1 .. n + 1
      /\ \A l \in 1 .. n : ys[l] = fl[x][l]
      /\ ys[n + 1].token = t
  <2>a. n \in Nat /\ DOMAIN fl[x] = 1 .. n
    BY <1>3
  <2>b. PICK a \in Seq(Transfers) : a = fl[x]
    BY <1>3
  <2>c. /\ a \o xs \in Seq(Transfers) /\ Len(a \o xs) = Len(a) + Len(xs)
        /\ \A l \in 1 .. Len(a) + Len(xs) :
             (a \o xs)[l] = IF l <= Len(a) THEN a[l] ELSE xs[l - Len(a)]
    BY ConcatProperties
  <2>0. /\ n \in Nat /\ DOMAIN fl[x] = 1 .. n /\ ys \in Seq(Transfers)
        /\ Len(ys) = n + Len(xs)
        /\ \A l \in 1 .. n + Len(xs) :
             ys[l] = IF l <= n THEN fl[x][l] ELSE xs[l - n]
    BY <2>a, <2>b, <2>c
  <2>1. /\ n \in Nat /\ DOMAIN fl[x] = 1 .. n /\ Len(ys) = n + 1 /\ ys \in Seq(Transfers)
        /\ \A l \in 1 .. n + 1 : ys[l] = IF l <= n THEN fl[x][l] ELSE xs[l - n]
    BY <2>0
  <2>2. n + 1 \in 1 .. n + 1 /\ ~(n + 1 <= n) /\ (n + 1) - n = 1
    BY <2>1
  <2>3. ys[n + 1] = xs[1]
    BY <2>1, <2>2
  <2>4. \A l \in 1 .. n : l \in 1 .. n + 1 /\ l <= n
    BY <2>1
  <2> HIDE DEF ys, n
  <2> QED
    BY <2>1, <2>3, <2>4
<1>7. \A l \in 1 .. n + 1 : l \in 1 .. n \/ l = n + 1
  BY <1>6
<1>8. /\ m \in Nat /\ DOMAIN p = 1 .. m /\ DOMAIN pp = 1 .. m + 1
      /\ \A i \in 1 .. m : pp[i] = p[i] /\ p[i] \in Range(p)
      /\ pp[m + 1] = t
  BY DEF Range
<1>9. Range(pp) = Range(p) \cup {t} /\ t \notin Range(p)
  BY AppendDistinct DEF Line
<1> HIDE DEF ys, new, pp, E, n, m
<1>10. OnEndpoint(new, x)
  BY <1>3, <1>5 DEF Line, OnEndpoint
<1>11. Range(pp) \subseteq Out(hand, dn, new)
  BY <1>4, <1>9 DEF Line, Out
<1>12. ASSUME NEW u, NEW v, u # t, v # t, Behind(u, v, hand, dn, fl)
       PROVE  Behind(u, v, hand, dn, new)
  <2>1. \A e \in DOMAIN new : \A l, k \in DOMAIN new[e] :
          new[e][l].token = u /\ new[e][k].token = v => k < l
    <3> SUFFICES ASSUME NEW e \in E, NEW l \in DOMAIN new[e], NEW k \in DOMAIN new[e],
                        new[e][l].token = u, new[e][k].token = v
                 PROVE  k < l
      BY <1>5
    <3>1. CASE e # x
      BY <1>3, <1>5, <1>12, <3>1 DEF Behind
    <3>2. CASE e = x
      <4>1. l \in 1 .. n /\ k \in 1 .. n
        BY <1>5, <1>6, <1>7, <1>12, <3>2
      <4> QED
        BY <1>3, <1>5, <1>6, <1>12, <3>2, <4>1 DEF Behind
    <3> QED
      BY <3>1, <3>2
  <2> QED
    BY <1>4, <1>12, <2>1 DEF Behind
<1>13. ASSUME NEW v \in Range(p)
       PROVE  Behind(t, v, hand, dn, new)
  <2>1. v # t
    BY <1>9, <1>13
  <2>2. \A e \in DOMAIN new : \A l, k \in DOMAIN new[e] :
          new[e][l].token = t /\ new[e][k].token = v => k < l
    <3> SUFFICES ASSUME NEW e \in E, NEW l \in DOMAIN new[e], NEW k \in DOMAIN new[e],
                        new[e][l].token = t, new[e][k].token = v
                 PROVE  k < l
      BY <1>5
    <3>1. CASE e # x
      <4>1. t \in TokensIn(fl[e])
        BY <1>5, <3>1 DEF TokensIn
      <4> QED
        BY <1>3, <4>1, FlightTokensAre DEF Out
    <3>2. CASE e = x
      <4>1. l \notin 1 .. n
        <5> SUFFICES ASSUME l \in 1 .. n PROVE FALSE
          OBVIOUS
        <5>1. t \in TokensIn(fl[x])
          BY <1>5, <1>6, <3>2 DEF TokensIn
        <5> QED
          BY <1>3, <5>1, FlightTokensAre DEF Out
      <4>2. l = n + 1 /\ k # n + 1
        BY <1>5, <1>6, <1>7, <2>1, <3>2, <4>1
      <4> QED
        BY <1>5, <1>6, <1>7, <3>2, <4>2
    <3> QED
      BY <3>1, <3>2
  <2>3. t \notin TokensIn(dn) /\ t # hand
    BY DEF Out
  <2>4. \A l \in DOMAIN dn : dn[l].token # t
    BY <2>3 DEF TokensIn
  <2> QED
    BY <2>2, <2>3, <2>4 DEF Behind
<1>14. ASSUME NEW j \in DOMAIN pp, NEW i \in 1 .. j - 1
       PROVE  Behind(pp[j], pp[i], hand, dn, new)
  <2>1. i \in 1 .. m /\ pp[i] = p[i] /\ p[i] \in Range(p) /\ p[i] # t
    BY <1>8, <1>9
  <2>2. CASE j \in 1 .. m
    <3>1. pp[j] = p[j] /\ p[j] # t /\ j \in DOMAIN p
      BY <1>8, <1>9, <2>2
    <3>2. Behind(p[j], p[i], hand, dn, fl)
      BY <3>1 DEF Line
    <3> QED
      BY <1>12, <2>1, <3>1, <3>2
  <2>3. CASE j = m + 1
    BY <1>8, <1>13, <2>1, <2>3
  <2> QED
    BY <1>8, <2>2, <2>3
<1>15. Line(pp, hand, dn, new, x)
  BY <1>10, <1>11, <1>14 DEF Line
<1> QED
  BY <1>15 DEF new, ys, pp

-----------------------------------------------------------------------------
(* Every buffer the library holds comes back *)

\* What the library holds is in one of its queues, none of it waits for USB.
HeldIsSomewhere ==
  queued[Sink] = <<>> /\ \A b \in Held : \E t \in Everywhere : t.buf = b

InLine ==
  /\ dataTokens = pending[Sink]
  /\ Line(pending[Sink], Got(Sink).token, done, inFlight, transportID[Sink])

\* The data thread waits for buffers only when there are none.
Pauses == agent[Sink].pc = "cond" => pending[Sink] = <<>>

Kept == HeldIsSomewhere /\ InLine /\ Pauses

DrainInv == Running /\ ~Refused => Kept /\ DrainGetsAll

LEMMA UsbTypes ==
  ASSUME IInv
  PROVE  /\ inFlight \in Flights /\ Once(inFlight) /\ done \in Seq(Completions)
         /\ Nothing.token = NULL
         /\ agent[Sink].pc # "got" => Got(Sink) = Nothing
         /\ DistinctIn(pending[Sink], Tokens)
<1>1. inFlight \in Flights /\ Once(inFlight) /\ done \in Seq(Completions)
  BY FlightTypes DEF IInv, Flying, TypeOK
<1>2. Nothing.token = NULL
  BY DEF Nothing
<1>3. agent[Sink].pc # "got" => Got(Sink) = Nothing
  BY TheSink DEF IInv, Phases, Got, Agents
<1>4. DistinctIn(pending[Sink], Tokens)
  BY TheSink DEF IInv, Places, Placed, Apart
<1> QED
  BY <1>1, <1>2, <1>3, <1>4

LEMMA LineEmpty ==
  ASSUME NEW hand, NEW dn, NEW fl, NEW x, Out(hand, dn, fl) \cap Tokens = {}
  PROVE  Line(<<>>, hand, dn, fl, x)
<1>1. Range(<<>>) = {} /\ DOMAIN <<>> = {}
  BY EmptyQueue
<1>2. OnEndpoint(fl, x)
  BY FlightTokensAre DEF OnEndpoint, Out
<1> QED
  BY <1>1, <1>2 DEF Line

\* With nothing pending no data is in flight.
LEMMA NothingPending ==
  ASSUME IInv', pending'[Sink] = <<>>, dataTokens' = <<>>
  PROVE  InLine' /\ Pauses'
<1>1. Outstanding' \cap Tokens \subseteq Range(pending'[Sink])
  BY TheSink DEF IInv, Known
<1>2. Outstanding' \cap Tokens = {}
  BY <1>1, EmptyQueue
<1>3. Outstanding' = FlightTokens(inFlight') \cup TokensIn(done') \cup Hands'
  BY OutstandingIs
<1>4. Got(Sink).token' \in Hands'
  BY TheSink DEF Hands, Got, Agents
<1>5. Out(Got(Sink).token', done', inFlight') \cap Tokens = {}
  BY <1>2, <1>3, <1>4 DEF Out
<1>6. Line(<<>>, Got(Sink).token', done', inFlight', transportID'[Sink])
  BY <1>5, LineEmpty
<1> QED
  BY <1>6 DEF InLine, Pauses

\* A step that moves no transfer but may cancel them, and leaves the queues of
\* data alone.
LEMMA SameLine ==
  ASSUME IInv, InLine, Pauses, inFlight' \in {inFlight, Cancelled(inFlight)},
         UNCHANGED <<done, transportID, pending, dataTokens>>, agent' = agent
  PROVE  InLine' /\ Pauses'
<1> PICK p \in Seq(Tokens) : p = pending[Sink]
  BY SinkTypes
<1> PICK hand : hand = Got(Sink).token
  OBVIOUS
<1>1. Line(p, hand, done, inFlight, transportID[Sink])
  BY DEF InLine
<1>2. Line(p, hand, done, inFlight', transportID[Sink])
  BY <1>1, UsbTypes, LineCancelled
<1>3. Got(Sink).token' = hand
  BY DEF Got
<1> QED
  BY <1>2, <1>3 DEF InLine, Pauses

LEMMA NoRange ==
  ASSUME NEW q \in Seq(Tokens), Range(q) = {}
  PROVE  q = <<>>
BY DEF Range

\* The device completes a transfer.
LEMMA DeviceKeepsLine ==
  ASSUME IInv, InLine, Pauses, Device
  PROVE  InLine' /\ Pauses'
<1>1. PICK e \in DOMAIN inFlight, how \in {"SUCCESS", "FAILED"} :
        inFlight[e] # <<>> /\ Completes(e, how)
  <2>1. DOMAIN inFlight = Endpoints \cup {CONTROL}
    BY DEF IInv, TypeOK
  <2> QED
    BY <2>1 DEF Device, DataArrives, MessageArrives, CancelCompletes, TransferFails
<1> PICK p \in Seq(Tokens) : p = pending[Sink]
  BY SinkTypes
<1> PICK hand : hand = Got(Sink).token
  OBVIOUS
<1> PICK r : r = [token |-> Head(inFlight[e]).token, status |-> how]
  OBVIOUS
<1>2. /\ inFlight \in Flights /\ Once(inFlight) /\ done \in Seq(Completions)
      /\ e \in Endpoints \cup {CONTROL}
  BY UsbTypes DEF Flights
<1>3. r \in Completions /\ r.token = Head(inFlight[e]).token
  <2>1. Head(inFlight[e]).token \in Tokens \cup ControlTokens
    BY <1>1, <1>2, FlightLands
  <2> QED
    BY <2>1 DEF Completions
<1>4. Line(p, hand, done, inFlight, transportID[Sink])
  BY DEF InLine
<1>5. Line(p, hand, Append(done, r), [inFlight EXCEPT ![e] = Tail(@)], transportID[Sink])
  BY <1>1, <1>2, <1>3, <1>4, LineLands
<1>6. /\ done' = Append(done, r) /\ inFlight' = [inFlight EXCEPT ![e] = Tail(@)]
      /\ UNCHANGED <<transportID, pending, dataTokens, agent>>
  BY <1>1 DEF Completes, library
<1>7. Line(p, hand, done', inFlight', transportID[Sink])
  BY <1>5, <1>6
<1>8. Got(Sink).token' = hand
  BY <1>6 DEF Got
<1> QED
  BY <1>6, <1>7, <1>8 DEF InLine, Pauses

\* The next control transfer is submitted, or is not.
LEMMA ControlKeepsLine ==
  ASSUME IInv, NEW p \in Seq(Tokens), NEW hand, NEW x,
         Line(p, hand, done, inFlight, x), SubmitControl(inFlight) \/ inFlight' = inFlight
  PROVE  Line(p, hand, done, inFlight', x)
<1>1. FreshControl \in ControlTokens /\ FreshControl \notin FlightTokens(inFlight)
  BY FreshControlIsFree, OutstandingIs DEF IInv
<1>2. CASE SubmitControl(inFlight)
  <2> PICK c \in ControlTokens : c = FreshControl
    BY <1>1
  <2>1. inFlight' = [inFlight EXCEPT ![CONTROL] = Append(@, Transfer(c))]
    BY <1>2 DEF SubmitControl
  <2>2. Line(p, hand, done, [inFlight EXCEPT ![CONTROL] = Append(@, Transfer(c))], x)
    BY <1>1, UsbTypes, LineControl
  <2> QED
    BY <2>1, <2>2
<1> QED
  BY <1>2

\* A step of the data thread.
LEMMA ThreadKeepsLine ==
  ASSUME IInv, InLine, Pauses, DataThread(Sink), queued[Sink] = <<>>
  PROVE  InLine' /\ Pauses' /\ agent[Sink].pc # "exited"
<1> PICK p \in Seq(Tokens) : p = pending[Sink]
  BY SinkTypes
<1> PICK hand : hand = Got(Sink).token
  OBVIOUS
<1> PICK x : x = transportID[Sink]
  OBVIOUS
<1>a. /\ Sink \in Agents /\ agent \in [Agents -> AgentStates]
      /\ \A pc : Thread(Sink, pc).got = Nothing /\ Thread(Sink, pc).pc = pc
  BY TheSink, AgentsAre DEF Agents, IInv, Thread, Idle
<1>b. Line(p, hand, done, inFlight, x) /\ dataTokens = p
  BY DEF InLine
<1>1. CASE DataThreadLooks(Sink)
  <2>1. /\ UNCHANGED <<done, inFlight, transportID, pending, dataTokens>>
        /\ agent[Sink].pc = "run"
    BY <1>1 DEF DataThreadLooks, library, usb
  <2>2. /\ agent'[Sink].got = Nothing
        /\ agent'[Sink].pc = "cond" => pending[Sink] = <<>>
    <3> DEFINE new == IF status[Sink] = "DETACHED" THEN Thread(Sink, "exited")
                      ELSE IF pending[Sink] = <<>> THEN Thread(Sink, "cond")
                      ELSE [Thread(Sink, "usb") EXCEPT !.buf = Head(pending[Sink])]
    <3>1. agent'[Sink] = new
      BY <1>1, <1>a DEF DataThreadLooks
    <3>2. /\ [Thread(Sink, "usb") EXCEPT !.buf = Head(pending[Sink])].got = Nothing
          /\ [Thread(Sink, "usb") EXCEPT !.buf = Head(pending[Sink])].pc = "usb"
      BY DEF Thread, Idle
    <3> QED
      BY <1>a, <3>1, <3>2
  <2>3. Got(Sink).token' = hand
    BY <2>1, <2>2, UsbTypes DEF Got
  <2> QED
    BY <1>b, <2>1, <2>2, <2>3 DEF InLine, Pauses
<1>2. CASE DataThreadCompletes(Sink)
  <2>1. /\ UNCHANGED <<inFlight, transportID, pending, dataTokens>>
        /\ agent[Sink].pc = "usb" /\ hand = NULL
    BY <1>2, UsbTypes DEF DataThreadCompletes, library
  <2>2. CASE done # <<>> /\ done' = Tail(done)
             /\ agent' = [agent EXCEPT ![Sink].got = Head(done), ![Sink].pc = "got"]
    <3>1. Line(p, Head(done).token, Tail(done), inFlight, x)
      BY <1>b, <2>1, <2>2, UsbTypes, LineTaken
    <3>2. Got(Sink).token' = Head(done).token /\ agent'[Sink].pc = "got"
      BY <1>a, <2>2 DEF Got, AgentStates
    <3> QED
      BY <1>b, <2>1, <2>2, <3>1, <3>2 DEF InLine, Pauses
  <2>3. CASE UNCHANGED done
             /\ agent' = [agent EXCEPT ![Sink].got = Nothing, ![Sink].pc = "got"]
    <3>1. Got(Sink).token' = hand /\ agent'[Sink].pc = "got"
      BY <1>a, <2>1, <2>3, UsbTypes DEF Got, AgentStates
    <3> QED
      BY <1>b, <2>1, <2>3, <3>1 DEF InLine, Pauses
  <2> QED
    BY <1>2, <2>1, <2>2, <2>3 DEF DataThreadCompletes, CompleteTransfer
<1>3. CASE DataThreadHandles(Sink)
  <2>1. agent[Sink].pc = "got" /\ UNCHANGED <<done, transportID>>
    BY <1>3 DEF DataThreadHandles
  <2>2. /\ p # <<>> /\ hand = Head(p) => Line(Tail(p), NULL, done, inFlight, x)
        /\ (p # <<>> => hand # Head(p)) => Line(p, NULL, done, inFlight, x)
    BY <1>b, UsbTypes, LineHandled
  <2>3. ASSUME NEW pc \in {"run", "exited"}, agent' = [agent EXCEPT ![Sink] = Thread(Sink, pc)]
        PROVE  Got(Sink).token' = NULL /\ agent'[Sink].pc # "cond"
    BY <1>a, <2>3, UsbTypes DEF Got
  <2>4. CASE DataThreadReturnsBuffer(Sink)
    <3>1. PICK n \in 0 .. IF status[Sink] = "ACTIVE" THEN Len(queued[Sink]) ELSE 0 :
            /\ \/ agent' = [agent EXCEPT ![Sink] = Thread(Sink, "run")]
               \/ agent' = [agent EXCEPT ![Sink] = Thread(Sink, "exited")]
            /\ Submit(Sink, queued[Sink], Tail(pending[Sink]), Tail(dataTokens), n)
            /\ inFlight' = Submitted(Sink, queued[Sink], n)
      BY <2>4 DEF DataThreadReturnsBuffer
    <3>2. n = 0
      BY <3>1
    <3>3. p # <<>> /\ hand = Head(p)
      BY <1>b, <2>4 DEF DataThreadReturnsBuffer, Expected, Got
    <3>4. SubSeq(queued[Sink], 1, n) = <<>> /\ Tail(p) \o <<>> = Tail(p) /\ Tail(p) \in Seq(Tokens)
      BY <3>2, <3>3
    <3>5. pending' = [pending EXCEPT ![Sink] = Tail(p) \o <<>>] /\ dataTokens' = Tail(p) \o <<>>
      BY <1>b, <3>1, <3>4 DEF Submit
    <3>6. pending'[Sink] = Tail(p) /\ dataTokens' = Tail(p) /\ inFlight' = inFlight
      BY <3>1, <3>2, <3>4, <3>5, SinkTypes, TheSink DEF Submitted
    <3>7. Got(Sink).token' = NULL /\ agent'[Sink].pc # "cond"
      BY <2>3, <3>1
    <3>8. Line(Tail(p), NULL, done, inFlight, x)
      BY <2>2, <3>3
    <3> QED
      BY <2>1, <3>6, <3>7, <3>8 DEF InLine, Pauses
  <2>5. ASSUME ~Expected(Sink), UNCHANGED <<pending, dataTokens>>,
               SubmitControl(inFlight) \/ inFlight' = inFlight,
               \/ agent' = [agent EXCEPT ![Sink] = Thread(Sink, "run")]
               \/ agent' = [agent EXCEPT ![Sink] = Thread(Sink, "exited")]
        PROVE  InLine' /\ Pauses'
    <3>1. p # <<>> => hand # Head(p)
      <4> SUFFICES ASSUME p # <<>>, hand = Head(p) PROVE FALSE
        OBVIOUS
      <4>1. Head(p) \in Tokens
        OBVIOUS
      <4>2. Got(Sink) = Nothing
        BY <1>b, <2>5 DEF Expected
      <4> QED
        BY <4>1, <4>2, UsbTypes, ControlsAreOther
    <3>2. Line(p, NULL, done, inFlight', x)
      BY <2>2, <2>5, <3>1, ControlKeepsLine
    <3>3. Got(Sink).token' = NULL /\ agent'[Sink].pc # "cond"
      BY <2>3, <2>5
    <3> QED
      BY <1>b, <2>1, <2>5, <3>2, <3>3 DEF InLine, Pauses
  <2>6. CASE /\ IsControl(Sink)
             /\ HandleControl(Sink, Thread(Sink, "run"), Thread(Sink, "exited"))
             /\ UNCHANGED <<queued, pending, dataTokens>>
    BY <2>1, <2>5, <2>6 DEF IsControl, HandleControl
  <2>7. CASE /\ IsIgnored(Sink)
             /\ agent' = [agent EXCEPT ![Sink] = Thread(Sink, "run")]
             /\ UNCHANGED <<pending, dataTokens, inFlight>>
    <3>1. CASE ~Expected(Sink)
      BY <2>1, <2>5, <2>7, <3>1
    <3> QED
      BY <2>7, <3>1 DEF IsIgnored, Expected
  <2> QED
    BY <1>3, <2>1, <2>4, <2>6, <2>7 DEF DataThreadHandles
<1> QED
  BY <1>1, <1>2, <1>3 DEF DataThread

\* The client submits a buffer, for which USB has room: there are as many data
\* buffers as it takes.
LEMMA SubmitKeeps ==
  ASSUME IInv, CountInv, Running, Kept, NEW b \in Buffers, status[Sink] = "ACTIVE",
         SubmitEventBuffer(Sink, b), result' = "ok"
  PROVE  Kept'
<1> PICK t : t = TokenOf(Sink, b)
  OBVIOUS
<1> PICK p \in Seq(Tokens) : p = pending[Sink]
  BY SinkTypes
<1> PICK hand : hand = Got(Sink).token
  OBVIOUS
<1> PICK x : x = transportID[Sink]
  OBVIOUS
<1>1. /\ holder[b] = CLIENT /\ holder' = [holder EXCEPT ![b] = Sink]
      /\ t \in Tokens /\ Everywhere' = Everywhere \cup {t}
  BY SubmitsBuffer
<1>2. t.buf = b
  BY DEF TokenOf
<1>3. \A c \in Held' : \E u \in Everywhere' : u.buf = c
  <2>1. Held' = Held \cup {b}
    BY <1>1, HeldGrows, SinkTypes, TheSink
  <2> QED
    BY <1>1, <1>2, <2>1 DEF Kept, HeldIsSomewhere
<1>4. Line(p, hand, done, inFlight, x) /\ dataTokens = p /\ queued[Sink] = <<>>
  BY DEF Kept, InLine, HeldIsSomewhere
<1>5. UNCHANGED <<done, transportID>>
  BY DEF SubmitEventBuffer
<1>6. CASE UNCHANGED <<queued, pending, dataTokens, inFlight, agent>>
  BY <1>3, <1>4, <1>5, <1>6, SameLine DEF Kept, HeldIsSomewhere
<1>7. CASE SubmitData(Sink, b) /\ b \in DataBufs
  <2>1. \A i \in DOMAIN p : p[i] \in Tokens /\ p[i].buf \in DataBufs \ {b}
    <3>1. \A u \in Range(p) : u \in Waiting /\ holder[u.buf] # CLIENT
      BY TheSink DEF Waiting, IInv, Places, Placed, NotClients
    <3>2. \A u \in Range(p) : u.buf \in DataBufs \ {b}
      BY <1>1, <3>1 DEF CountInv, Fresh
    <3> QED
      BY <3>2 DEF Range
  <2>2. Len(p) < DataBufferCount
    <3> DEFINE f == [i \in 1 .. Len(p) |-> p[i].buf]
               D == DataBufs \ {b}
    <3>1. IsFiniteSet(D) /\ Cardinality(D) = DataBufferCount - 1
      BY <1>7, CaptureAssumption, FS_RemoveElement
    <3>2. f \in [1 .. Len(p) -> D]
      BY <2>1
    <3>3. \A i, j \in 1 .. Len(p) : f[i] = f[j] => i = j
      BY <2>1, UsbTypes DEF DistinctIn
    <3>4. f \in Injection(1 .. Len(p), D)
      BY <3>2, <3>3 DEF Injection, IsInjective
    <3> HIDE DEF f, D
    <3>5. Cardinality(1 .. Len(p)) <= DataBufferCount - 1
      BY <3>1, <3>4, FS_Injection
    <3>6. Len(p) \in Nat /\ 1 \in Int /\ Len(p) \in Int
      OBVIOUS
    <3>7. Len(p) = 0 \/ Cardinality(1 .. Len(p)) = Len(p)
      <4> PICK m \in Nat : m = Len(p)
        BY <3>6
      <4>1. m = 0 \/ Cardinality(1 .. m) = m
        BY FS_Interval
      <4> QED
        BY <4>1
    <3> QED
      BY <3>5, <3>6, <3>7, TraceAssumption
  <2>q. Append(<<>>, t) \in Seq(Tokens)
    BY <1>1
  <2> PICK q \in Seq(Tokens) : q = Append(queued[Sink], t)
    BY <1>4, <2>q
  <2>3. Len(q) = 1 /\ q[1] = t /\ q = <<t>>
    BY <1>4
  <2>4. Room(p, q) = 1
    BY <2>2, <2>3, TraceAssumption DEF Room, Smaller
  <2>a. Append(queued[Sink], TokenOf(Sink, b)) = q /\ pending[Sink] = p
    OBVIOUS
  <2>b. ~Fails
    BY DEF Fails
  <2>5. PICK n \in 0 .. Len(q) :
          /\ SubmitsAll(Sink, q, p, n) /\ Submit(Sink, q, p, dataTokens, n)
          /\ inFlight' = Submitted(Sink, q, n) /\ agent' = Notified(Sink, n)
    <3>1. \E n \in 0 .. Len(q) :
             /\ \/ /\ SubmitsAll(Sink, q, p, n)
                   /\ holder' = [holder EXCEPT ![b] = Sink]
                   /\ Returns
                \/ /\ SubmitThrows(Sink, q, p, n)
                   /\ holder' = [holder EXCEPT ![b] = NULL]
                   /\ Fails
             /\ Submit(Sink, q, p, dataTokens, n)
             /\ inFlight' = Submitted(Sink, q, n)
             /\ agent' = Notified(Sink, n)
      BY <1>7, <2>a DEF SubmitData
    <3> QED
      BY <2>b, <3>1
  <2>6. n = 1 /\ x # NULL
    BY <2>4, <2>5 DEF SubmitsAll
  <2>7. SubSeq(q, 1, n) = <<t>> /\ SubSeq(q, n + 1, Len(q)) = <<>>
    <3>1. <<t>> \in Seq(Tokens) /\ Len(<<t>>) = 1 /\ <<t>>[1] = t
      BY <1>1
    <3> DEFINE r == SubSeq(q, 1, 1)
    <3>2. r \in Seq(Tokens) /\ Len(r) = 1 /\ r[1] = t
      BY <2>3
    <3>3. \A i \in 1 .. 1 : r[i] = <<t>>[i]
      BY <3>1, <3>2
    <3> HIDE DEF r
    <3>4. r = <<t>>
      BY <3>1, <3>2, <3>3
    <3>5. SubSeq(q, 2, 1) = <<>>
      OBVIOUS
    <3> QED
      BY <2>3, <2>6, <3>4, <3>5 DEF r
  <2>8. queued' = [queued EXCEPT ![Sink] = <<>>] /\ pending' = [pending EXCEPT ![Sink] = p \o <<t>>]
        /\ dataTokens' = dataTokens \o <<t>>
    BY <2>5, <2>7 DEF Submit
  <2>9. p \o <<t>> = Append(p, t)
    BY <1>1, OneToken
  <2>10. queued'[Sink] = <<>> /\ pending'[Sink] = Append(p, t) /\ dataTokens' = Append(p, t)
    BY <1>4, <2>8, <2>9, SinkTypes, TheSink
  <2>11. PICK xs : xs = [i \in 1 .. n |-> Transfer(q[i])]
    OBVIOUS
  <2>12. xs \in Seq(Transfers) /\ Len(xs) = 1 /\ xs[1].token = t
    <3>1. Transfer(t) \in Transfers /\ Transfer(t).token = t
      BY <1>1 DEF Transfer, Transfers
    <3>2. xs = [i \in 1 .. 1 |-> Transfer(q[i])]
      BY <2>6, <2>11
    <3>3. \A i \in 1 .. 1 : q[i] = t
      BY <2>3
    <3> QED
      BY <3>1, <3>2, <3>3
  <2>13. inFlight' = [inFlight EXCEPT ![x] = @ \o xs]
    BY <2>5, <2>6, <2>11 DEF Submitted
  <2>14. t \notin Out(hand, done, inFlight)
    <3>1. t \notin Range(p)
      BY <1>2, <2>1 DEF Range
    <3>2. t \notin Outstanding
      BY <1>1, <3>1, TheSink DEF IInv, Known
    <3>3. hand \in Hands
      BY TheSink DEF Hands, Got, Agents
    <3> QED
      BY <3>2, <3>3, OutstandingIs DEF Out
  <2>15. x \in Endpoints
    BY <2>6, TheSink DEF IInv, TypeOK
  <2>16. Line(Append(p, t), hand, done, [inFlight EXCEPT ![x] = @ \o xs], x)
    BY <1>1, <1>4, <2>12, <2>14, <2>15, UsbTypes, LineGrows
  <2>17. agent'[Sink].got = agent[Sink].got /\ agent'[Sink].pc # "cond"
    <3>1. agent' = IF agent[Sink].pc = "cond" THEN [agent EXCEPT ![Sink].pc = "run"] ELSE agent
      BY <2>5, <2>6 DEF Notified
    <3>2. /\ Sink \in Agents /\ agent \in [Agents -> AgentStates]
      BY TheSink, AgentsAre DEF Agents, IInv
    <3> QED
      BY <3>1, <3>2 DEF AgentStates
  <2>18. Got(Sink).token' = hand
    BY <2>17 DEF Got
  <2>19. Line(Append(p, t), hand, done', inFlight', transportID'[Sink])
    BY <1>5, <2>13, <2>16
  <2>20. InLine'
    BY <2>10, <2>18, <2>19 DEF InLine
  <2> QED
    BY <1>3, <2>10, <2>17, <2>20 DEF Kept, HeldIsSomewhere, Pauses
<1> QED
  BY <1>6, <1>7 DEF SubmitEventBuffer

\* The steps that leave the library alone or drift, and neither detach nor end.
LEMMA DriftKeepsHeld ==
  ASSUME Kept, DrainGetsAll, Drift, InLine', Pauses',
         agent[Sink].pc # "exited" \/ agent' = agent,
         app' # "detach" \/ UNCHANGED <<app, toSubmit>>
  PROVE  Kept' /\ DrainGetsAll'
<1>1. Held' = Held /\ Refused' = Refused
  BY DEF Drift, Held, Refused
<1>2. queued'[Sink] = <<>> /\ Everywhere' = Everywhere
  BY DEF Drift, Kept, HeldIsSomewhere
<1>3. HeldIsSomewhere'
  BY <1>1, <1>2 DEF Kept, HeldIsSomewhere
<1>4. DrainGetsAll'
  BY <1>1 DEF DrainGetsAll
<1> QED
  BY <1>3, <1>4 DEF Kept

LEMMA AppAttachDrains ==
  ASSUME IInv, IInv', CountInv, Running, Kept, AppAttach
  PROVE  DrainInv'
<1>1. /\ app = "attach" /\ app' \in {"start", "done"} /\ Everywhere = {}
      /\ \A b \in Buffers : holder[b] = CLIENT
  BY DEF AppAttach, GoesIfOk, CountInv, Sequence
<1>2. UNCHANGED <<queued, pending, dataTokens, holder>>
  BY DEF AppAttach, Attach
<1>3. pending[Sink] = <<>> /\ dataTokens = <<>>
  <2>1. Range(pending[Sink]) = {}
    BY <1>1 DEF Everywhere, Waiting
  <2> QED
    BY <2>1, SinkTypes, NoRange DEF Kept, InLine
<1>4. InLine' /\ Pauses'
  BY <1>2, <1>3, NothingPending
<1>5. HeldIsSomewhere'
  <2>1. Held' = {}
    BY <1>1, <1>2, TheSink DEF Held
  <2> QED
    BY <1>2, <2>1 DEF Kept, HeldIsSomewhere
<1> QED
  BY <1>1, <1>4, <1>5 DEF DrainInv, DrainGetsAll, Kept

LEMMA AppStartDrains ==
  ASSUME IInv, IInv', CountInv, Running, Kept, AppStart
  PROVE  DrainInv'
<1>1. /\ app = "start" /\ toSubmit' = toSubmit /\ toSubmit = Buffers /\ Everywhere = {}
      /\ \A b \in Buffers : holder[b] = CLIENT
  BY DEF AppStart, CountInv, Sequence
<1>2. holder' = holder
  BY DEF AppStart, Start
<1>3. pending[Sink] = <<>> /\ dataTokens = <<>> /\ queued[Sink] = <<>>
  <2>1. Range(pending[Sink]) = {}
    BY <1>1 DEF Everywhere, Waiting
  <2> QED
    BY <2>1, SinkTypes, NoRange DEF Kept, InLine, HeldIsSomewhere
<1>4. PICK n \in 0 .. Len(queued[Sink]) : Submit(Sink, queued[Sink], pending[Sink], dataTokens, n)
  BY DEF AppStart, Start
<1>5. n = 0
  BY <1>3
<1>6. /\ queued' = [queued EXCEPT ![Sink] = <<>>] /\ pending' = [pending EXCEPT ![Sink] = <<>>]
      /\ dataTokens' = <<>>
  <2>1. SubSeq(<<>>, 1, 0) = <<>> /\ SubSeq(<<>>, 0 + 1, Len(<<>>)) = <<>> /\ <<>> \o <<>> = <<>>
    OBVIOUS
  <2> QED
    BY <1>3, <1>4, <1>5, <2>1 DEF Submit
<1>7. queued'[Sink] = <<>> /\ pending'[Sink] = <<>>
  BY <1>6, SinkTypes, TheSink
<1>8. InLine' /\ Pauses'
  BY <1>6, <1>7, NothingPending
<1>9. Held' = {}
  BY <1>1, <1>2, TheSink DEF Held
<1> QED
  BY <1>1, <1>7, <1>8, <1>9, TheSink DEF DrainInv, DrainGetsAll, Kept, HeldIsSomewhere

\* A buffer is submitted, or refused.
LEMMA SubmissionDrains ==
  ASSUME IInv, CountInv, Running, Kept, NEW b \in Buffers, status[Sink] = "ACTIVE",
         SubmitEventBuffer(Sink, b), app' # "detach"
  PROVE  DrainInv'
<1>1. CASE result' = "ok"
  BY <1>1, SubmitKeeps DEF DrainInv, DrainGetsAll
<1>2. CASE result' = "error" /\ holder' = [holder EXCEPT ![b] = NULL]
  <2>1. Refused'
    BY <1>2, SinkTypes DEF Refused
  <2> QED
    BY <2>1 DEF DrainInv
<1> QED
  BY <1>1, <1>2, SubmitsBuffer

LEMMA AppSubmitDrains ==
  ASSUME IInv, CountInv, Running, Kept, AppSubmit \/ AppResubmits
  PROVE  DrainInv'
<1>1. CASE AppSubmit
  <2>1. PICK b \in toSubmit : SubmitEventBuffer(Sink, b)
    BY <1>1 DEF AppSubmit
  <2>2. app' # "detach" /\ status[Sink] = "ACTIVE" /\ b \in Buffers
    BY <1>1, <2>1 DEF AppSubmit, GoesIfOk, CountInv, CaptureTypeOK, Sequence
  <2> QED
    BY <2>1, <2>2, SubmissionDrains
<1>2. CASE AppResubmits
  <2>1. /\ completedBuf \in Buffers /\ SubmitEventBuffer(Sink, completedBuf)
        /\ app' # "detach" /\ status[Sink] = "ACTIVE"
    BY <1>2 DEF AppResubmits, GoesIfOk, CountInv, Sequence, Counts
  <2> PICK b \in Buffers : b = completedBuf
    BY <2>1
  <2> QED
    BY <2>1, SubmissionDrains
<1> QED
  BY <1>1, <1>2

LEMMA AppStopsDrains ==
  ASSUME IInv, CountInv, Running, Kept, AppStops
  PROVE  DrainInv'
<1>1. app' = "drain" /\ Stop(Sink)
  BY DEF AppStops, Goes
<1>2. /\ UNCHANGED <<holder, queued, pending>> /\ agent' = agent /\ Everywhere' = Everywhere
  BY <1>1, StopsSink
<1>3. inFlight' = Cancelled(inFlight) /\ UNCHANGED <<done, transportID, dataTokens>>
  BY <1>1 DEF Stop, CancelTransfers
<1>4. InLine' /\ Pauses'
  BY <1>2, <1>3, SameLine DEF Kept
<1>5. HeldIsSomewhere'
  BY <1>2 DEF Kept, HeldIsSomewhere, Held
<1> QED
  BY <1>1, <1>4, <1>5 DEF DrainInv, DrainGetsAll, Kept

\* A step that leaves the buffers and the transfers alone.
LEMMA QuietDrains ==
  ASSUME IInv, Kept, DrainGetsAll, UNCHANGED <<library, agent, holder, attaches, inFlight, done>>,
         app' # "detach" \/ UNCHANGED <<app, toSubmit>>
  PROVE  DrainInv'
<1>1. UNCHANGED <<status, queued, pending, eventBufs, completed, dataTokens, transportID>>
  BY DEF library
<1>2. Drift
  BY <1>1, NothingDrifts
<1>3. InLine' /\ Pauses'
  BY <1>1, SameLine DEF Kept
<1> QED
  BY <1>2, <1>3, DriftKeepsHeld DEF DrainInv

\* WaitForEvent returns a buffer.
LEMMA TakingDrains ==
  ASSUME IInv, CountInv, Running, ~Refused, Kept, app \in {"wait", "drain"},
         WaitForEvent(Sink), app' # "detach"
  PROVE  DrainInv'
<1>1. status[Sink] # "DETACHED" /\ \A u \in Everywhere : u.no = attaches[Sink]
  BY DEF CountInv, Sequence, Fresh
<1> PICK t : t = Head(completed[Sink])
  OBVIOUS
<1>2. /\ t \in Tokens /\ t \in Everywhere
      /\ \/ holder[t.buf] = Sink /\ holder' = [holder EXCEPT ![t.buf] = CLIENT]
         \/ holder[t.buf] = NULL /\ holder' = holder
      /\ agent' = agent /\ queued' = queued
      /\ Everywhere' \cup {t} = Everywhere
  BY <1>1, TakesEvent
<1>3. t.buf \in Buffers
  BY <1>2, SinkTypes
<1>4. holder[t.buf] = Sink /\ holder' = [holder EXCEPT ![t.buf] = CLIENT]
  BY <1>2, <1>3 DEF Refused
<1>5. Held' = Held \ {t.buf}
  BY <1>3, <1>4, HeldShrinks, SinkTypes
<1>6. HeldIsSomewhere'
  BY <1>2, <1>5 DEF Kept, HeldIsSomewhere
<1>7. UNCHANGED <<done, inFlight, transportID, pending, dataTokens>>
  BY DEF WaitForEvent, usb
<1>8. InLine' /\ Pauses'
  BY <1>2, <1>7, SameLine DEF Kept
<1> QED
  BY <1>6, <1>8 DEF DrainInv, DrainGetsAll, Kept

\* The wait ends with everything returned: nothing is counted as pending, or
\* nothing is on its way.
LEMMA NothingLeft ==
  ASSUME IInv, CountInv, ~Refused, Kept, app = "drain", agent[Sink].pc # "exited",
         pendingBuffers > 0 => completed[Sink] = <<>> /\ NothingComes
  PROVE  Held = {}
<1>1. pendingBuffers = Cardinality(Held) /\ Cardinality(Held) \in Nat
  BY HeldIsFinite DEF CountInv, Counts, PendingIsHeld
<1>2. CASE ~(pendingBuffers > 0)
  BY <1>1, <1>2, HeldIsFinite
<1>3. CASE completed[Sink] = <<>> /\ NothingComes
  <2>1. pending[Sink] = <<>>
    <3>1. CASE agent[Sink].pc = "cond"
      BY <3>1 DEF Kept, Pauses
    <3>2. CASE done = <<>> /\ InFlight = {} /\ agent[Sink].pc # "got"
      <4>1. Got(Sink).token = NULL /\ TokensIn(done) = {} /\ FlightTokens(inFlight) = {}
        BY <3>2, UsbTypes, OutstandingIs DEF TokensIn
      <4>2. Range(pending[Sink]) \subseteq {NULL}
        BY <4>1 DEF Kept, InLine, Line, Out
      <4>3. Range(pending[Sink]) = {}
        BY <4>2, SinkTypes, RangesAre, ControlsAreOther
      <4> QED
        BY <4>3, SinkTypes, NoRange
    <3> QED
      BY <1>3, <3>1, <3>2 DEF NothingComes
  <2>2. eventBufs[Sink] = <<>> /\ queued[Sink] = <<>>
    BY DEF CountInv, Sequence, Kept, HeldIsSomewhere
  <2>3. Everywhere = {}
    BY <1>3, <2>1, <2>2, EmptyQueue DEF Everywhere, Waiting
  <2> QED
    BY <2>3 DEF Kept, HeldIsSomewhere
<1> QED
  BY <1>2, <1>3

LEMMA AppDrainsDrains ==
  ASSUME IInv, CountInv, Running, ~Refused, Kept, AppDrains
  PROVE  DrainInv'
<1>1. app = "drain" /\ toSubmit' = toSubmit
  BY DEF AppDrains
<1>2. CASE WaitForEvent(Sink) /\ app' = "drain"
  BY <1>1, <1>2, TakingDrains
<1>3. CASE /\ pendingBuffers > 0 => completed[Sink] = <<>> /\ NothingComes
           /\ app' = "detach" /\ UNCHANGED libraryVars
  <2>1. UNCHANGED <<library, agent, holder, attaches, inFlight, done>>
    BY <1>3 DEF libraryVars, client, usb
  <2>2. DrainGetsAll'
    <3> SUFFICES ASSUME agent'[Sink].pc # "exited" PROVE Held' = {}
      BY DEF DrainGetsAll
    <3>1. Held = {}
      BY <1>1, <1>3, <2>1, NothingLeft
    <3> QED
      BY <2>1, <3>1 DEF Held
  <2>3. UNCHANGED <<status, queued, pending, eventBufs, completed, dataTokens, transportID>>
    BY <2>1 DEF library
  <2>4. HeldIsSomewhere'
    BY <2>1, <2>3 DEF Kept, HeldIsSomewhere, Held, Everywhere, Waiting
  <2>5. InLine' /\ Pauses'
    BY <2>1, <2>3, SameLine DEF Kept
  <2> QED
    BY <2>2, <2>4, <2>5 DEF DrainInv, Kept
<1> QED
  BY <1>2, <1>3 DEF AppDrains, Goes

\* The data thread and the device.
LEMMA OthersDrain ==
  ASSUME IInv, Kept, DrainGetsAll, DataThread(Sink) \/ Device, UNCHANGED appVars
  PROVE  DrainInv'
<1>1. UNCHANGED <<app, toSubmit>>
  BY DEF appVars
<1>2. CASE DataThread(Sink)
  BY <1>1, <1>2, ThreadDrifts, ThreadKeepsLine, DriftKeepsHeld DEF Kept, HeldIsSomewhere, DrainInv
<1>3. CASE Device
  <2>1. agent' = agent
    BY <1>3 DEF Device, DataArrives, MessageArrives, CancelCompletes, TransferFails, Completes
  <2> QED
    BY <1>1, <1>3, <2>1, DeviceDrifts, DeviceKeepsLine, DriftKeepsHeld DEF Kept, DrainInv
<1> QED
  BY <1>2, <1>3

\* A submission that failed is not forgotten before Detach.
LEMMA RefusedBefore ==
  ASSUME IInv, CountInv, Running', ~Refused', [CaptureNext]_captureVars
  PROVE  Running /\ ~Refused
<1>1. holder' = holder => Refused' = Refused
  BY DEF Refused
<1>2. CASE app \in {"attach", "start", "submit", "loop", "wait", "resubmit"}
  <2>1. app \in {"attach", "start", "submit"} => \A b \in Buffers : holder[b] \in {CLIENT, Sink}
    BY <1>2 DEF CountInv, Sequence, Counts
  <2>2. ~Refused
    BY <1>2, <2>1, TheSink, AgentsAre DEF CountInv, Counts, Refused
  <2> QED
    BY <1>2, <2>2 DEF Running
<1>3. CASE AppStops \/ AppAborts
  <2>1. app \in {"stop", "abort"} /\ Stop(Sink)
    BY <1>3 DEF AppStops, AppAborts
  <2> QED
    BY <1>1, <2>1 DEF Stop, Running
<1>4. CASE AppDrains
  <2>1. app = "drain"
    BY <1>4 DEF AppDrains
  <2>2. CASE WaitForEvent(Sink)
    BY <2>1, <2>2, OneReturned DEF Running
  <2>3. CASE UNCHANGED libraryVars
    BY <1>1, <2>1, <2>3 DEF libraryVars, client, Running
  <2> QED
    BY <1>4, <2>2, <2>3 DEF AppDrains
<1>5. CASE App /\ ~(AppStops \/ AppAborts \/ AppDrains)
  <2>1. app \in {"attach", "start", "submit", "loop", "wait", "resubmit"} \/ AppDetaches \/ AppEnds
    BY <1>5 DEF App, AppAttach, AppStart, AppSubmit, AppLoops, AppReceives, AppTimesOut,
                AppResubmits
  <2> QED
    BY <1>2, <2>1 DEF AppDetaches, AppEnds, Goes, Running
<1>6. CASE Detaching
  BY <1>6, DetachingCounts DEF Detaching, appVars, Running
<1>7. CASE \/ DataThreadOf \/ DeviceSteps \/ Signal \/ TimePasses \/ UNCHANGED captureVars
  <2>1. holder' = holder
    <3>1. CASE DataThreadOf \/ DeviceSteps
      BY <3>1, ThreadDrifts, DeviceDrifts DEF DataThreadOf, DeviceSteps, Drift
    <3>2. CASE Signal \/ TimePasses \/ UNCHANGED captureVars
      BY <3>2 DEF Signal, TimePasses, captureVars, libraryVars, client
    <3> QED
      BY <1>7, <3>1, <3>2
  <2>2. app' = app
    BY <1>7 DEF DataThreadOf, DeviceSteps, Signal, TimePasses, captureVars, appVars
  <2> QED
    BY <1>1, <2>1, <2>2 DEF Running
<1> QED
  BY <1>3, <1>4, <1>5, <1>6, <1>7 DEF CaptureNext

LEMMA DrainStep ==
  ASSUME IInv, IInv', CountInv, DrainInv, [CaptureNext]_captureVars
  PROVE  DrainInv'
<1> SUFFICES ASSUME Running', ~Refused' PROVE DrainInv'
  BY DEF DrainInv
<1>1. Running /\ ~Refused
  BY RefusedBefore
<1>2. Kept /\ DrainGetsAll
  BY <1>1 DEF DrainInv
<1>3. CASE App
  <2>1. CASE AppAttach \/ AppStart \/ AppSubmit \/ AppResubmits \/ AppStops \/ AppDrains
    BY <1>1, <1>2, <2>1, AppAttachDrains, AppStartDrains, AppSubmitDrains, AppStopsDrains,
       AppDrainsDrains
  <2>2. ~AppAborts
    BY <1>1 DEF AppAborts, CountInv, Counts
  <2>3. CASE AppReceives
    <3>1. app = "wait" /\ WaitForEvent(Sink) /\ app' # "detach"
      BY <2>3 DEF AppReceives, Goes
    <3> QED
      BY <1>1, <1>2, <3>1, TakingDrains
  <2>4. CASE AppLoops \/ AppTimesOut
    <3>1. app' # "detach" /\ UNCHANGED <<library, agent, holder, attaches, inFlight, done>>
      BY <2>4 DEF AppLoops, AppTimesOut, Flush, Goes, libraryVars, client, usb
    <3> QED
      BY <1>2, <3>1, QuietDrains
  <2>5. ~(AppDetaches \/ AppEnds)
    BY DEF AppDetaches, AppEnds, Goes, Running
  <2> QED
    BY <1>3, <2>1, <2>2, <2>3, <2>4, <2>5 DEF App
<1>4. ~Detaching
  BY <1>1, DetachingCounts DEF Detaching, Running
<1>5. CASE DataThreadOf \/ DeviceSteps
  BY <1>2, <1>5, OthersDrain DEF DataThreadOf, DeviceSteps
<1>6. CASE Signal \/ TimePasses \/ UNCHANGED captureVars
  <2>1. /\ UNCHANGED <<library, agent, holder, attaches, inFlight, done>>
        /\ UNCHANGED <<app, toSubmit>>
    BY <1>6 DEF Signal, TimePasses, captureVars, libraryVars, client, usb, appVars
  <2> QED
    BY <1>2, <2>1, QuietDrains
<1> QED
  BY <1>3, <1>4, <1>5, <1>6 DEF CaptureNext

LEMMA DrainInit == CaptureInit => DrainInv
<1> SUFFICES ASSUME CaptureInit PROVE DrainInv
  OBVIOUS
<1>1. /\ queued[Sink] = <<>> /\ pending[Sink] = <<>> /\ dataTokens = <<>>
      /\ done = <<>> /\ agent[Sink] = Idle /\ \A e \in DOMAIN inFlight : inFlight[e] = <<>>
      /\ \A b \in Buffers : holder[b] = CLIENT
  BY TheSink DEF CaptureInit, Init, Agents
<1>2. Held = {}
  BY <1>1, TheSink DEF Held
<1>3. Got(Sink).token = NULL
  BY <1>1 DEF Got, Idle, Nothing
<1>4. TokensIn(<<>>) = {}
  BY DEF TokensIn
<1>5. TokensIn(done) = {} /\ FlightTokens(inFlight) = {}
  BY <1>1, <1>4, FlightTokensAre
<1>6. Out(Got(Sink).token, done, inFlight) \cap Tokens = {}
  BY <1>3, <1>5, ControlsAreOther DEF Out
<1>7. InLine
  BY <1>1, <1>6, LineEmpty DEF InLine
<1> QED
  BY <1>1, <1>2, <1>7 DEF DrainInv, Kept, HeldIsSomewhere, Pauses, DrainGetsAll

\* Whatever order events and cancelled transfers come in, the application detaches
\* with every buffer returned: the wait behind Stop ends early only when the
\* library has no buffer left to return.
THEOREM DrainGetsAllAlways == CaptureSpec => []DrainGetsAll
<1>1. IInv /\ CountInv /\ DrainInv /\ [CaptureNext]_captureVars => (IInv /\ CountInv /\ DrainInv)'
  <2> SUFFICES ASSUME IInv, CountInv, DrainInv, [CaptureNext]_captureVars
               PROVE  (IInv /\ CountInv /\ DrainInv)'
    OBVIOUS
  <2>1. IInv' /\ CountInv'
    BY CountStep, CaptureStepIsLibraryStep, StepKeeps, TheSink
  <2> QED
    BY <2>1, DrainStep
<1>2. CaptureInit => IInv /\ CountInv /\ DrainInv
  BY CountInit, DrainInit
<1>3. CountInv /\ DrainInv => DrainGetsAll
  BY DEF DrainInv, DrainGetsAll, Running
<1> QED
  BY <1>1, <1>2, <1>3, PTL DEF CaptureSpec

=============================================================================
