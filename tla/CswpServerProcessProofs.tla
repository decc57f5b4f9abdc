---------------------- MODULE CswpServerProcessProofs -----------------------
(***************************************************************************)
(* Proofs about CswpServerProcess, for every number of loops and           *)
(* connections and over both transports.                                   *)
(***************************************************************************)
EXTENDS CswpServerProcess, TLAPS

-----------------------------------------------------------------------------
(* Types *)

\* The client's batch carries the number of a connection there is.
TypeInv ==
  /\ TypeOK
  /\ link # "down" => conn > 0

Event == {"BIND", "UNBIND", "ENABLE", "DISABLE"}

\* A step of a command loop changes that loop, and keeps its locals in type
\* if the record it is left with is.
LEMMA LocalsTyped ==
  ASSUME NEW t \in Loops, NEW new, TypeOK, loop' = [loop EXCEPT ![t] = new],
         new \in Locals, new.pc \in {"none", "exited"} => new.session = NULL
  PROVE  /\ loop' \in [Loops -> Locals]
         /\ \A u \in Loops : loop'[u].pc \in {"none", "exited"} => loop'[u].session = NULL
BY DEF TypeOK

LEMMA SessionTyped ==
  ASSUME NEW t \in Loops, TypeOK
  PROVE  SessionAfter(loop[t].cmd, loop[t].session) \in 1 .. MaxConns \cup {NULL}
<1>1. loop[t].cmd \in Batches \cup {NULL} /\ loop[t].session \in 1 .. MaxConns \cup {NULL}
  BY DEF TypeOK, Locals
<1>2. CASE loop[t].cmd = NULL
  BY <1>1, <1>2 DEF SessionAfter
<1>3. CASE loop[t].cmd # NULL
  <2>1. loop[t].cmd.kind \in {"init", "access", "term"} /\ loop[t].cmd.conn \in 1 .. MaxConns
    BY <1>1, <1>3 DEF Batches
  <2> QED
    BY <1>1, <1>3, <2>1 DEF SessionAfter
<1> QED
  BY <1>2, <1>3

\* StartLoop takes the next loop, with a command buffer of the right type.
LEMMA StartLoopTyped ==
  ASSUME TypeOK, StartLoop
  PROVE  /\ started' \in 0 .. MaxLoops
         /\ loop' \in [Loops -> Locals]
         /\ \A u \in Loops : loop'[u].pc \in {"none", "exited"} => loop'[u].session = NULL
         /\ started' = started + 1 /\ started' \in Loops
         /\ loop'[started'].pc = "top" /\ loop'[started'].runs = 0
         /\ \A u \in Loops : u # started' => loop'[u] = loop[u]
<1>1. started \in Nat /\ started + 1 \in Loops /\ started' = started + 1
  BY ProcessAssumption DEF TypeOK, StartLoop, Loops
<1>2. PICK cmd \in Leftover :
        loop' = [loop EXCEPT ![started + 1] =
                   [pc |-> "top", cmd |-> cmd, fresh |-> FALSE, runs |-> 0, session |-> NULL]]
  BY DEF StartLoop
<1>3. cmd \in Batches \cup {NULL}
  BY <1>1, ProcessAssumption DEF Leftover, TypeOK, Locals, Loops
<1>4. [pc |-> "top", cmd |-> cmd, fresh |-> FALSE, runs |-> 0, session |-> NULL] \in Locals
  BY <1>3 DEF Locals, RunsCounted
<1>5. /\ loop' \in [Loops -> Locals]
      /\ \A u \in Loops : loop'[u].pc \in {"none", "exited"} => loop'[u].session = NULL
  BY <1>1, <1>2, <1>4, LocalsTyped
<1> QED
  BY <1>1, <1>2, <1>5 DEF TypeOK, Loops

LEMMA LoopTyped ==
  ASSUME TypeOK, NEW t \in Loops, Loop(t)
  PROVE  /\ loop' \in [Loops -> Locals]
         /\ \A u \in Loops : loop'[u].pc \in {"none", "exited"} => loop'[u].session = NULL
<1> DEFINE Typed == /\ loop' \in [Loops -> Locals]
                    /\ \A u \in Loops :
                         loop'[u].pc \in {"none", "exited"} => loop'[u].session = NULL
<1>1. loop[t] \in Locals /\ loop \in [Loops -> Locals]
  BY DEF TypeOK
<1>2. ASSUME NEW pc \in {"top", "read", "execute", "write"}, Goto(t, pc)
      PROVE  Typed
  <2>1. [loop[t] EXCEPT !.pc = pc] \in Locals
    BY <1>1 DEF Locals
  <2> QED
    BY <1>1, <1>2, <2>1, LocalsTyped DEF Goto, Locals
<1>3. ASSUME EndLoop(t)
      PROVE  Typed
  <2> DEFINE new == [loop[t] EXCEPT !.pc = "exited", !.session = NULL]
  <2>1. new \in Locals /\ new.session = NULL
    BY <1>1 DEF Locals
  <2>2. loop' = [loop EXCEPT ![t] = new]
    BY <1>1, <1>3 DEF EndLoop, Locals
  <2> QED
    BY <2>1, <2>2, LocalsTyped
<1>4. ASSUME NEW cmd \in Batches \cup {NULL}, NEW fresh \in BOOLEAN,
             loop' = [loop EXCEPT ![t].pc = "execute", ![t].cmd = cmd,
                                  ![t].fresh = fresh, ![t].runs = 0]
      PROVE  Typed
  <2> DEFINE new == [loop[t] EXCEPT !.pc = "execute", !.cmd = cmd, !.fresh = fresh, !.runs = 0]
  <2>1. new \in Locals /\ new.pc = "execute"
    <3>1. cmd \in Batches \cup {NULL} /\ fresh \in BOOLEAN /\ 0 \in 0 .. RunsCounted
      BY <1>4 DEF RunsCounted
    <3> QED
      BY <1>1, <3>1 DEF Locals
  <2>2. loop' = [loop EXCEPT ![t] = new]
    BY <1>1, <1>4 DEF Locals
  <2> QED
    BY <2>1, <2>2, LocalsTyped
<1>5. CASE Top(t)
  BY <1>2, <1>3, <1>5 DEF Top
<1>6. CASE ReadBatch(t)
  BY <1>4, <1>6 DEF ReadBatch, TypeOK
<1>7. CASE ReadShutdown(t)
  BY <1>2, <1>7 DEF ReadShutdown
<1>8. CASE ReadEof(t)
  BY <1>3, <1>8 DEF ReadEof
<1>9. CASE ReadFails(t)
  <2>1. CASE loop' = [loop EXCEPT ![t].pc = "execute", ![t].fresh = FALSE]
    <3> DEFINE new == [loop[t] EXCEPT !.pc = "execute", !.fresh = FALSE]
    <3>1. new \in Locals /\ new.pc = "execute"
      BY <1>1 DEF Locals
    <3>2. loop' = [loop EXCEPT ![t] = new]
      BY <1>1, <2>1 DEF Locals
    <3> QED
      BY <3>1, <3>2, LocalsTyped
  <2> QED
    BY <1>4, <1>9, <2>1 DEF ReadFails, TypeOK
<1>10. CASE Execute(t)
  <2> DEFINE runs    == Counted(loop[t].runs)
             session == SessionAfter(loop[t].cmd, loop[t].session)
             new     == [loop[t] EXCEPT !.pc = "write", !.runs = runs, !.session = session]
  <2>1. runs \in 0 .. RunsCounted
    BY <1>1 DEF Locals, Counted, RunsCounted
  <2>2. session \in 1 .. MaxConns \cup {NULL}
    BY SessionTyped
  <2>3. loop' = [loop EXCEPT ![t] = new]
    BY <1>1, <1>10 DEF Execute, Locals
  <2> HIDE DEF runs, session
  <2>4. new \in Locals /\ new.pc = "write"
    BY <1>1, <2>1, <2>2 DEF Locals
  <2> QED
    BY <2>3, <2>4, LocalsTyped
<1>11. CASE WriteReply(t)
  BY <1>2, <1>11 DEF WriteReply
<1>12. CASE WriteFails(t)
  BY <1>3, <1>12 DEF WriteFails
<1> QED
  BY <1>5, <1>6, <1>7, <1>8, <1>9, <1>10, <1>11, <1>12 DEF Loop

LEMMA TypeStep == TypeInv /\ [Next]_vars => TypeInv'
<1> SUFFICES ASSUME TypeInv, [Next]_vars PROVE TypeInv'
  OBVIOUS
<1> USE ProcessAssumption
<1>1. CASE Client
  <2>1. ASSUME NEW kind \in {"init", "access", "term"}, Send(kind)
        PROVE  TypeInv'
    <3>1. sent' \in Batches
      BY <2>1 DEF Send, TypeInv, TypeOK, Batches
    <3> QED
      BY <2>1, <3>1 DEF Send, TypeInv, TypeOK, process
  <2>2. ASSUME NEW e \in Event, events' = Append(events, e)
        PROVE  events' \in Seq(Event)
    BY <2>2 DEF TypeInv, TypeOK, Event
  <2>3. CASE Bind
    <3>1. events' \in Seq(Event)
      BY <2>2, <2>3 DEF Bind, Event
    <3> QED
      BY <2>3, <3>1 DEF Bind, TypeInv, TypeOK, process, Event
  <2>4. CASE Enable
    <3>1. events' \in Seq(Event)
      BY <2>2, <2>4 DEF Enable, Event
    <3> QED
      BY <2>4, <3>1 DEF Enable, TypeInv, TypeOK, process, Event
  <2>5. CASE Disable
    <3>1. events' \in Seq(Event)
      BY <2>2, <2>5 DEF Disable, Event
    <3> QED
      BY <2>5, <3>1 DEF Disable, TypeInv, TypeOK, process, Event
  <2>6. CASE Unbind
    <3>1. events' \in Seq(Event)
      BY <2>2, <2>6 DEF Unbind, Event
    <3> QED
      BY <2>6, <3>1 DEF Unbind, TypeInv, TypeOK, process, Event
  <2>7. CASE HangUp
    BY <2>7 DEF HangUp, TypeInv, TypeOK, process
  <2> QED
    BY <1>1, <2>1, <2>3, <2>4, <2>5, <2>6, <2>7 DEF Client
<1>2. CASE HandleEvent
  <2>1. events' \in Seq({"BIND", "UNBIND", "ENABLE", "DISABLE"}) /\ transport = "usb"
    BY <1>2 DEF HandleEvent, TypeInv, TypeOK
  <2>2. CASE UNCHANGED <<process, loop>>
    BY <1>2, <2>1, <2>2 DEF HandleEvent, TypeInv, TypeOK, process
  <2>3. CASE active = 0 /\ StartThread
    BY <1>2, <2>1, <2>3, StartLoopTyped DEF HandleEvent, StartThread, TypeInv, TypeOK
  <2>4. CASE active = 1 /\ StopThread
    BY <1>2, <2>1, <2>4 DEF HandleEvent, StopThread, TypeInv, TypeOK
  <2> QED
    BY <1>2, <2>2, <2>3, <2>4 DEF HandleEvent, StartThread, StopThread
<1>3. CASE CloseIn
  BY <1>3 DEF CloseIn, TypeInv, TypeOK, connection
<1>4. CASE Join
  BY <1>4 DEF Join, TypeInv, TypeOK, connection
<1>5. CASE Served
  BY <1>5 DEF Served, TypeInv, TypeOK
<1>6. CASE Accept
  BY <1>6, StartLoopTyped DEF Accept, Serve, TypeInv, TypeOK
<1>7. CASE AcceptTimesOut
  BY <1>7, StartLoopTyped DEF AcceptTimesOut, Serve, TypeInv, TypeOK, connection
<1>8. ASSUME NEW t \in Loops, Loop(t)
      PROVE  TypeInv'
  <2>1. loop' \in [Loops -> Locals]
        /\ \A u \in Loops : loop'[u].pc \in {"none", "exited"} => loop'[u].session = NULL
    BY <1>8, LoopTyped DEF TypeInv
  <2>2. CASE UNCHANGED <<transport, connection, process>>
    BY <2>1, <2>2 DEF TypeInv, TypeOK, connection, process
  <2>3. CASE ReadBatch(t)
    BY <2>1, <2>3 DEF ReadBatch, TypeInv, TypeOK, process
  <2>4. CASE WriteReply(t)
    BY <2>1, <2>4 DEF WriteReply, TypeInv, TypeOK, process
  <2> QED
    BY <1>8, <2>2, <2>3, <2>4
    DEF Loop, Top, ReadShutdown, ReadEof, ReadFails, Execute, WriteFails
<1>9. CASE UNCHANGED vars
  BY <1>9 DEF vars, TypeInv, TypeOK, connection, process
<1> QED
  BY <1>1, <1>2, <1>3, <1>4, <1>5, <1>6, <1>7, <1>8, <1>9 DEF Next, MainThread

\* CswpServerProcess keeps its state in type.
THEOREM ProcessTypeCorrect == Spec => []TypeOK
<1>1. Init => TypeInv
  <2> SUFFICES ASSUME Init PROVE TypeInv
    OBVIOUS
  <2>1. [pc |-> "none", cmd |-> NULL, fresh |-> FALSE, runs |-> 0, session |-> NULL] \in Locals
    BY DEF Locals, RunsCounted
  <2>2. loop \in [Loops -> Locals] /\ \A t \in Loops : loop[t].session = NULL
    BY <2>1 DEF Init
  <2>3. events \in Seq({"BIND", "UNBIND", "ENABLE", "DISABLE"})
    BY DEF Init
  <2>4. main \in IF transport = "usb" THEN {"events", "closing", "joining"}
                                     ELSE {"accept", "serving"}
    BY DEF Init
  <2>5. /\ link \in {"up", "down"} \cup (IF transport = "tcp" THEN {"eof", "reset"} ELSE {})
        /\ conn \in 0 .. MaxConns /\ started \in 0 .. MaxLoops /\ active \in {0, 1}
    BY ProcessAssumption DEF Init
  <2>6. /\ transport \in {"usb", "tcp"}
        /\ sent \in Batches \cup {NULL}
        /\ waiting \in BOOLEAN /\ bound \in BOOLEAN
        /\ outOpen \in BOOLEAN /\ inOpen \in BOOLEAN
        /\ link = "down"
    BY DEF Init
  <2> QED
    BY <2>2, <2>3, <2>4, <2>5, <2>6 DEF TypeInv, TypeOK
<1>2. TypeInv => TypeOK
  BY DEF TypeInv
<1> QED
  BY <1>1, <1>2, TypeStep, PTL DEF Spec

-----------------------------------------------------------------------------
(* One command loop *)

\* Whoever runs is the loop that was started last, and the main thread knows
\* of it: it goes back to accept or, over USB, starts a thread only with no
\* loop left.  With an event waiting both endpoints of an active server are open.
OneLoopInv ==
  /\ OneLoop
  /\ \A t \in Loops : t > started => loop[t].pc = "none"
  /\ active = 1 => started > 0
  /\ main \in {"closing", "joining", "serving"} => active = 1
  /\ main = "accept" => active = 0
  /\ main = "events" /\ active = 1 => outOpen /\ inOpen

\* A loop's step leaves the other loops alone, and the main thread's variables.
LEMMA LoopFrame ==
  ASSUME TypeOK, NEW t \in Loops, Loop(t)
  PROVE  /\ Running(t)
         /\ UNCHANGED <<transport, process>>
         /\ loop' \in [Loops -> Locals]
         /\ \A u \in Loops : u # t => loop'[u] = loop[u]
<1>1. loop' \in [Loops -> Locals]
  BY LoopTyped
<1>2. Running(t)
  BY DEF Loop, Top, ReadBatch, ReadShutdown, ReadEof, ReadFails, Execute, WriteReply, WriteFails,
         AtPc, Running
<1>3. UNCHANGED <<transport, process>>
  BY DEF Loop, Top, ReadBatch, ReadShutdown, ReadEof, ReadFails, Execute, WriteReply, WriteFails
<1>4. \A u \in Loops : u # t => loop'[u] = loop[u]
  BY DEF TypeOK, Loop, Top, ReadBatch, ReadShutdown, ReadEof, ReadFails, Execute, WriteReply,
         WriteFails, Goto, EndLoop
<1> QED
  BY <1>1, <1>2, <1>3, <1>4

\* Between two events of the main thread's own, nothing of its state changes.
LEMMA ClientFrame ==
  ASSUME Client
  PROVE  UNCHANGED <<transport, process, loop>>
BY DEF Client, Bind, Enable, Disable, Unbind, HangUp, Send

LEMMA OneLoopStep == TypeOK /\ OneLoopInv /\ [Next]_vars => OneLoopInv'
<1> SUFFICES ASSUME TypeOK, OneLoopInv, [Next]_vars PROVE OneLoopInv'
  OBVIOUS
<1>0. started \in Nat /\ Loops \subseteq Nat /\ active \in {0, 1}
  BY DEF TypeOK, Loops
<1>1. CASE UNCHANGED <<transport, process, loop>>
  BY <1>1 DEF OneLoopInv, OneLoop, Running, process
<1>2. CASE HandleEvent
  <2>1. CASE active = 0 /\ StartThread
    <3>1. \A u \in Loops : ~Running(u)
      BY <1>0, <2>1 DEF OneLoopInv, OneLoop
    <3> QED
      BY <1>0, <1>2, <2>1, <3>1, StartLoopTyped
      DEF HandleEvent, StartThread, OneLoopInv, OneLoop, Running
  <2>2. CASE active = 1 /\ StopThread
    BY <1>0, <1>2, <2>2 DEF HandleEvent, StopThread, OneLoopInv, OneLoop, Running
  <2> QED
    BY <1>1, <1>2, <2>1, <2>2 DEF HandleEvent, StartThread, StopThread
<1>3. CASE CloseIn
  BY <1>3 DEF CloseIn, OneLoopInv, OneLoop, Running
<1>4. CASE Join
  <2>1. \A u \in Loops : ~Running(u)
    BY <1>4 DEF Join, ThreadJoined, OneLoopInv, OneLoop, Running
  <2> QED
    BY <1>4, <2>1 DEF Join, OneLoopInv, OneLoop, Running
<1>5. CASE Served
  <2>1. \A u \in Loops : ~Running(u)
    BY <1>5 DEF Served, OneLoopInv, OneLoop, Running
  <2> QED
    BY <1>5, <2>1 DEF Served, OneLoopInv, OneLoop, Running
<1>6. CASE Accept \/ AcceptTimesOut
  <2>1. main = "accept" /\ main' = "serving" /\ active' = 1 /\ StartLoop
        /\ transport = "tcp" /\ transport' = "tcp"
    BY <1>6 DEF Accept, AcceptTimesOut, Serve
  <2>2. \A u \in Loops : ~Running(u)
    BY <1>0, <2>1 DEF OneLoopInv, OneLoop
  <2> QED
    BY <1>0, <2>1, <2>2, StartLoopTyped DEF OneLoopInv, OneLoop, Running
<1>7. ASSUME NEW t \in Loops, Loop(t)
      PROVE  OneLoopInv'
  <2>1. /\ Running(t) /\ UNCHANGED <<transport, process>>
        /\ \A u \in Loops : u # t => loop'[u] = loop[u]
    BY <1>7, LoopFrame
  <2>2. t = started /\ active = 1
    BY <2>1 DEF OneLoopInv, OneLoop
  <2> QED
    BY <1>0, <2>1, <2>2 DEF OneLoopInv, OneLoop, Running, process
<1>8. CASE UNCHANGED vars
  BY <1>1, <1>8 DEF vars, process
<1> QED
  BY <1>1, <1>2, <1>3, <1>4, <1>5, <1>6, <1>7, <1>8, ClientFrame DEF Next, MainThread

\* There is one command loop at a time, and its endpoints stay its own.
THEOREM OneLoopHolds == Spec => []OneLoop
<1>1. Init => OneLoopInv
  BY ProcessAssumption DEF Init, OneLoopInv, OneLoop, Running
<1>2. OneLoopInv => OneLoop
  BY DEF OneLoopInv
<1> QED
  BY <1>1, <1>2, OneLoopStep, ProcessTypeCorrect, PTL DEF Spec

-----------------------------------------------------------------------------
(* What a batch that is executed again says about the connection *)

Gone == IF transport = "usb" THEN ~outOpen ELSE link # "up"

\* The decision to execute a batch again is taken when read_msg fails, before
\* the count goes up.
NoReplayInv ==
  \A t \in Loops : Running(t) =>
    /\ AtPc(t, "execute") /\ loop[t].runs > 0 => Gone
    /\ loop[t].runs > 1 => Gone

LEMMA NoReplayStep == TypeOK /\ OneLoopInv /\ NoReplayInv /\ [Next]_vars => NoReplayInv'
<1> SUFFICES ASSUME TypeOK, OneLoopInv, NoReplayInv, [Next]_vars PROVE NoReplayInv'
  OBVIOUS
<1>0. /\ loop \in [Loops -> Locals] /\ active \in {0, 1}
      /\ \A t \in Loops : Running(t) => t = started /\ active = 1
  BY DEF TypeOK, OneLoopInv, OneLoop
\* The new loop has executed nothing.
<1>1. ASSUME active = 0, StartLoop
      PROVE  NoReplayInv'
  <2>1. \A u \in Loops : ~Running(u)
    BY <1>0, <1>1
  <2> QED
    BY <1>1, <2>1, StartLoopTyped DEF NoReplayInv, Running, AtPc
<1>2. ASSUME UNCHANGED loop, Gone => Gone'
      PROVE  NoReplayInv'
  BY <1>2 DEF NoReplayInv, Running, AtPc
<1>3. CASE Client
  <2>1. UNCHANGED loop
    BY <1>3, ClientFrame
  <2>2. Gone => Gone'
    BY <1>3 DEF Client, Bind, Enable, Disable, Unbind, HangUp, Send, Gone, process
  <2> QED
    BY <1>2, <2>1, <2>2
<1>4. CASE HandleEvent
  <2>1. CASE active = 0 /\ StartThread
    BY <1>1, <2>1 DEF StartThread
  <2>2. CASE active = 1 /\ StopThread
    BY <1>2, <1>4, <2>2 DEF HandleEvent, StopThread, Gone
  <2>3. CASE UNCHANGED <<process, loop>>
    BY <1>2, <1>4, <2>3 DEF HandleEvent, Gone, process
  <2> QED
    BY <1>4, <2>1, <2>2, <2>3 DEF HandleEvent, StartThread, StopThread
<1>5. CASE CloseIn \/ Join \/ Served
  BY <1>2, <1>5 DEF CloseIn, Join, Served, Gone, connection
<1>6. CASE Accept \/ AcceptTimesOut
  BY <1>1, <1>6 DEF Accept, AcceptTimesOut, Serve, OneLoopInv
<1>7. ASSUME NEW t \in Loops, Loop(t)
      PROVE  NoReplayInv'
  <2>1. /\ Running(t) /\ UNCHANGED <<transport, process>>
        /\ loop' \in [Loops -> Locals]
        /\ \A u \in Loops : u # t => loop'[u] = loop[u]
    BY <1>7, LoopFrame
  <2>2. \A u \in Loops : u # t => ~Running(u)'
    BY <1>0, <2>1 DEF Running
  <2>3. Gone => Gone'
    BY <1>7 DEF Loop, Top, ReadBatch, ReadShutdown, ReadEof, ReadFails, Execute, WriteReply,
                WriteFails, Gone, connection, process
  <2>4. loop[t] \in Locals /\ loop'[t] \in Locals
    BY <1>0, <2>1
  <2>5. SUFFICES /\ loop'[t].pc = "execute" /\ loop'[t].runs > 0 => Gone'
                 /\ Running(t)' /\ loop'[t].runs > 1 => Gone'
    BY <2>2 DEF NoReplayInv, AtPc
  <2>6. ASSUME loop'[t].pc # "execute", loop'[t].runs = loop[t].runs
        PROVE  Running(t)' /\ loop'[t].runs > 1 => Gone'
    BY <2>1, <2>3, <2>6 DEF NoReplayInv
  <2>7. CASE Top(t) \/ ReadShutdown(t) \/ ReadEof(t) \/ WriteReply(t) \/ WriteFails(t)
    BY <1>0, <2>6, <2>7
    DEF Top, ReadShutdown, ReadEof, WriteReply, WriteFails, Goto, EndLoop, Locals
  <2>8. CASE ReadBatch(t)
    BY <1>0, <2>8 DEF ReadBatch, Locals
  <2>9. CASE ReadFails(t)
    BY <2>9 DEF ReadFails, Gone, connection, process
  <2>10. CASE Execute(t)
    <3>1. loop'[t].pc = "write" /\ loop'[t].runs = Counted(loop[t].runs)
      BY <1>0, <2>10 DEF Execute, Locals
    <3>2. loop'[t].runs > 1 => loop[t].runs > 0
      BY <2>4, <3>1 DEF Counted, RunsCounted, Locals
    <3> QED
      BY <2>1, <2>3, <2>10, <3>1, <3>2 DEF Execute, NoReplayInv
  <2> QED
    BY <1>7, <2>7, <2>8, <2>9, <2>10 DEF Loop
<1>8. CASE UNCHANGED vars
  BY <1>2, <1>8 DEF vars, Gone
<1> QED
  BY <1>3, <1>4, <1>5, <1>6, <1>7, <1>8 DEF Next, MainThread

\* No loop executes a batch again while its connection is there: only one that
\* has lost its endpoint or its TCP connection for good.
THEOREM NoReplay == Spec => []NoReplayWhileAttached
<1>1. Init => OneLoopInv /\ NoReplayInv
  BY ProcessAssumption DEF Init, OneLoopInv, OneLoop, NoReplayInv, Running
<1>2. NoReplayInv => NoReplayWhileAttached
  BY DEF NoReplayInv, NoReplayWhileAttached, Gone
<1> QED
  BY <1>1, <1>2, OneLoopStep, NoReplayStep, ProcessTypeCorrect, PTL DEF Spec

\* Over TCP a loop executes its batch again only behind a reset, and then the
\* write of the reply is bound to fail.
Broken == link \in {"reset", "down"}

AtMostTwiceInv ==
  transport = "tcp" =>
    \A t \in Loops :
      /\ loop[t].runs <= 2
      /\ loop[t].pc \in {"top", "read"} => loop[t].runs <= 1
      /\ AtPc(t, "execute") => loop[t].runs = 0 \/ (loop[t].runs = 1 /\ Broken)
      /\ AtPc(t, "write") => loop[t].runs <= 1 \/ Broken

LEMMA AtMostTwiceStep == TypeOK /\ OneLoopInv /\ AtMostTwiceInv /\ [Next]_vars => AtMostTwiceInv'
<1> DEFINE Bounds(local, broken) ==
             /\ local.runs <= 2
             /\ local.pc \in {"top", "read"} => local.runs <= 1
             /\ local.pc = "execute" => local.runs = 0 \/ (local.runs = 1 /\ broken)
             /\ local.pc = "write" => local.runs <= 1 \/ broken
<1> SUFFICES ASSUME TypeOK, OneLoopInv, AtMostTwiceInv, [Next]_vars, transport' = "tcp"
             PROVE  \A t \in Loops : Bounds(loop'[t], Broken')
  BY DEF AtMostTwiceInv, AtPc
<1>0. transport = "tcp"
  BY DEF Next, Client, Bind, Enable, Disable, Unbind, HangUp, Send, MainThread, HandleEvent,
         CloseIn, Join, Served, Accept, AcceptTimesOut, Loop, Top, ReadBatch, ReadShutdown,
         ReadEof, ReadFails, Execute, WriteReply, WriteFails, vars
<1>1. /\ loop \in [Loops -> Locals]
      /\ \A t \in Loops : Running(t) => t = started /\ active = 1
      /\ \A t \in Loops : Bounds(loop[t], Broken)
  BY <1>0 DEF TypeOK, OneLoopInv, OneLoop, AtMostTwiceInv, AtPc
<1>2. ASSUME UNCHANGED loop, Broken => Broken'
      PROVE  \A t \in Loops : Bounds(loop'[t], Broken')
  BY <1>1, <1>2
<1>3. CASE Client
  BY <1>0, <1>2, <1>3, ClientFrame
  DEF Client, Bind, Enable, Disable, Unbind, HangUp, Send, Broken
<1>4. CASE HandleEvent \/ CloseIn \/ Join
  BY <1>0, <1>4 DEF HandleEvent, CloseIn, Join, TypeOK
<1>5. CASE Served
  BY <1>2, <1>5 DEF Served, Broken
<1>6. CASE Accept \/ AcceptTimesOut
  <2>1. active = 0 /\ StartLoop
    BY <1>6 DEF Accept, AcceptTimesOut, Serve, OneLoopInv
  <2>2. \A u \in Loops : loop[u].pc \notin {"top", "read", "execute", "write"}
    BY <1>1, <2>1 DEF Running
  <2> QED
    BY <1>1, <2>1, <2>2, StartLoopTyped
<1>7. ASSUME NEW t \in Loops, Loop(t)
      PROVE  \A u \in Loops : Bounds(loop'[u], Broken')
  <2>1. /\ loop' \in [Loops -> Locals]
        /\ \A u \in Loops : u # t => loop'[u] = loop[u]
    BY <1>7, LoopFrame
  <2>2. Broken => Broken'
    BY <1>7 DEF Loop, Top, ReadBatch, ReadShutdown, ReadEof, ReadFails, Execute, WriteReply,
                WriteFails, Broken, connection
  <2>3. loop[t] \in Locals /\ loop'[t] \in Locals /\ Bounds(loop[t], Broken)
    BY <1>1, <2>1
  <2>4. SUFFICES Bounds(loop'[t], Broken')
    BY <1>1, <2>1, <2>2
  <2>5. CASE Top(t)
    BY <1>1, <2>3, <2>5 DEF Top, Goto, EndLoop, AtPc, Locals
  <2>6. CASE ReadBatch(t)
    BY <1>1, <2>6 DEF ReadBatch, Locals
  <2>7. CASE ReadShutdown(t)
    BY <1>0, <2>7 DEF ReadShutdown
  <2>8. CASE ReadEof(t) \/ WriteFails(t)
    BY <1>1, <2>3, <2>8 DEF ReadEof, WriteFails, EndLoop, Locals
  <2>9. CASE ReadFails(t)
    <3>1. Broken' /\ AtPc(t, "read")
      BY <1>0, <2>9 DEF ReadFails, Broken, connection
    <3>2. loop'[t].pc = "execute" /\ loop'[t].runs \in {loop[t].runs, 0}
      BY <1>1, <2>9 DEF ReadFails, Locals
    <3> QED
      BY <2>3, <3>1, <3>2 DEF AtPc, Locals
  <2>10. CASE Execute(t)
    <3>1. loop'[t].pc = "write" /\ loop'[t].runs = Counted(loop[t].runs)
      BY <1>1, <2>10 DEF Execute, Locals
    <3> QED
      BY <2>2, <2>3, <2>10, <3>1 DEF Execute, AtPc, Counted, RunsCounted, Locals
  <2>11. CASE WriteReply(t)
    <3>1. ~Broken /\ AtPc(t, "write")
      BY <2>11 DEF WriteReply, Broken
    <3>2. loop'[t].pc = "top" /\ loop'[t].runs = loop[t].runs
      BY <1>1, <2>11 DEF WriteReply, Goto, Locals
    <3> QED
      BY <2>3, <3>1, <3>2 DEF AtPc, Locals
  <2> QED
    BY <1>7, <2>5, <2>6, <2>7, <2>8, <2>9, <2>10, <2>11 DEF Loop
<1>8. CASE UNCHANGED vars
  BY <1>2, <1>8 DEF vars, Broken
<1> QED
  BY <1>3, <1>4, <1>5, <1>6, <1>7, <1>8 DEF Next, MainThread

\* Over TCP no batch is executed a third time.
THEOREM AtMostTwiceHolds == Spec => []AtMostTwice
<1>1. Init => OneLoopInv /\ AtMostTwiceInv
  BY ProcessAssumption DEF Init, OneLoopInv, OneLoop, AtMostTwiceInv, AtPc, Running
<1>2. AtMostTwiceInv => AtMostTwice
  BY DEF AtMostTwiceInv, AtMostTwice
<1> QED
  BY <1>1, <1>2, OneLoopStep, AtMostTwiceStep, ProcessTypeCorrect, PTL DEF Spec
=============================================================================
