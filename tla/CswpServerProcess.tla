------------------------- MODULE CswpServerProcess -------------------------
(***************************************************************************)
(* The server process: the command loop (process_commands), the thread     *)
(* that owns it - the ep0 event loop, which starts and joins a command     *)
(* thread over USB, or the accept loop, which calls process_commands       *)
(* itself over TCP - and the connection underneath, whose loss the loop    *)
(* sees as an error number, as a read of 0 bytes, or not at all.           *)
(*                                                                         *)
(* A batch is what it does to the session.  What its commands do to the    *)
(* device tables is CswpServer, how its replies are laid out is CswpBatch. *)
(***************************************************************************)
EXTENDS Integers, Sequences, FiniteSets

CONSTANTS
  MaxLoops,   \* bound: calls of process_commands
  MaxConns,   \* bound: connections a client makes
  NULL

ASSUME ProcessAssumption ==
  /\ MaxLoops \in Nat \ {0} /\ MaxConns \in Nat \ {0}
  /\ NULL \notin Nat

VARIABLES
  transport,  \* "usb" or "tcp": --transport
  \* the client and the connection
  link,       \* "up" (USB: enabled), "down", or ended by the TCP peer: "eof", "reset"
  conn,       \* connections so far: the number of the current or last one
  sent,       \* the batch on its way to the server, or NULL
  waiting,    \* the client waits for the reply to the batch it sent
  bound,      \* USB: the function is bound
  events,     \* USB: what ep0 has not read yet
  \* the main thread
  main,       \* "events" or "accept"; "serving"; "closing", "joining" (stop_command_thread)
  active,     \* gServerState.active
  outOpen,    \* gServerState.outFd is open
  inOpen,     \* gServerState.inFd is open
  \* the command loop
  started,    \* calls of process_commands: the number of the latest one
  loop        \* each call: where it is and its local variables

vars == <<transport, link, conn, sent, waiting, bound, events, main, active,
          outOpen, inOpen, started, loop>>
connection == <<link, conn, sent, waiting, bound, events>>
process    == <<main, active, outOpen, inOpen, started>>

Loops   == 1 .. MaxLoops
Batches == [kind : {"init", "access", "term"}, conn : 1 .. MaxConns]

\* cmd      the batch held by the command buffer, NULL for anything else
\* fresh    it was read by the last read_msg, which did not fail
\* runs     how often this loop has executed it, counted up to RunsCounted
\* session  the connection whose CSWP_INIT made cswpServer's session, or NULL
RunsCounted == 3   \* bound: a USB loop whose write goes through repeats without end

Locals ==
  [pc : {"none", "top", "read", "execute", "write", "exited"},
   cmd : Batches \cup {NULL}, fresh : BOOLEAN, runs : 0 .. RunsCounted,
   session : 1 .. MaxConns \cup {NULL}]

TypeOK ==
  /\ transport \in {"usb", "tcp"}
  /\ link \in {"up", "down"} \cup (IF transport = "tcp" THEN {"eof", "reset"} ELSE {})
  /\ conn \in 0 .. MaxConns
  /\ sent \in Batches \cup {NULL}
  /\ waiting \in BOOLEAN /\ bound \in BOOLEAN
  /\ events \in Seq({"BIND", "UNBIND", "ENABLE", "DISABLE"})
  /\ main \in IF transport = "usb" THEN {"events", "closing", "joining"}
                                   ELSE {"accept", "serving"}
  /\ active \in {0, 1}
  /\ outOpen \in BOOLEAN /\ inOpen \in BOOLEAN
  /\ started \in 0 .. MaxLoops
  /\ loop \in [Loops -> Locals]
  /\ \A t \in Loops : loop[t].pc \in {"none", "exited"} => loop[t].session = NULL

Init ==
  /\ transport \in {"usb", "tcp"}
  /\ link = "down" /\ conn = 0 /\ sent = NULL /\ waiting = FALSE
  /\ bound = FALSE /\ events = <<>>
  /\ main = IF transport = "usb" THEN "events" ELSE "accept"
  /\ active = 0 /\ outOpen = FALSE /\ inOpen = FALSE
  /\ started = 0
  /\ loop = [t \in Loops |-> [pc |-> "none", cmd |-> NULL, fresh |-> FALSE,
                              runs |-> 0, session |-> NULL]]

-----------------------------------------------------------------------------
(* The client and the connection *)

\* cswp_client_transact: one request, then wait.
Send(kind) ==
  /\ link = "up" /\ ~waiting
  /\ sent' = [kind |-> kind, conn |-> conn]
  /\ waiting' = TRUE
  /\ UNCHANGED <<transport, link, conn, bound, events, process, loop>>

\* The USB gadget driver.  What the client had sent is gone with the link.
Bind ==
  /\ transport = "usb" /\ ~bound
  /\ started + Cardinality({i \in DOMAIN events : events[i] = "BIND"}) < MaxLoops
  /\ bound' = TRUE
  /\ events' = Append(events, "BIND")
  /\ UNCHANGED <<transport, link, conn, sent, waiting, process, loop>>

Enable ==
  /\ transport = "usb" /\ bound /\ link = "down"
  /\ conn < MaxConns
  /\ link' = "up"
  /\ conn' = conn + 1
  /\ events' = Append(events, "ENABLE")
  /\ UNCHANGED <<transport, sent, waiting, bound, process, loop>>

Disable ==
  /\ transport = "usb" /\ link = "up"
  /\ link' = "down"
  /\ sent' = NULL /\ waiting' = FALSE
  /\ events' = Append(events, "DISABLE")
  /\ UNCHANGED <<transport, conn, bound, process, loop>>

Unbind ==
  /\ transport = "usb" /\ bound /\ link = "down"
  /\ bound' = FALSE
  /\ events' = Append(events, "UNBIND")
  /\ UNCHANGED <<transport, link, conn, sent, waiting, process, loop>>

\* The TCP client closes the connection, behind a whole batch or a part of one
\* (which reads as the end of the file), or the connection is reset.
HangUp ==
  /\ transport = "tcp" /\ link = "up"
  /\ \/ link' = "eof" /\ sent' \in {sent, NULL}
     \/ link' = "reset" /\ UNCHANGED sent
  /\ waiting' = FALSE
  /\ UNCHANGED <<transport, conn, bound, events, process, loop>>

-----------------------------------------------------------------------------
(* Starting and ending process_commands *)

\* The buffers come from malloc: the command buffer may still hold the batch
\* a former loop left in the memory it freed.
Leftover == {NULL} \cup (IF started = 0 THEN {} ELSE {loop[started].cmd})

StartLoop ==
  /\ started < MaxLoops
  /\ started' = started + 1
  /\ \E cmd \in Leftover :
       loop' = [loop EXCEPT ![started + 1] =
                  [pc |-> "top", cmd |-> cmd, fresh |-> FALSE, runs |-> 0,
                   session |-> NULL]]

\* Slip: the session is not terminated.
EndLoopKeepsSession(t) == loop' = [loop EXCEPT ![t].pc = "exited"]

\* After the while loop: cswp_server_term.
EndLoop(t) ==
  loop' = [loop EXCEPT ![t].pc = "exited", ![t].session = NULL]

-----------------------------------------------------------------------------
(* The main thread over USB *)

\* start_command_thread.
StartThread ==
  IF active = 0
  THEN /\ outOpen' = TRUE /\ inOpen' = TRUE
       /\ active' = 1
       /\ StartLoop
       /\ UNCHANGED main
  ELSE UNCHANGED <<process, loop>>

\* stop_command_thread, up to the first close.
StopThread ==
  IF active = 1
  THEN /\ outOpen' = FALSE
       /\ main' = "closing"
       /\ UNCHANGED <<active, inOpen, started, loop>>
  ELSE UNCHANGED <<process, loop>>

\* ep0_handle.  ENABLE and DISABLE: no action.
HandleEvent ==
  /\ main = "events" /\ events # <<>>
  /\ events' = Tail(events)
  /\ CASE Head(events) = "BIND"   -> StartThread
       [] Head(events) = "UNBIND" -> StopThread
       [] OTHER                   -> UNCHANGED <<process, loop>>
  /\ UNCHANGED <<transport, link, conn, sent, waiting, bound>>

CloseIn ==
  /\ main = "closing"
  /\ inOpen' = FALSE
  /\ main' = "joining"
  /\ UNCHANGED <<transport, connection, active, outOpen, started, loop>>

\* Slip: the thread is not joined.
ThreadDetached == TRUE

\* pthread_join returns.
ThreadJoined == loop[started].pc = "exited"

Join ==
  /\ main = "joining"
  /\ ThreadJoined
  /\ active' = 0
  /\ main' = "events"
  /\ UNCHANGED <<transport, connection, outOpen, inOpen, started, loop>>

-----------------------------------------------------------------------------
(* The main thread over TCP *)

Serve ==
  /\ main = "accept" /\ transport = "tcp"
  /\ main' = "serving"
  /\ active' = 1
  /\ StartLoop

Accept ==
  /\ Serve
  /\ conn < MaxConns
  /\ conn' = conn + 1
  /\ link' = "up"
  /\ outOpen' = TRUE /\ inOpen' = TRUE
  /\ UNCHANGED <<transport, sent, waiting, bound, events>>

\* accept fails with ETIMEDOUT: "will retry", and yet goes on, with fd -1.
AcceptTimesOut ==
  /\ Serve
  /\ UNCHANGED <<transport, connection, outOpen, inOpen>>

\* process_commands returned.
Served ==
  /\ main = "serving"
  /\ loop[started].pc = "exited"
  /\ main' = "accept"
  /\ active' = 0
  /\ outOpen' = FALSE /\ inOpen' = FALSE
  /\ link' = "down" /\ sent' = NULL /\ waiting' = FALSE
  /\ UNCHANGED <<transport, conn, bound, events, started, loop>>

-----------------------------------------------------------------------------
(* The command loop *)

AtPc(t, pc) == loop[t].pc = pc
Goto(t, pc) == loop' = [loop EXCEPT ![t].pc = pc]

\* while (state->active), and the call of read_msg.
Top(t) ==
  /\ AtPc(t, "top")
  /\ IF active = 0 THEN EndLoop(t)
     ELSE (transport = "usb" => outOpen) /\ Goto(t, "read")
  /\ UNCHANGED <<transport, connection, process>>

ReadBatch(t) ==
  /\ AtPc(t, "read") /\ sent # NULL
  /\ loop' = [loop EXCEPT ![t].pc = "execute", ![t].cmd = sent,
                          ![t].fresh = TRUE, ![t].runs = 0]
  /\ sent' = NULL
  /\ UNCHANGED <<transport, link, conn, waiting, bound, events, process>>

\* Slip: ESHUTDOWN is handled like every other error.
ShutdownIsAnError(t) ==
  /\ AtPc(t, "read") /\ transport = "usb" /\ link = "down"
  /\ loop' = [loop EXCEPT ![t].pc = "execute", ![t].fresh = FALSE]
  /\ UNCHANGED <<transport, connection, process>>

\* ESHUTDOWN: the endpoint is disabled; read again, in the same session.
ReadShutdown(t) ==
  /\ AtPc(t, "read") /\ transport = "usb" /\ link = "down"
  /\ Goto(t, "top")
  /\ UNCHANGED <<transport, connection, process>>

\* Slip: a read of 0 bytes is read again.
EofReadsAgain(t) ==
  /\ AtPc(t, "read") /\ link = "eof" /\ sent = NULL
  /\ Goto(t, "top")
  /\ UNCHANGED <<transport, connection, process>>

\* 0 bytes: the client closed the connection.
ReadEof(t) ==
  /\ AtPc(t, "read") /\ link = "eof" /\ sent = NULL
  /\ EndLoop(t)
  /\ UNCHANGED <<transport, connection, process>>

\* Any other error is reported, and the break leaves the switch only: the loop
\* goes on with cmd->used = (size_t)-1 and what the buffer holds - the last
\* batch, or over TCP the batch that was being received when the connection
\* was reset.  USB: EBADF, once outFd is closed.
ReadFails(t) ==
  /\ \/ AtPc(t, "top") /\ transport = "usb" /\ ~outOpen
     \/ AtPc(t, "read") /\ transport = "tcp" /\ link \in {"reset", "down"}
  /\ active = 1
  /\ \/ loop' = [loop EXCEPT ![t].pc = "execute", ![t].fresh = FALSE]
     \/ /\ sent # NULL /\ link = "reset"
        /\ loop' = [loop EXCEPT ![t].pc = "execute", ![t].cmd = sent,
                                ![t].fresh = FALSE, ![t].runs = 0]
  /\ UNCHANGED <<transport, connection, process>>

Counted(runs) == IF runs < RunsCounted THEN runs + 1 ELSE runs

SessionAfter(cmd, session) ==
  IF cmd = NULL THEN session
  ELSE CASE cmd.kind = "init"    -> cmd.conn
         [] cmd.kind = "access"  -> session
         [] cmd.kind = "term"    -> NULL

\* Slip: a command that fails ends the loop rather than the batch.
ErrorEndsLoop(t) ==
  /\ AtPc(t, "execute")
  /\ loop' = [loop EXCEPT ![t].pc = "top", ![t].runs = Counted(@),
                          ![t].session = SessionAfter(loop[t].cmd, @)]
  /\ UNCHANGED <<transport, connection, process>>

\* The header, the commands and the response.
Execute(t) ==
  /\ AtPc(t, "execute")
  /\ loop' = [loop EXCEPT ![t].pc = "write", ![t].runs = Counted(@),
                          ![t].session = SessionAfter(loop[t].cmd, @)]
  /\ UNCHANGED <<transport, connection, process>>

\* What a TCP peer that has closed is sent, it answers with a reset.
WriteReply(t) ==
  /\ AtPc(t, "write") /\ inOpen
  /\ \/ link = "up" /\ waiting' = FALSE /\ UNCHANGED link
     \/ link = "eof" /\ link' \in {"eof", "reset"} /\ UNCHANGED waiting
  /\ Goto(t, "top")
  /\ UNCHANGED <<transport, conn, sent, bound, events, process>>

\* Slip: the loop goes on after a failed write.
WriteFailureIgnored(t) ==
  /\ AtPc(t, "write")
  /\ ~inOpen \/ link \in {"down", "reset"}
  /\ Goto(t, "top")
  /\ UNCHANGED <<transport, connection, process>>

\* The loop ends; over USB active stays 1.
WriteFails(t) ==
  /\ AtPc(t, "write")
  /\ ~inOpen \/ link \in {"down", "reset"}
  /\ EndLoop(t)
  /\ UNCHANGED <<transport, connection, process>>

-----------------------------------------------------------------------------

Client ==
  Bind \/ Enable \/ Disable \/ Unbind \/ HangUp
    \/ \E kind \in {"init", "access", "term"} : Send(kind)

MainThread == HandleEvent \/ CloseIn \/ Join \/ Served

Loop(t) ==
  Top(t) \/ ReadBatch(t) \/ ReadShutdown(t) \/ ReadEof(t) \/ ReadFails(t)
    \/ Execute(t) \/ WriteReply(t) \/ WriteFails(t)

Next ==
  \/ Client \/ MainThread \/ Accept \/ AcceptTimesOut
  \/ \E t \in Loops : Loop(t)

\* Over TCP the server is one thread that the system keeps running; no client
\* needs to do anything.  Over USB a blocked read need not return: no fairness.
Fairness == WF_vars(transport = "tcp" /\ (MainThread \/ \E t \in Loops : Loop(t)))

Spec == Init /\ [][Next]_vars /\ Fairness

-----------------------------------------------------------------------------
(* Properties *)

Running(t) == loop[t].pc \notin {"none", "exited"}

\* There is one command loop, it runs only while the server is active, and its
\* endpoints stay its own: they are opened again only after it has ended,
\* whatever UNBIND and BIND do while it is blocked or busy.
OneLoop ==
  \A t \in Loops : Running(t) =>
    /\ t = started /\ active = 1
    /\ transport = "usb" => ((outOpen /\ inOpen) \/ main \in {"closing", "joining"})

\* A batch is executed without having been read only by a loop that has lost
\* its endpoint or its connection for good.  A USB link that goes down and up
\* again makes no loop repeat a batch.
NoReplayWhileAttached ==
  \A t \in Loops : Running(t) /\ loop[t].runs > 1 =>
    IF transport = "usb" THEN ~outOpen ELSE link # "up"

\* Over TCP a failed read repeats the last batch at most once: the write that
\* follows fails as well and ends the loop.
AtMostTwice == transport = "tcp" => \A t \in Loops : loop[t].runs <= 2

\* Over TCP a connection that is lost, in whatever state the loop is, brings
\* the server back to accept the next client.
ServesNextClient ==
  main = "serving" /\ link # "up" ~> transport = "tcp" /\ main = "accept"

\* Over TCP a client that waits does not wait for ever: its batch is answered
\* or its connection ends.
BatchSettled == transport = "tcp" /\ waiting ~> ~waiting

\* Section 4.4: "If a server detects the connection has been lost (e.g. USB
\* cable disconnected, client crashed) without a shutdown request, then it
\* should behave as though a CSWP_TERM request was received": no command of a
\* client that has not sent CSWP_INIT runs in the session of the client before.
SessionEndsWithConnection ==
  \A t \in Loops :
    AtPc(t, "execute") /\ loop[t].fresh /\ loop[t].cmd.kind = "access" =>
      loop[t].session \in {NULL, loop[t].cmd.conn}

\* cswp_server.c:456, on ENABLE: "No action: thread is already running".  When
\* the event is the latest one, with the link up, there is a running thread.
RunningWhenEnabled ==
  main = "events" /\ events = <<"ENABLE">> /\ link = "up" =>
    active = 1 /\ started > 0 /\ Running(started)
=============================================================================
