------------------------------ MODULE RddiApi -------------------------------
(***************************************************************************)
(* The front of the two RDDI libraries, rddi-memap_cswp and                *)
(* rddi_streaming_trace: handles that designate environments, calls that   *)
(* look the handle up, run, store what became of them as the last error    *)
(* and return what is stored; and how the first library's Connect and      *)
(* Disconnect treat the CSWP client and its transport.                     *)
(*                                                                         *)
(* Neither map of handles has a lock.  A use of the map is one step here:  *)
(* clients that open and close sessions in one thread while others begin   *)
(* calls are not covered.                                                  *)
(***************************************************************************)
EXTENDS Naturals, FiniteSets, FiniteSetsExt

CONSTANTS
  Threads,       \* the streaming library's callers; the other has one
  MaxHandle,     \* numeric_limits<RDDIHandle>::max()
  MaxEnvs,       \* bound: environments made
  NoCall

ASSUME ApiAssumption ==
  /\ IsFiniteSet(Threads) /\ Threads # {}
  /\ MaxHandle \in Nat \ {0} /\ MaxEnvs \in Nat

VARIABLES
  lib,           \* "mem_ap" or "streaming"
  envs,          \* the environments made
  g_envs,        \* which of them a handle designates
  g_err,         \* the last error, of the library or of each thread
  call,          \* the call each thread is in, or NoCall
  held,          \* handles clients have, with the environment each was opened for
  told,          \* what each thread was told last, or "none"
  became         \* what became of each thread's last call, or "none"

apiVars == <<lib, envs, g_envs, g_err, call, held, told, became>>

Handles == 0 .. MaxHandle
Callers == IF lib = "mem_ap" THEN {CHOOSE t \in Threads : TRUE} ELSE Threads

Env == [impl      : {"null", "real"},
        connected : BOOLEAN,
        client    : BOOLEAN,                     \* the CSWP client has its buffers
        transport : {"none", "made", "open"}]    \* what transport.priv refers to
NewEnv == [impl |-> "null", connected |-> FALSE, client |-> FALSE, transport |-> "none"]

\* "FAILED" stands for every error that nothing here tells from others.
Outcomes == {"SUCCESS", "BADARG", "INVHANDLE", "TOOMANYCONNECTIONS", "NO_CONFIG",
             "PARSE_FAILED", "NOCONN", "FAILED"}

\* Calls that take a handle, beside RDDI_Close: each library's own.
MemApCalls     == {"OpenFile", "SetLogCallback", "Connect", "Disconnect",
                   "GetSystemDescription", "GetNumberOfAPs", "Access"}
StreamingCalls == {"OpenFile", "StreamingTrace"}
HandleCalls == {"Close"} \cup (IF lib = "mem_ap" THEN MemApCalls ELSE StreamingCalls)

\* A call under way: its outcome, and the reference it has to an environment.
Call == [fn      : MemApCalls \cup StreamingCalls \cup {"Open", "GetVersion", "Close"},
         outcome : Outcomes \cup {"none"},
         pc      : {"run", "store", "return"},
         handle  : Handles,
         env     : 0 .. MaxEnvs]

ASSUME NoCallAssumption == NoCall \notin Call

ApiInit ==
  /\ lib \in {"mem_ap", "streaming"}
  /\ envs = [e \in {} |-> NewEnv]
  /\ g_envs = [h \in {} |-> 0]
  /\ g_err = [t \in Threads |-> "SUCCESS"]
  /\ call = [t \in Threads |-> NoCall]
  /\ held = {}
  /\ told = [t \in Threads |-> "none"]
  /\ became = [t \in Threads |-> "none"]

-----------------------------------------------------------------------------
(* The map of handles and the last error *)

\* EnvironmentMap::Lookup.
Known(h) == h \in DOMAIN g_envs

\* Slip: the size of the map is taken for a free handle.
SizeAsHandle == Cardinality(DOMAIN g_envs)

\* EnvironmentMap::Store takes the lowest number that is not in use.
FirstAvailable == Min({h \in 0 .. Cardinality(DOMAIN g_envs) : ~Known(h)})

\* Slip: the greatest number is given out as well.
AllUsedUp == FirstAvailable > MaxHandle

\* The numbers are used up; the greatest is kept for no handle.
UsedUp == FirstAvailable = MaxHandle

\* Slip: the library has one last error for all threads.
OneSlot(t) == CHOOSE u \in Threads : TRUE

\* Where a thread's last error is.
Slot(t) == IF lib = "mem_ap" THEN CHOOSE u \in Threads : TRUE ELSE t

LastErrorCode(t) == g_err[Slot(t)]

-----------------------------------------------------------------------------
(* A call, step by step *)

\* What became of a call is known; the reference it had is given up, and the
\* step after stores the outcome.
Becomes(t, outcome) ==
  /\ call' = [call EXCEPT ![t].pc = "store", ![t].outcome = outcome,
                          ![t].env = 0, ![t].handle = 0]
  /\ became' = [became EXCEPT ![t] = outcome]

\* A call comes in.  Those with a handle get a reference to its environment,
\* which keeps it if the handle is closed meanwhile.
Begin(t, fn, h) ==
  /\ t \in Callers /\ call[t] = NoCall
  /\ fn = "Connect" /\ Known(h) => ~envs[g_envs[h]].connected
  /\ fn = "GetSystemDescription" /\ Known(h) =>
       envs[g_envs[h]].impl = "null" \/ envs[g_envs[h]].client
  /\ LET needsEnv == fn \in HandleCalls \ {"Close"}
         lost     == needsEnv /\ ~Known(h)
         outcome  == IF lost THEN "INVHANDLE" ELSE "none"
     IN  /\ call' = [call EXCEPT ![t] = [fn |-> fn, outcome |-> outcome,
                        handle |-> IF fn = "Close" THEN h ELSE 0,
                        pc  |-> IF lost THEN "store" ELSE "run",
                        env |-> IF needsEnv /\ ~lost THEN g_envs[h] ELSE 0]]
         /\ became' = [became EXCEPT ![t] = outcome]
  /\ told' = [told EXCEPT ![t] = "none"]
  /\ UNCHANGED <<lib, envs, g_envs, g_err, held>>

InCall(t, fn) == call[t] # NoCall /\ call[t].pc = "run" /\ call[t].fn = fn
TheEnv(t) == envs[call[t].env]

\* RDDI_Open: pHandle may be null, and the numbers may be used up.
OpenSession(t) ==
  /\ InCall(t, "Open")
  /\ \/ Becomes(t, "BADARG") /\ UNCHANGED <<envs, g_envs, held>>
     \/ /\ UsedUp
        /\ Becomes(t, "TOOMANYCONNECTIONS")
        /\ UNCHANGED <<envs, g_envs, held>>
     \/ /\ ~UsedUp /\ Cardinality(DOMAIN envs) < MaxEnvs
        /\ LET e == Cardinality(DOMAIN envs) + 1 IN
           /\ envs' = [x \in 1 .. e |-> IF x = e THEN NewEnv ELSE envs[x]]
           /\ g_envs' = [h \in DOMAIN g_envs \cup {FirstAvailable} |->
                           IF h = FirstAvailable THEN e ELSE g_envs[h]]
           /\ held' = held \cup {<<FirstAvailable, e>>}
        /\ Becomes(t, "SUCCESS")
  /\ UNCHANGED <<lib, g_err, told>>

\* RDDI_Close: an environment that is connected is not disconnected first; it
\* goes when no call has a reference to it any more.
CloseSession(t) ==
  /\ InCall(t, "Close")
  /\ LET h == call[t].handle IN
     IF Known(h)
     THEN /\ g_envs' = [x \in DOMAIN g_envs \ {h} |-> g_envs[x]]
          /\ envs' = IF \E u \in Threads : call[u] # NoCall /\ call[u].env = g_envs[h]
                     THEN envs ELSE [envs EXCEPT ![g_envs[h]] = NewEnv]
          /\ held' = {p \in held : p[1] # h}
          /\ Becomes(t, "SUCCESS")
     ELSE Becomes(t, "INVHANDLE") /\ UNCHANGED <<envs, g_envs, held>>
  /\ UNCHANGED <<lib, g_err, told>>

\* RDDI_GetVersion, which also fails when the name does not fit, and
\* RDDI_SetLogCallback.
Informs(t) ==
  /\ \/ InCall(t, "GetVersion") /\ \E o \in {"SUCCESS", "BADARG", "FAILED"} : Becomes(t, o)
     \/ InCall(t, "SetLogCallback") /\ Becomes(t, "SUCCESS")
  /\ UNCHANGED <<lib, envs, g_envs, g_err, held, told>>

\* ConfigInfo_OpenFile makes a new implementation, unless the file is bad;
\* one that is connected is dropped as it is.
OpenFile(t) ==
  /\ InCall(t, "OpenFile")
  /\ \/ /\ envs' = [envs EXCEPT ![call[t].env] = [NewEnv EXCEPT !.impl = "real"]]
        /\ Becomes(t, "SUCCESS")
     \/ UNCHANGED envs /\ Becomes(t, "PARSE_FAILED")
  /\ UNCHANGED <<lib, g_envs, g_err, held, told>>

\* NullImplementation refuses every call but OpenFile and the log's.
NotConfigured(t) ==
  /\ call[t] # NoCall /\ call[t].pc = "run"
  /\ call[t].fn \in HandleCalls \ {"Close", "OpenFile", "SetLogCallback"}
  /\ TheEnv(t).impl = "null"
  /\ Becomes(t, "NO_CONFIG")
  /\ UNCHANGED <<lib, envs, g_envs, g_err, held, told>>

Configured(t, fn) == InCall(t, fn) /\ TheEnv(t).impl = "real"
Sets(t, e) == envs' = [envs EXCEPT ![call[t].env] = e]

\* cswp_client_tcp_transport_init and its USB counterpart, then
\* cswp_client_init: what was there before is not given up.
WithNewTransport(e) == [e EXCEPT !.client = TRUE, !.transport = "made"]

\* cswp_init opens it: a socket, or a USB device with both endpoints.
TransportOpened(e) == [e EXCEPT !.transport = "open"]

\* The transport's disconnect: it is destroyed, and fails or not.
TransportGivenUp(e) == [e EXCEPT !.transport = "none"]

\* MEM_AP_Connect: the transport may not open, a command after that may fail,
\* and m_connected is set last.
Connect(t) ==
  /\ Configured(t, "Connect")
  /\ LET made == WithNewTransport(TheEnv(t))
         open == TransportOpened(made)
     IN  \/ Sets(t, made) /\ Becomes(t, "FAILED")
         \/ Sets(t, open) /\ Becomes(t, "FAILED")
         \/ Sets(t, [open EXCEPT !.connected = TRUE]) /\ Becomes(t, "SUCCESS")
  /\ UNCHANGED <<lib, g_envs, g_err, held, told>>

\* Slip: the failure of cswp_term is thrown before m_connected is cleared.
ClearedIfTermWorks(e, works) ==
  [TransportGivenUp(e) EXCEPT !.connected = ~works, !.client = ~works]

\* cswp_term gives up the transport whether the command works or not; only if
\* it does is the client freed.
Terminated(e, works) ==
  [TransportGivenUp(e) EXCEPT !.connected = FALSE, !.client = ~works]

\* MEM_AP_Disconnect.
Disconnect(t) ==
  /\ Configured(t, "Disconnect")
  /\ \/ ~TheEnv(t).connected /\ Becomes(t, "NOCONN") /\ UNCHANGED envs
     \/ /\ TheEnv(t).connected
        /\ \E works \in BOOLEAN :
             /\ Sets(t, Terminated(TheEnv(t), works))
             /\ Becomes(t, IF works THEN "SUCCESS" ELSE "FAILED")
  /\ UNCHANGED <<lib, g_envs, g_err, held, told>>

\* Calls that leave the environment as it is: all that want a connection, and
\* MEM_AP_GetNumberOfAPs and GetSystemDescription, which do not.
UseMemAp(t) ==
  /\ \/ /\ Configured(t, "Access")
        /\ IF TheEnv(t).connected
           THEN \E o \in {"SUCCESS", "BADARG", "FAILED"} : Becomes(t, o)
           ELSE Becomes(t, "NOCONN")
     \/ Configured(t, "GetNumberOfAPs") /\ \E o \in {"SUCCESS", "BADARG"} : Becomes(t, o)
     \/ Configured(t, "GetSystemDescription") /\ \E o \in {"SUCCESS", "FAILED"} : Becomes(t, o)
  /\ UNCHANGED <<lib, envs, g_envs, g_err, held, told>>

\* RealImplementation passes the call on to the trace object.
UseStreamingTrace(t) ==
  /\ Configured(t, "StreamingTrace")
  /\ \E o \in {"SUCCESS", "FAILED"} : Becomes(t, o)
  /\ UNCHANGED <<lib, envs, g_envs, g_err, held, told>>

\* The end of TRAP_EXCEPTIONS: StoreError, whatever the outcome.
StoreError(t) ==
  /\ call[t] # NoCall /\ call[t].pc = "store"
  /\ g_err' = [g_err EXCEPT ![Slot(t)] = call[t].outcome]
  /\ call' = [call EXCEPT ![t].pc = "return"]
  /\ UNCHANGED <<lib, envs, g_envs, held, told, became>>

\* The call returns LastErrorCode(); RDDI_SetLogCallback returns nothing.
Return(t) ==
  /\ call[t] # NoCall /\ call[t].pc = "return"
  /\ told' = [told EXCEPT ![t] = IF call[t].fn = "SetLogCallback" THEN "none" ELSE LastErrorCode(t)]
  /\ call' = [call EXCEPT ![t] = NoCall]
  /\ UNCHANGED <<lib, envs, g_envs, g_err, held, became>>

\* RDDI_GetLastError updates nothing.
GetLastError(t) ==
  /\ t \in Callers /\ call[t] = NoCall
  /\ told' = [told EXCEPT ![t] = LastErrorCode(t)]
  /\ UNCHANGED <<lib, envs, g_envs, g_err, call, held, became>>

Run(t) ==
  \/ OpenSession(t) \/ CloseSession(t) \/ Informs(t) \/ OpenFile(t) \/ NotConfigured(t)
  \/ Connect(t) \/ Disconnect(t) \/ UseMemAp(t) \/ UseStreamingTrace(t)

ApiNext ==
  \E t \in Threads :
    \/ \E h \in Handles, fn \in HandleCalls : Begin(t, fn, h)
    \/ \E fn \in {"Open", "GetVersion"} : Begin(t, fn, 0)
    \/ Run(t) \/ StoreError(t) \/ Return(t) \/ GetLastError(t)

ApiSpec == ApiInit /\ [][ApiNext]_apiVars

-----------------------------------------------------------------------------

ApiTypeOK ==
  /\ lib \in {"mem_ap", "streaming"}
  /\ DOMAIN envs \subseteq 1 .. MaxEnvs /\ \A e \in DOMAIN envs : envs[e] \in Env
  /\ DOMAIN g_envs \subseteq 0 .. MaxHandle - 1 /\ \A h \in DOMAIN g_envs : g_envs[h] \in DOMAIN envs
  /\ g_err \in [Threads -> Outcomes]
  /\ call \in [Threads -> Call \cup {NoCall}]
  /\ \A t \in Threads : call[t] # NoCall => call[t].env \in DOMAIN envs \cup {0}

\* What a thread is told, by a call itself or by RDDI_GetLastError after it,
\* is what became of that thread's own last call, whatever calls other
\* threads make or finish in between.
OwnOutcome ==
  \A t \in Threads : told[t] # "none" /\ became[t] # "none" => told[t] = became[t]

\* Handles are reused, but never one that a client still has: each session
\* that was opened and not closed is reached by its handle, and by no other.
HandleDesignates ==
  /\ \A p \in held : Known(p[1]) /\ g_envs[p[1]] = p[2]
  /\ \A p, q \in held : p[2] = q[2] => p = q
  /\ Cardinality(held) = Cardinality(DOMAIN g_envs)

\* An environment that believes it is connected has a CSWP client with its
\* buffers and an open transport to use, after any failures of Connect and
\* Disconnect: nothing it calls looks for them again.
ConnectedHasLink ==
  \A e \in DOMAIN envs : envs[e].connected => envs[e].client /\ envs[e].transport = "open"
=============================================================================
