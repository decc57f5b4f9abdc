------------------------------ MODULE RddiProofs ------------------------------
(***************************************************************************)
(* Theorems about the RDDI libraries.                                      *)
(*                                                                         *)
(* Their calls, for every number of threads, handles and environments and  *)
(* for both libraries: each caller is told what became of its own call, a  *)
(* handle leads to its session, and a connected session has its link.      *)
(*                                                                         *)
(* A list of memory operations, for every list and every size of the       *)
(* request buffer, on any device, with a target that writes to its memory  *)
(* meanwhile and a connection that may fail: the count of the operations   *)
(* done is exact, and the list is performed as the promise                 *)
(* MemApListPromise says.                                                  *)
(***************************************************************************)
EXTENDS RddiMemAp, RddiApi, FiniteSetTheorems, WellFoundedInduction, TLAPS

-----------------------------------------------------------------------------
(* Handles *)

\* Among the numbers up to the size of the map one is not in use, and Store
\* finds it.
LEMMA FirstAvailableIsFree ==
  ASSUME IsFiniteSet(DOMAIN g_envs)
  PROVE  FirstAvailable \in 0 .. Cardinality(DOMAIN g_envs) /\ ~Known(FirstAvailable)
<1> DEFINE n == Cardinality(DOMAIN g_envs)
           free == {h \in 0 .. n : ~Known(h)}
<1>1. n \in Nat
  BY FS_CardinalityType
<1>2. free # {}
  <2> SUFFICES ASSUME free = {} PROVE FALSE
    OBVIOUS
  <2>1. 0 .. n \in SUBSET DOMAIN g_envs
    BY DEF Known
  <2>2. Cardinality(0 .. n) <= n
    BY <2>1, FS_Subset
  <2>3. Cardinality(0 .. n) = n + 1
    BY <1>1, FS_Interval
  <2> QED
    BY <1>1, <2>2, <2>3
<1>3. free \subseteq Nat
  BY <1>1
<1>4. PICK x \in free : \A y \in free : ~(<<y, x>> \in OpToRel(<, Nat))
  BY <1>2, <1>3, WFMin, NatLessThanWellFounded
<1>5. \A y \in free : x <= y
  <2> SUFFICES ASSUME NEW y \in free, ~(x <= y) PROVE FALSE
    OBVIOUS
  <2>1. x \in Nat /\ y \in Nat /\ y < x
    BY <1>3
  <2>2. <<y, x>> \in {ss \in Nat \X Nat : ss[1] < ss[2]}
    BY <2>1
  <2> QED
    BY <1>4, <2>2 DEF OpToRel
<1>6. FirstAvailable \in free
  BY <1>5 DEF FirstAvailable, Min
<1> QED
  BY <1>3, <1>6

-----------------------------------------------------------------------------
(* The types of the calls *)

TypeInv ==
  /\ lib \in {"mem_ap", "streaming"}
  /\ \E n \in 0 .. MaxEnvs : envs \in [1 .. n -> Env]
  /\ DOMAIN g_envs \subseteq 0 .. MaxHandle - 1
  /\ g_envs \in [DOMAIN g_envs -> DOMAIN envs]
  /\ g_err \in [Threads -> Outcomes]
  /\ call \in [Threads -> Call \cup {NoCall}]
  /\ told \in [Threads -> Outcomes \cup {"none"}]
  /\ became \in [Threads -> Outcomes \cup {"none"}]
  /\ \A t \in Threads : call[t] # NoCall =>
       /\ t \in Callers
       /\ call[t].env \in DOMAIN envs \cup {0}
       /\ call[t].pc = "store" => call[t].outcome \in Outcomes
       /\ call[t].pc = "run" /\ call[t].fn \notin {"Open", "GetVersion", "Close"}
            => call[t].env \in DOMAIN envs

LEMMA SlotIsThread == ASSUME NEW t \in Threads PROVE Slot(t) \in Threads
BY ApiAssumption DEF Slot

\* What every step of a call between look-up and outcome has in common.
LEMMA RunIsLocal ==
  ASSUME NEW t \in Threads, Run(t)
  PROVE  /\ call[t] # NoCall /\ call[t].pc = "run"
         /\ \E o \in Outcomes : Becomes(t, o)
         /\ UNCHANGED <<lib, g_err, told>>
<1> USE DEF InCall, Configured, Outcomes
<1>1. CASE OpenSession(t)
  BY <1>1 DEF OpenSession
<1>2. CASE CloseSession(t)
  BY <1>2 DEF CloseSession
<1>3. CASE Informs(t)
  BY <1>3 DEF Informs
<1>4. CASE OpenFile(t)
  BY <1>4 DEF OpenFile
<1>5. CASE NotConfigured(t)
  BY <1>5 DEF NotConfigured
<1>6. CASE Connect(t)
  BY <1>6 DEF Connect
<1>7. CASE Disconnect(t)
  BY <1>7 DEF Disconnect
<1>8. CASE UseMemAp(t)
  BY <1>8 DEF UseMemAp
<1>9. CASE UseStreamingTrace(t)
  BY <1>9 DEF UseStreamingTrace
<1> QED
  BY <1>1, <1>2, <1>3, <1>4, <1>5, <1>6, <1>7, <1>8, <1>9 DEF Run

\* The outcome of a call keeps the records of all calls as they must be.
LEMMA BecomesTyped ==
  ASSUME TypeInv, NEW t \in Threads, call[t] # NoCall, NEW o \in Outcomes,
         Becomes(t, o), lib' = lib, DOMAIN envs \subseteq DOMAIN envs'
  PROVE  /\ call' \in [Threads -> Call \cup {NoCall}]
         /\ became' \in [Threads -> Outcomes \cup {"none"}]
         /\ \A u \in Threads : call'[u] # NoCall =>
              /\ u \in Callers'
              /\ call'[u].env \in DOMAIN envs' \cup {0}
              /\ call'[u].pc = "store" => call'[u].outcome \in Outcomes
              /\ call'[u].pc = "run" /\ call'[u].fn \notin {"Open", "GetVersion", "Close"}
                   => call'[u].env \in DOMAIN envs'
<1>1. call[t] \in Call
  BY DEF TypeInv
<1>2. 0 \in Handles /\ 0 \in 0 .. MaxEnvs
  BY ApiAssumption DEF Handles
<1>3. [call[t] EXCEPT !.pc = "store", !.outcome = o, !.env = 0, !.handle = 0] \in Call
  BY <1>1, <1>2 DEF Call
<1>4. call' = [call EXCEPT ![t] = [call[t] EXCEPT !.pc = "store", !.outcome = o,
                                                  !.env = 0, !.handle = 0]]
  BY DEF Becomes
<1>5. call' \in [Threads -> Call \cup {NoCall}]
  BY <1>3, <1>4 DEF TypeInv
<1>6. Callers' = Callers
  BY DEF Callers
<1>7. ASSUME NEW u \in Threads, call'[u] # NoCall
      PROVE  /\ u \in Callers'
             /\ call'[u].env \in DOMAIN envs' \cup {0}
             /\ call'[u].pc = "store" => call'[u].outcome \in Outcomes
             /\ call'[u].pc = "run" /\ call'[u].fn \notin {"Open", "GetVersion", "Close"}
                  => call'[u].env \in DOMAIN envs'
  <2>1. CASE u = t
    <3>1. call'[u].env = 0 /\ call'[u].pc = "store" /\ call'[u].outcome = o
      BY <1>1, <1>4, <2>1 DEF TypeInv, Call
    <3> QED
      BY <1>6, <2>1, <3>1 DEF TypeInv
  <2>2. CASE u # t
    <3>1. call'[u] = call[u]
      BY <1>4, <2>2 DEF TypeInv
    <3> QED
      BY <1>6, <1>7, <3>1 DEF TypeInv
  <2> QED
    BY <2>1, <2>2
<1> QED
  BY <1>5, <1>7 DEF Becomes, TypeInv

\* Changing one environment leaves a table of environments.
LEMMA SetsTyped ==
  ASSUME TypeInv, NEW t \in Threads, call[t].env \in DOMAIN envs, NEW e \in Env, Sets(t, e)
  PROVE  /\ DOMAIN envs' = DOMAIN envs
         /\ \E n \in 0 .. MaxEnvs : envs' \in [1 .. n -> Env]
BY DEF TypeInv, Sets

\* Sessions are made, closed and changed by the calls; environments stay.
LEMMA SessionsTyped ==
  ASSUME TypeInv, NEW t \in Threads, Run(t)
  PROVE  /\ DOMAIN envs \subseteq DOMAIN envs'
         /\ \E n \in 0 .. MaxEnvs : envs' \in [1 .. n -> Env]
         /\ DOMAIN g_envs' \subseteq 0 .. MaxHandle - 1
         /\ g_envs' \in [DOMAIN g_envs' -> DOMAIN envs']
<1> DEFINE Goal ==
         /\ DOMAIN envs \subseteq DOMAIN envs'
         /\ \E n \in 0 .. MaxEnvs : envs' \in [1 .. n -> Env]
         /\ DOMAIN g_envs' \subseteq 0 .. MaxHandle - 1
         /\ g_envs' \in [DOMAIN g_envs' -> DOMAIN envs']
<1>n. NewEnv \in Env
  BY DEF NewEnv, Env
<1>s. ASSUME UNCHANGED <<envs, g_envs>> PROVE Goal
  BY <1>s DEF TypeInv
<1>e. ASSUME InCall(t, "OpenFile") \/ InCall(t, "Connect") \/ InCall(t, "Disconnect"),
             \E e \in Env : Sets(t, e), g_envs' = g_envs
      PROVE  Goal
  <2>1. call[t].env \in DOMAIN envs
    BY <1>e DEF TypeInv, InCall
  <2>2. PICK e \in Env : Sets(t, e)
    BY <1>e
  <2>3. DOMAIN envs' = DOMAIN envs /\ \E n \in 0 .. MaxEnvs : envs' \in [1 .. n -> Env]
    BY <2>1, <2>2, SetsTyped
  <2> QED
    BY <1>e, <2>3 DEF TypeInv
<1>t. ASSUME InCall(t, "Connect") \/ InCall(t, "Disconnect")
      PROVE  TheEnv(t) \in Env
  BY <1>t DEF InCall, TheEnv, TypeInv
<1>1. CASE OpenSession(t)
  <2>1. CASE UNCHANGED <<envs, g_envs>>
    BY <1>s, <2>1
  <2>2. CASE ~UNCHANGED <<envs, g_envs>>
    <3> DEFINE e == Cardinality(DOMAIN envs) + 1
    <3>1. /\ FirstAvailable # MaxHandle /\ Cardinality(DOMAIN envs) < MaxEnvs
          /\ envs' = [x \in 1 .. e |-> IF x = e THEN NewEnv ELSE envs[x]]
          /\ g_envs' = [h \in DOMAIN g_envs \cup {FirstAvailable} |->
                          IF h = FirstAvailable THEN e ELSE g_envs[h]]
      BY <1>1, <2>2 DEF OpenSession, UsedUp
    <3>2. PICK n \in 0 .. MaxEnvs : envs \in [1 .. n -> Env]
      BY DEF TypeInv
    <3>3. n \in Nat /\ Cardinality(DOMAIN envs) = n
      <4>1. Cardinality(1 .. n) = n
        BY <3>2, FS_Interval
      <4> QED
        BY <3>2, <4>1
    <3>4. FirstAvailable \in 0 .. MaxHandle - 1
      <4>1. IsFiniteSet(0 .. MaxHandle - 1) /\ Cardinality(0 .. MaxHandle - 1) = MaxHandle
        BY FS_Interval, ApiAssumption
      <4>2. IsFiniteSet(DOMAIN g_envs) /\ Cardinality(DOMAIN g_envs) <= MaxHandle
        BY <4>1, FS_Subset DEF TypeInv
      <4>3. Cardinality(DOMAIN g_envs) \in Nat
        BY <4>2, FS_CardinalityType
      <4>4. FirstAvailable \in 0 .. Cardinality(DOMAIN g_envs)
        BY <4>2, FirstAvailableIsFree
      <4> QED
        BY <3>1, <4>2, <4>3, <4>4, ApiAssumption
    <3>5. envs' \in [1 .. n + 1 -> Env] /\ n + 1 \in 0 .. MaxEnvs
      <4>1. n + 1 \in 0 .. MaxEnvs
        BY <3>1, <3>2, <3>3, ApiAssumption
      <4> QED
        BY <1>n, <3>1, <3>2, <3>3, <4>1
    <3>6. g_envs' \in [DOMAIN g_envs \cup {FirstAvailable} -> DOMAIN envs']
      BY <3>1, <3>2, <3>3, <3>5 DEF TypeInv
    <3> HIDE DEF e
    <3> QED
      BY <3>2, <3>3, <3>4, <3>5, <3>6 DEF TypeInv
  <2> QED
    BY <2>1, <2>2
<1>2. CASE CloseSession(t)
  <2>1. CASE UNCHANGED <<envs, g_envs>>
    BY <1>s, <2>1
  <2>2. CASE ~UNCHANGED <<envs, g_envs>>
    <3> DEFINE h == call[t].handle
    <3>1. /\ Known(h)
          /\ g_envs' = [x \in DOMAIN g_envs \ {h} |-> g_envs[x]]
          /\ envs' = envs \/ envs' = [envs EXCEPT ![g_envs[h]] = NewEnv]
      BY <1>2, <2>2 DEF CloseSession
    <3>2. DOMAIN envs' = DOMAIN envs /\ \E n \in 0 .. MaxEnvs : envs' \in [1 .. n -> Env]
      BY <1>n, <3>1 DEF TypeInv
    <3> QED
      BY <3>1, <3>2 DEF TypeInv
  <2> QED
    BY <2>1, <2>2
<1>3. CASE Informs(t)
  BY <1>s, <1>3 DEF Informs
<1>4. CASE OpenFile(t)
  <2>1. CASE envs' = envs
    BY <1>s, <1>4, <2>1 DEF OpenFile
  <2>2. CASE envs' # envs
    <3>1. Sets(t, [NewEnv EXCEPT !.impl = "real"]) /\ g_envs' = g_envs /\ InCall(t, "OpenFile")
      BY <1>4, <2>2 DEF OpenFile, Sets
    <3>2. [NewEnv EXCEPT !.impl = "real"] \in Env
      BY DEF NewEnv, Env
    <3> QED
      BY <1>e, <3>1, <3>2
  <2> QED
    BY <2>1, <2>2
<1>5. CASE NotConfigured(t)
  BY <1>s, <1>5 DEF NotConfigured
<1>6. CASE Connect(t)
  <2>1. InCall(t, "Connect") /\ g_envs' = g_envs
    BY <1>6 DEF Connect, Configured
  <2>2. TheEnv(t) \in Env
    BY <1>t, <2>1
  <2>3. \E e \in Env : Sets(t, e)
    BY <1>6, <2>2 DEF Connect, WithNewTransport, TransportOpened, Env
  <2> QED
    BY <1>e, <2>1, <2>3
<1>7. CASE Disconnect(t)
  <2>1. CASE envs' = envs
    BY <1>s, <1>7, <2>1 DEF Disconnect
  <2>2. CASE envs' # envs
    <3>1. InCall(t, "Disconnect") /\ g_envs' = g_envs
      BY <1>7 DEF Disconnect, Configured
    <3>2. TheEnv(t) \in Env
      BY <1>t, <3>1
    <3>3. PICK works \in BOOLEAN : Sets(t, Terminated(TheEnv(t), works))
      BY <1>7, <2>2 DEF Disconnect
    <3>4. Terminated(TheEnv(t), works) \in Env
      BY <3>2 DEF Terminated, TransportGivenUp, Env
    <3> QED
      BY <1>e, <3>1, <3>3, <3>4
  <2> QED
    BY <2>1, <2>2
<1>8. CASE UseMemAp(t)
  BY <1>s, <1>8 DEF UseMemAp
<1>9. CASE UseStreamingTrace(t)
  BY <1>s, <1>9 DEF UseStreamingTrace
<1> QED
  BY <1>1, <1>2, <1>3, <1>4, <1>5, <1>6, <1>7, <1>8, <1>9 DEF Run

LEMMA TypeInit == ApiInit => TypeInv
<1> SUFFICES ASSUME ApiInit PROVE TypeInv
  OBVIOUS
<1>1. envs \in [1 .. 0 -> Env] /\ 0 \in 0 .. MaxEnvs /\ DOMAIN envs = {}
  BY ApiAssumption DEF ApiInit
<1>2. g_envs \in [DOMAIN g_envs -> DOMAIN envs] /\ DOMAIN g_envs = {}
  BY DEF ApiInit
<1> QED
  BY <1>1, <1>2, NoCallAssumption DEF ApiInit, TypeInv, Outcomes

LEMMA TypeStep == TypeInv /\ [ApiNext]_apiVars => TypeInv'
<1> SUFFICES ASSUME TypeInv, [ApiNext]_apiVars PROVE TypeInv'
  OBVIOUS
<1>1. ASSUME NEW t \in Threads, NEW fn \in HandleCalls \cup {"Open", "GetVersion"},
             NEW h \in Handles, Begin(t, fn, h)
      PROVE  TypeInv'
  <2> DEFINE needsEnv == fn \in HandleCalls \ {"Close"}
             lost == needsEnv /\ ~Known(h)
             new  == [fn |-> fn, outcome |-> IF lost THEN "INVHANDLE" ELSE "none",
                      handle |-> IF fn = "Close" THEN h ELSE 0,
                      pc  |-> IF lost THEN "store" ELSE "run",
                      env |-> IF needsEnv /\ ~lost THEN g_envs[h] ELSE 0]
  <2>1. call' = [call EXCEPT ![t] = new] /\ t \in Callers
    BY <1>1 DEF Begin
  <2>2. UNCHANGED <<lib, envs, g_envs, g_err>>
    BY <1>1 DEF Begin
  <2>3. new.env \in DOMAIN envs \cup {0} /\ (needsEnv /\ ~lost => new.env \in DOMAIN envs)
    BY DEF TypeInv, Known
  <2>4. new \in Call
    <3>1. DOMAIN envs \cup {0} \subseteq 0 .. MaxEnvs
      BY ApiAssumption DEF TypeInv
    <3>2. 0 \in Handles
      BY ApiAssumption DEF Handles
    <3>3. fn \in MemApCalls \cup StreamingCalls \cup {"Open", "GetVersion", "Close"}
      BY DEF HandleCalls
    <3>4. new.outcome \in Outcomes \cup {"none"} /\ new.pc \in {"run", "store", "return"}
      BY DEF Outcomes
    <3> QED
      BY <2>3, <3>1, <3>2, <3>3, <3>4 DEF Call
  <2>5. Callers' = Callers
    BY <2>2 DEF Callers
  <2>6. ASSUME NEW u \in Threads, call'[u] # NoCall
        PROVE  /\ u \in Callers'
               /\ call'[u].env \in DOMAIN envs' \cup {0}
               /\ call'[u].pc = "store" => call'[u].outcome \in Outcomes
               /\ call'[u].pc = "run" /\ call'[u].fn \notin {"Open", "GetVersion", "Close"}
                    => call'[u].env \in DOMAIN envs'
    <3>1. CASE u = t
      <4>1. call'[u] = new
        BY <2>1, <3>1 DEF TypeInv
      <4>2. new.pc = "store" => new.outcome \in Outcomes
        BY DEF Outcomes
      <4>3. new.pc = "run" /\ new.fn \notin {"Open", "GetVersion", "Close"} => needsEnv /\ ~lost
        OBVIOUS
      <4> HIDE DEF new
      <4> QED
        BY <2>1, <2>2, <2>3, <2>5, <3>1, <4>1, <4>2, <4>3
    <3>2. CASE u # t
      <4>1. call'[u] = call[u]
        BY <2>1, <3>2 DEF TypeInv
      <4> QED
        BY <2>2, <2>5, <2>6, <4>1 DEF TypeInv
    <3> QED
      BY <3>1, <3>2
  <2>7. /\ told' \in [Threads -> Outcomes \cup {"none"}]
        /\ became' \in [Threads -> Outcomes \cup {"none"}]
    BY <1>1 DEF Begin, TypeInv, Outcomes
  <2>8. call' \in [Threads -> Call \cup {NoCall}]
    <3> HIDE DEF new
    <3> QED
      BY <2>1, <2>4 DEF TypeInv
  <2> QED
    BY <2>2, <2>6, <2>7, <2>8 DEF TypeInv
<1>2. ASSUME NEW t \in Threads, Run(t)
      PROVE  TypeInv'
  <2>1. call[t] # NoCall /\ UNCHANGED <<lib, g_err, told>>
    BY <1>2, RunIsLocal
  <2>2. PICK o \in Outcomes : Becomes(t, o)
    BY <1>2, RunIsLocal
  <2>3. DOMAIN envs \subseteq DOMAIN envs'
    BY <1>2, SessionsTyped
  <2> QED
    BY <1>2, <2>1, <2>2, <2>3, BecomesTyped, SessionsTyped DEF TypeInv
<1>3. ASSUME NEW t \in Threads, StoreError(t)
      PROVE  TypeInv'
  <2>1. call[t] \in Call /\ call[t].outcome \in Outcomes
    BY <1>3 DEF StoreError, TypeInv
  <2>2. g_err' \in [Threads -> Outcomes]
    BY <1>3, <2>1, SlotIsThread DEF StoreError, TypeInv
  <2>3. call' \in [Threads -> Call \cup {NoCall}]
    BY <1>3, <2>1 DEF StoreError, TypeInv, Call
  <2>4. Callers' = Callers
    BY <1>3 DEF StoreError, Callers
  <2>5. \A u \in Threads :
          /\ u # t => call'[u] = call[u]
          /\ u = t => /\ call'[u].pc = "return" /\ call'[u].env = call[u].env
                      /\ call[u] # NoCall
    BY <1>3, <2>1 DEF StoreError, TypeInv, Call
  <2> QED
    BY <1>3, <2>2, <2>3, <2>4, <2>5 DEF StoreError, TypeInv
<1>4. ASSUME NEW t \in Threads, Return(t)
      PROVE  TypeInv'
  <2>1. LastErrorCode(t) \in Outcomes
    BY SlotIsThread DEF LastErrorCode, TypeInv
  <2>2. told' \in [Threads -> Outcomes \cup {"none"}]
    BY <1>4, <2>1 DEF Return, TypeInv
  <2>3. call' \in [Threads -> Call \cup {NoCall}]
    BY <1>4 DEF Return, TypeInv
  <2>4. Callers' = Callers
    BY <1>4 DEF Return, Callers
  <2>5. \A u \in Threads : call'[u] # NoCall => call'[u] = call[u]
    BY <1>4 DEF Return, TypeInv
  <2> QED
    BY <1>4, <2>2, <2>3, <2>4, <2>5 DEF Return, TypeInv
<1>5. ASSUME NEW t \in Threads, GetLastError(t)
      PROVE  TypeInv'
  <2>1. LastErrorCode(t) \in Outcomes
    BY SlotIsThread DEF LastErrorCode, TypeInv
  <2>2. Callers' = Callers
    BY <1>5 DEF GetLastError, Callers
  <2> QED
    BY <1>5, <2>1, <2>2 DEF GetLastError, TypeInv
<1>6. CASE UNCHANGED apiVars
  BY <1>6 DEF apiVars, TypeInv, Callers
<1>7. 0 \in Handles
  BY ApiAssumption DEF Handles
<1> QED
  BY <1>1, <1>2, <1>3, <1>4, <1>5, <1>6, <1>7 DEF ApiNext

\* Every state of a library is of the declared types: handles and references
\* lead to environments that exist.
THEOREM ApiTypeCorrect == ApiSpec => []ApiTypeOK
<1>1. TypeInv => ApiTypeOK
  <2> SUFFICES ASSUME TypeInv PROVE ApiTypeOK
    OBVIOUS
  <2>1. PICK n \in 0 .. MaxEnvs : envs \in [1 .. n -> Env]
    BY DEF TypeInv
  <2>2. DOMAIN envs \subseteq 1 .. MaxEnvs /\ \A e \in DOMAIN envs : envs[e] \in Env
    BY <2>1, ApiAssumption
  <2> QED
    BY <2>2 DEF ApiTypeOK, TypeInv
<1> QED
  BY <1>1, TypeInit, TypeStep, PTL DEF ApiSpec

-----------------------------------------------------------------------------
(* The last error *)

\* Where a call's outcome is while the call is under way, and after it.
Accounted(t) ==
  /\ call[t] # NoCall => told[t] = "none"
  /\ call[t] # NoCall /\ call[t].pc = "store" => call[t].outcome = became[t]
  /\ became[t] # "none" /\ (call[t] = NoCall \/ call[t].pc = "return") =>
       t \in Callers /\ LastErrorCode(t) = became[t]
  /\ told[t] # "none" /\ became[t] # "none" => told[t] = became[t]

OutcomeInv == \A t \in Threads : Accounted(t)

\* No two callers share a last error.
LEMMA SlotsDiffer ==
  ASSUME NEW t \in Callers, NEW u \in Callers, t # u
  PROVE  Slot(t) # Slot(u)
BY DEF Callers, Slot

LEMMA OutcomeStep ==
  TypeInv /\ OutcomeInv /\ [ApiNext]_apiVars => OutcomeInv'
<1> SUFFICES ASSUME TypeInv, OutcomeInv, [ApiNext]_apiVars PROVE OutcomeInv'
  OBVIOUS
<1>1. ASSUME NEW t \in Threads, NEW fn, NEW h, Begin(t, fn, h)
      PROVE  OutcomeInv'
  <2>1. UNCHANGED <<lib, g_err>>
    BY <1>1 DEF Begin
  <2>2. told' = [told EXCEPT ![t] = "none"]
    BY <1>1 DEF Begin
  <2>3. \A u \in Threads : u # t => call'[u] = call[u] /\ became'[u] = became[u]
    BY <1>1 DEF Begin, TypeInv
  <2>4. call'[t].outcome = became'[t] /\ call'[t].pc \in {"store", "run"}
    BY <1>1 DEF Begin, TypeInv
  <2>5. became'[t] # "none" => call'[t].pc = "store" /\ call'[t] # NoCall
    <3>1. CASE became'[t] = "none"
      BY <3>1
    <3>2. CASE became'[t] # "none"
      <4>1. call'[t].pc = "store"
        BY <1>1, <3>2 DEF Begin, TypeInv
      <4>2. call'[t] # NoCall
        <5>1. call' = [call EXCEPT ![t] = [fn |-> fn, outcome |-> "INVHANDLE",
                         handle |-> IF fn = "Close" THEN h ELSE 0,
                         pc |-> "store", env |-> 0]]
          BY <1>1, <3>2 DEF Begin, TypeInv
        <5>2. fn \in HandleCalls \ {"Close"}
          BY <1>1, <3>2 DEF Begin, TypeInv
        <5>3. 0 \in Handles /\ 0 \in 0 .. MaxEnvs
          BY ApiAssumption DEF Handles
        <5>4. [fn |-> fn, outcome |-> "INVHANDLE", handle |-> IF fn = "Close" THEN h ELSE 0,
               pc |-> "store", env |-> 0] \in Call
          BY <5>2, <5>3 DEF Call, HandleCalls, Outcomes
        <5> QED
          BY <5>1, <5>4, NoCallAssumption DEF TypeInv
      <4> QED
        BY <4>1, <4>2
    <3> QED
      BY <3>1, <3>2
  <2>6. ASSUME NEW u \in Threads PROVE Accounted(u)'
    <3>1. CASE u = t
      BY <2>2, <2>4, <2>5, <3>1 DEF TypeInv, Accounted
    <3>2. CASE u # t
      BY <2>1, <2>2, <2>3, <3>2 DEF TypeInv, OutcomeInv, Accounted, LastErrorCode, Slot, Callers
    <3> QED
      BY <3>1, <3>2
  <2> QED
    BY <2>6 DEF OutcomeInv, Accounted
<1>2. ASSUME NEW t \in Threads, Run(t)
      PROVE  OutcomeInv'
  <2>1. call[t] # NoCall /\ UNCHANGED <<lib, g_err, told>>
    BY <1>2, RunIsLocal
  <2>2. PICK o \in Outcomes : Becomes(t, o)
    BY <1>2, RunIsLocal
  <2>3. call[t] \in Call
    BY <2>1 DEF TypeInv
  <2>4. call'[t].pc = "store" /\ call'[t].outcome = o /\ became'[t] = o /\ call'[t] # NoCall
    <3>1. call'[t] = [call[t] EXCEPT !.pc = "store", !.outcome = o, !.env = 0, !.handle = 0]
      BY <2>2 DEF Becomes, TypeInv
    <3>2. 0 \in Handles /\ 0 \in 0 .. MaxEnvs
      BY ApiAssumption DEF Handles
    <3>3. call'[t] \in Call
      BY <2>3, <3>1, <3>2 DEF Call
    <3>4. call'[t] # NoCall
      BY <3>3, NoCallAssumption
    <3>5. call'[t].pc = "store" /\ call'[t].outcome = o
      BY <2>3, <3>1 DEF Call
    <3>6. became'[t] = o
      BY <2>2 DEF Becomes, TypeInv
    <3> QED
      BY <3>4, <3>5, <3>6
  <2>5. \A u \in Threads : u # t => call'[u] = call[u] /\ became'[u] = became[u]
    BY <2>2 DEF Becomes, TypeInv
  <2> QED
    BY <2>1, <2>4, <2>5 DEF OutcomeInv, Accounted, LastErrorCode, Slot, Callers
<1>3. ASSUME NEW t \in Threads, StoreError(t)
      PROVE  OutcomeInv'
  <2>1. call[t] \in Call /\ call[t] # NoCall /\ t \in Callers /\ call[t].pc = "store"
    BY <1>3 DEF StoreError, TypeInv
  <2>2. Callers' = Callers /\ \A u : Slot(u)' = Slot(u)
    BY <1>3 DEF StoreError, Callers, Slot
  <2>3. LastErrorCode(t)' = became[t]
    BY <1>3, <2>1, <2>2, SlotIsThread DEF StoreError, OutcomeInv, Accounted, LastErrorCode, TypeInv
  <2>4. \A u \in Threads : u # t /\ u \in Callers => LastErrorCode(u)' = LastErrorCode(u)
    BY <1>3, <2>1, <2>2, SlotIsThread, SlotsDiffer DEF StoreError, LastErrorCode, TypeInv
  <2>5. call'[t].pc = "return" /\ \A u \in Threads : u # t => call'[u] = call[u]
    BY <1>3, <2>1 DEF StoreError, TypeInv, Call
  <2>6. UNCHANGED <<told, became>>
    BY <1>3 DEF StoreError
  <2>7. told[t] = "none"
    BY <2>1 DEF OutcomeInv, Accounted
  <2>8. ASSUME NEW u \in Threads PROVE Accounted(u)'
    <3>1. CASE u = t
      BY <2>1, <2>2, <2>3, <2>5, <2>6, <2>7, <3>1 DEF Accounted
    <3>2. CASE u # t
      BY <2>2, <2>4, <2>5, <2>6, <3>2 DEF OutcomeInv, Accounted
    <3> QED
      BY <3>1, <3>2
  <2> QED
    BY <2>8 DEF OutcomeInv, Accounted
<1>4. ASSUME NEW t \in Threads, Return(t)
      PROVE  OutcomeInv'
  <2>1. UNCHANGED <<lib, g_err, became>> /\ call'[t] = NoCall
    BY <1>4 DEF Return, TypeInv
  <2>2. \A u \in Threads : u # t => call'[u] = call[u] /\ told'[u] = told[u]
    BY <1>4 DEF Return, TypeInv
  <2>3. told'[t] = "none" \/ told'[t] = LastErrorCode(t)
    BY <1>4 DEF Return, TypeInv
  <2>4. became[t] # "none" => t \in Callers /\ LastErrorCode(t) = became[t]
    BY <1>4 DEF Return, OutcomeInv, Accounted
  <2> QED
    BY <2>1, <2>2, <2>3, <2>4 DEF OutcomeInv, Accounted, LastErrorCode, Slot, Callers
<1>5. ASSUME NEW t \in Threads, GetLastError(t)
      PROVE  OutcomeInv'
  <2>1. UNCHANGED <<lib, g_err, call, became>> /\ call[t] = NoCall
    BY <1>5 DEF GetLastError
  <2>2. told' = [told EXCEPT ![t] = LastErrorCode(t)]
    BY <1>5 DEF GetLastError
  <2> QED
    BY <2>1, <2>2 DEF OutcomeInv, Accounted, TypeInv, LastErrorCode, Slot, Callers
<1>6. CASE UNCHANGED apiVars
  BY <1>6 DEF apiVars, OutcomeInv, Accounted, LastErrorCode, Slot, Callers
<1> QED
  BY <1>1, <1>2, <1>3, <1>4, <1>5, <1>6 DEF ApiNext

\* However the calls of several threads interleave, each thread is told what
\* became of its own last call.
THEOREM EachIsToldItsOwn == ApiSpec => []OwnOutcome
<1>1. ApiInit => OutcomeInv
  BY NoCallAssumption DEF ApiInit, OutcomeInv, Accounted
<1>2. OutcomeInv => OwnOutcome
  BY DEF OutcomeInv, Accounted, OwnOutcome
<1> QED
  BY <1>1, <1>2, TypeInit, TypeStep, OutcomeStep, PTL DEF ApiSpec

-----------------------------------------------------------------------------
(* Sessions *)

\* What clients hold is what the map has, and no environment is there twice.
SessionInv ==
  /\ held = {<<h, g_envs[h]>> : h \in DOMAIN g_envs}
  /\ \A h, k \in DOMAIN g_envs : g_envs[h] = g_envs[k] => h = k

LEMMA SessionStep ==
  TypeInv /\ SessionInv /\ [ApiNext]_apiVars => SessionInv'
<1> SUFFICES ASSUME TypeInv, SessionInv, [ApiNext]_apiVars PROVE SessionInv'
  OBVIOUS
<1>s. ASSUME UNCHANGED <<g_envs, held>> PROVE SessionInv'
  BY <1>s DEF SessionInv
<1>1. ASSUME NEW t \in Threads, OpenSession(t)
      PROVE  SessionInv'
  <2>1. CASE UNCHANGED <<g_envs, held>>
    BY <1>s, <2>1
  <2>2. CASE ~UNCHANGED <<g_envs, held>>
    <3> DEFINE e == Cardinality(DOMAIN envs) + 1
               f == FirstAvailable
    <3>1. /\ g_envs' = [h \in DOMAIN g_envs \cup {f} |-> IF h = f THEN e ELSE g_envs[h]]
          /\ held' = held \cup {<<f, e>>}
      BY <1>1, <2>2 DEF OpenSession
    <3>2. f \notin DOMAIN g_envs
      <4>1. IsFiniteSet(0 .. MaxHandle - 1)
        BY FS_Interval, ApiAssumption
      <4>2. IsFiniteSet(DOMAIN g_envs)
        BY <4>1, FS_Subset DEF TypeInv
      <4> QED
        BY <4>2, FirstAvailableIsFree DEF Known
    <3>3. \A h \in DOMAIN g_envs : g_envs[h] # e
      <4>1. PICK n \in 0 .. MaxEnvs : envs \in [1 .. n -> Env]
        BY DEF TypeInv
      <4>2. Cardinality(1 .. n) = n
        BY <4>1, FS_Interval
      <4>3. e = n + 1 /\ \A h \in DOMAIN g_envs : g_envs[h] \in 1 .. n
        BY <4>1, <4>2 DEF TypeInv
      <4> HIDE DEF e
      <4> QED
        BY <4>1, <4>3
    <3> HIDE DEF e, f
    <3>4. DOMAIN g_envs' = DOMAIN g_envs \cup {f} /\ g_envs'[f] = e
          /\ \A h \in DOMAIN g_envs : g_envs'[h] = g_envs[h]
      BY <3>1, <3>2
    <3>5. held' = {<<h, g_envs'[h]>> : h \in DOMAIN g_envs'}
      BY <3>1, <3>4 DEF SessionInv
    <3> QED
      BY <3>3, <3>4, <3>5 DEF SessionInv
  <2> QED
    BY <2>1, <2>2
<1>2. ASSUME NEW t \in Threads, CloseSession(t)
      PROVE  SessionInv'
  <2>1. CASE UNCHANGED <<g_envs, held>>
    BY <1>s, <2>1
  <2>2. CASE ~UNCHANGED <<g_envs, held>>
    <3> DEFINE h == call[t].handle
    <3>1. /\ g_envs' = [x \in DOMAIN g_envs \ {h} |-> g_envs[x]]
          /\ held' = {p \in held : p[1] # h}
      BY <1>2, <2>2 DEF CloseSession
    <3>2. held' = {<<x, g_envs'[x]>> : x \in DOMAIN g_envs'}
      BY <3>1 DEF SessionInv
    <3> QED
      BY <3>1, <3>2 DEF SessionInv
  <2> QED
    BY <2>1, <2>2
<1>3. ASSUME NEW t \in Threads,
             \/ \E fn, h : Begin(t, fn, h)
             \/ Informs(t) \/ OpenFile(t) \/ NotConfigured(t) \/ Connect(t) \/ Disconnect(t)
             \/ UseMemAp(t) \/ UseStreamingTrace(t)
             \/ StoreError(t) \/ Return(t) \/ GetLastError(t)
      PROVE  SessionInv'
  BY <1>s, <1>3 DEF Begin, Informs, OpenFile, NotConfigured, Connect, Disconnect, UseMemAp,
                    UseStreamingTrace, StoreError, Return, GetLastError
<1>4. CASE UNCHANGED apiVars
  BY <1>s, <1>4 DEF apiVars
<1> QED
  BY <1>1, <1>2, <1>3, <1>4 DEF ApiNext, Run

LEMMA SessionsDesignate == TypeInv /\ SessionInv => HandleDesignates
<1> SUFFICES ASSUME TypeInv, SessionInv PROVE HandleDesignates
  OBVIOUS
<1> DEFINE f == [h \in DOMAIN g_envs |-> <<h, g_envs[h]>>]
<1>1. IsFiniteSet(DOMAIN g_envs)
  <2>1. IsFiniteSet(0 .. MaxHandle - 1)
    BY FS_Interval, ApiAssumption
  <2> QED
    BY <2>1, FS_Subset DEF TypeInv
<1>2. f \in Bijection(DOMAIN g_envs, held)
  BY DEF SessionInv, Bijection, Injection, Surjection, IsInjective
<1>3. Cardinality(held) = Cardinality(DOMAIN g_envs)
  BY <1>1, <1>2, FS_Bijection DEF ExistsBijection
<1> QED
  BY <1>3 DEF SessionInv, HandleDesignates, Known

\* Every session that is open is reached by its own handle and no other.
THEOREM HandlesDesignate == ApiSpec => []HandleDesignates
<1>1. ApiInit => SessionInv
  BY DEF ApiInit, SessionInv
<1> QED
  BY <1>1, TypeInit, TypeStep, SessionStep, SessionsDesignate, PTL DEF ApiSpec

-----------------------------------------------------------------------------
(* Connections *)

\* A session is not connected while its Connect runs: the library that has
\* Connect has one caller.
LinkInv ==
  /\ ConnectedHasLink
  /\ \A t \in Threads :
       call[t] # NoCall /\ call[t].pc = "run" /\ call[t].fn = "Connect" =>
         lib = "mem_ap" /\ ~envs[call[t].env].connected

LEMMA OneMemApCaller ==
  ASSUME TypeInv, lib = "mem_ap", NEW t \in Threads, NEW u \in Threads,
         call[t] # NoCall, call[u] # NoCall
  PROVE  t = u
BY DEF TypeInv, Callers

\* A call never connects a session that has no link.
LEMMA RunKeepsLinks ==
  ASSUME TypeInv, LinkInv, NEW t \in Threads, Run(t)
  PROVE  ConnectedHasLink'
<1>n. ~NewEnv.connected
  BY DEF NewEnv
<1>s. ASSUME UNCHANGED envs PROVE ConnectedHasLink'
  BY <1>s DEF LinkInv, ConnectedHasLink
<1>e. ASSUME call[t].env \in DOMAIN envs, NEW e,
             Sets(t, e), e.connected => e.client /\ e.transport = "open"
      PROVE  ConnectedHasLink'
  BY <1>e DEF LinkInv, ConnectedHasLink, Sets, TypeInv
<1>1. CASE OpenSession(t)
  <2>1. CASE envs' # envs
    <3> DEFINE e == Cardinality(DOMAIN envs) + 1
    <3>1. envs' = [x \in 1 .. e |-> IF x = e THEN NewEnv ELSE envs[x]]
      BY <1>1, <2>1 DEF OpenSession
    <3>2. PICK n \in 0 .. MaxEnvs : envs \in [1 .. n -> Env]
      BY DEF TypeInv
    <3>3. Cardinality(DOMAIN envs) = n
      BY <3>2, FS_Interval
    <3>4. \A x \in 1 .. e : x = e \/ x \in DOMAIN envs
      BY <3>2, <3>3
    <3> HIDE DEF e
    <3>5. \A x \in DOMAIN envs' : envs'[x] = NewEnv \/ (x \in DOMAIN envs /\ envs'[x] = envs[x])
      BY <3>1, <3>4
    <3> QED
      BY <1>n, <3>5 DEF LinkInv, ConnectedHasLink
  <2> QED
    BY <1>s, <2>1
<1>2. CASE CloseSession(t)
  <2>1. CASE envs' # envs
    <3>1. envs' = [envs EXCEPT ![g_envs[call[t].handle]] = NewEnv]
      BY <1>2, <2>1 DEF CloseSession
    <3>2. \A x \in DOMAIN envs' : envs'[x] = NewEnv \/ (x \in DOMAIN envs /\ envs'[x] = envs[x])
      BY <3>1
    <3> QED
      BY <1>n, <3>2 DEF LinkInv, ConnectedHasLink
  <2> QED
    BY <1>s, <2>1
<1>3. CASE Informs(t) \/ NotConfigured(t) \/ UseMemAp(t) \/ UseStreamingTrace(t)
  BY <1>s, <1>3 DEF Informs, NotConfigured, UseMemAp, UseStreamingTrace
<1>4. CASE OpenFile(t)
  <2>1. call[t].env \in DOMAIN envs
    BY <1>4 DEF OpenFile, InCall, TypeInv
  <2>2. ~[NewEnv EXCEPT !.impl = "real"].connected
    BY DEF NewEnv
  <2> QED
    BY <1>s, <1>e, <1>4, <2>1, <2>2 DEF OpenFile, Sets
<1>5. CASE Connect(t)
  <2>1. call[t].env \in DOMAIN envs /\ ~TheEnv(t).connected /\ TheEnv(t) \in Env
    BY <1>5 DEF Connect, Configured, InCall, LinkInv, TypeInv, TheEnv
  <2> DEFINE made == WithNewTransport(TheEnv(t))
             open == TransportOpened(made)
  <2>2. ~made.connected /\ ~open.connected
    BY <2>1 DEF WithNewTransport, TransportOpened, Env
  <2>3. [open EXCEPT !.connected = TRUE].client
        /\ [open EXCEPT !.connected = TRUE].transport = "open"
    BY <2>1 DEF WithNewTransport, TransportOpened, Env
  <2>4. \/ Sets(t, made) \/ Sets(t, open) \/ Sets(t, [open EXCEPT !.connected = TRUE])
    BY <1>5 DEF Connect
  <2> HIDE DEF made, open
  <2> QED
    BY <1>e, <2>1, <2>2, <2>3, <2>4
<1>6. CASE Disconnect(t)
  <2>1. call[t].env \in DOMAIN envs /\ TheEnv(t) \in Env
    BY <1>6 DEF Disconnect, Configured, InCall, TypeInv, TheEnv
  <2>2. \A works \in BOOLEAN : ~Terminated(TheEnv(t), works).connected
    BY <2>1 DEF Terminated, TransportGivenUp, Env
  <2> QED
    BY <1>s, <1>e, <1>6, <2>1, <2>2 DEF Disconnect
<1> QED
  BY <1>1, <1>2, <1>3, <1>4, <1>5, <1>6 DEF Run

LEMMA LinkStep == TypeInv /\ LinkInv /\ [ApiNext]_apiVars => LinkInv'
<1> SUFFICES ASSUME TypeInv, LinkInv, [ApiNext]_apiVars PROVE LinkInv'
  OBVIOUS
<1>1. ASSUME NEW t \in Threads, NEW fn \in HandleCalls \cup {"Open", "GetVersion"},
             NEW h, Begin(t, fn, h)
      PROVE  LinkInv'
  <2>1. UNCHANGED <<lib, envs>> /\ \A u \in Threads : u # t => call'[u] = call[u]
    BY <1>1 DEF Begin, TypeInv
  <2>2. ASSUME call'[t].pc = "run", call'[t].fn = "Connect"
        PROVE  lib = "mem_ap" /\ ~envs[call'[t].env].connected
    <3>1. fn = "Connect"
      BY <1>1, <2>2 DEF Begin, TypeInv
    <3>2. lib = "mem_ap"
      BY <3>1 DEF HandleCalls, StreamingCalls, TypeInv
    <3>3. Known(h) /\ call'[t].env = g_envs[h]
      BY <1>1, <2>2, <3>1 DEF Begin, TypeInv
    <3> QED
      BY <1>1, <3>1, <3>2, <3>3 DEF Begin
  <2> QED
    BY <2>1, <2>2 DEF LinkInv, ConnectedHasLink
<1>2. ASSUME NEW t \in Threads, Run(t)
      PROVE  LinkInv'
  <2>1. call[t] # NoCall /\ lib' = lib
    BY <1>2, RunIsLocal
  <2>2. PICK o \in Outcomes : Becomes(t, o)
    BY <1>2, RunIsLocal
  <2>3. call'[t].pc = "store"
    BY <2>1, <2>2 DEF Becomes, TypeInv, Call
  <2>4. ASSUME NEW u \in Threads, call'[u] # NoCall, call'[u].pc = "run", call'[u].fn = "Connect"
        PROVE  FALSE
    <3>1. u # t
      BY <2>3, <2>4
    <3>2. call'[u] = call[u]
      BY <2>2, <3>1 DEF Becomes, TypeInv
    <3>3. lib = "mem_ap"
      BY <2>4, <3>2 DEF LinkInv
    <3> QED
      BY <2>1, <2>4, <3>1, <3>2, <3>3, OneMemApCaller
  <2> QED
    BY <1>2, <2>4, RunKeepsLinks DEF LinkInv
<1>3. ASSUME NEW t \in Threads, StoreError(t) \/ Return(t) \/ GetLastError(t)
      PROVE  LinkInv'
  <2>1. UNCHANGED <<lib, envs>>
    BY <1>3 DEF StoreError, Return, GetLastError
  <2>2. \A u \in Threads : call'[u] # NoCall /\ call'[u].pc = "run" => call'[u] = call[u]
    BY <1>3 DEF StoreError, Return, GetLastError, TypeInv, Call
  <2> QED
    BY <2>1, <2>2 DEF LinkInv, ConnectedHasLink
<1>4. CASE UNCHANGED apiVars
  BY <1>4 DEF apiVars, LinkInv, ConnectedHasLink
<1> QED
  BY <1>1, <1>2, <1>3, <1>4 DEF ApiNext

\* A session that believes it is connected has a client and an open transport,
\* whatever calls failed before.
THEOREM ConnectedSessionsHaveLinks == ApiSpec => []ConnectedHasLink
<1>1. ApiInit => LinkInv
  BY NoCallAssumption DEF ApiInit, LinkInv, ConnectedHasLink
<1>2. LinkInv => ConnectedHasLink
  BY DEF LinkInv
<1> QED
  BY <1>1, <1>2, TypeInit, TypeStep, LinkStep, PTL DEF ApiSpec

-----------------------------------------------------------------------------
(* A list of memory operations: the calls a client may make *)

\* MEM_AP_AccessBatch takes any list, as its operations are not looked at before
\* they are queued.
Operations ==
  [op : {"READ", "READ_RPT", "WRITE", "WRITE_RPT", "POLL_EQ", "POLL_NE", "CHECK_EQ",
         "CHECK_NE", "POLL_MASK", "POLL_VALUE"},
   addr : Addr, acc : {1, 2, 4, 8}, count : Nat, data : Seq(Nat), mask : SUBSET PollBytes]

\* What MEM_AP_Read, MEM_AP_Write and their like queue.
DirectOperations ==
  {e \in Operations : e.op \in {"READ", "READ_RPT", "WRITE", "WRITE_RPT"}}

listPath == <<memVars, listVars>>

ListPathInit ==
  /\ device \in Devices
  /\ memory \in [Addr -> Nat]
  /\ lastPoll \in {NULL} \cup Seq(Nat)
  /\ poll = NULL
  /\ RddiMemApInit

TargetStep ==
  \E a \in Addr, byte \in Nat : TargetWrites(a, byte) /\ UNCHANGED listVars

ListPathNext == RddiMemApNext(Seq(Operations), DirectOperations) \/ TargetStep

ListPathSpec == ListPathInit /\ [][ListPathNext]_listPath

-----------------------------------------------------------------------------
(* The inductive invariant of a list *)

\* What the loop has made of the first operations: each is done by the library or
\* one command, but for the last when the buffer was full.
Queued ==
  /\ Len(commands) + localOps + (IF refused THEN 1 ELSE 0) = next - 1
  /\ \A i \in 1 .. next - 1 :
       \/ Local(list[i])
       \/ \E k \in DOMAIN commands : commands[k].from = i
       \/ refused /\ i = next - 1
  /\ refused => next > 1 /\ ~Local(list[next - 1])
  /\ refused => \A k \in DOMAIN commands : commands[k].from # next - 1

\* A command is queued for one operation.
From ==
  /\ \A k \in DOMAIN commands :
       commands[k].from \in 1 .. next - 1 /\ ~Local(list[commands[k].from])
  /\ \A j, k \in DOMAIN commands : commands[j].from = commands[k].from => j = k

\* The server stops at the first command that fails.
InOrder ==
  /\ Len(ran) <= Len(commands)
  /\ \A k \in DOMAIN ran : k # Len(ran) => ran[k].ok
  /\ poll # NULL => Len(ran) < Len(commands) /\ Current.kind = "poll" /\ ~SomeFailed

\* A list with commands that returned.
Outcome ==
  phase = "returned" /\ commands # <<>> /\ ~direct =>
    IF heard
    THEN /\ ~serving
         /\ SomeFailed \/ Len(ran) = Len(commands)
         /\ opsCompleted = Succeeded + localOps
         /\ result = (IF SomeFailed THEN "failed" ELSE "success")
    ELSE opsCompleted = localOps

Phases ==
  /\ phase \in {"idle", "queueing", "sent", "returned"}
  /\ phase = "idle" => /\ commands = <<>> /\ next = 1 /\ localOps = 0 /\ ~refused
                       /\ list = <<>> /\ ~direct
  /\ phase \in {"idle", "queueing"} => ran = <<>> /\ ~serving /\ poll = NULL /\ ~heard
  /\ phase = "queueing" => ~direct
  /\ phase = "sent" => ~heard
  /\ phase \in {"sent", "returned"} => ~MoreToQueue

IsSeq(s) == \E S : s \in Seq(S)

Types ==
  /\ IsSeq(list) /\ IsSeq(commands) /\ IsSeq(ran)
  /\ next \in 1 .. Len(list) + 1
  /\ localOps \in Nat /\ refused \in BOOLEAN /\ direct \in BOOLEAN

MemApInv == Types /\ (~direct => Queued) /\ From /\ InOrder /\ Outcome /\ Phases

-----------------------------------------------------------------------------
(* Sequences and counts *)

LEMMA Appended ==
  ASSUME NEW s, IsSeq(s), NEW x
  PROVE  LET t == Append(s, x)
         IN  /\ IsSeq(t) /\ Len(s) \in Nat /\ Len(t) = Len(s) + 1
             /\ DOMAIN s = 1 .. Len(s) /\ DOMAIN t = 1 .. Len(s) + 1
             /\ \A i \in DOMAIN s : t[i] = s[i]
             /\ t[Len(s) + 1] = x
<1>1. PICK S : s \in Seq(S)
  BY DEF IsSeq
<1> DEFINE T == S \cup {x}
<1>2. s \in Seq(T) /\ x \in T
  BY <1>1
<1> HIDE DEF T
<1>3. Append(s, x) \in Seq(T)
  BY <1>2
<1> QED
  BY <1>2, <1>3 DEF IsSeq

LEMMA SeqsAre ==
  ASSUME NEW s, IsSeq(s)
  PROVE  Len(s) \in Nat /\ DOMAIN s = 1 .. Len(s) /\ (s = <<>> <=> Len(s) = 0)
BY DEF IsSeq

LEMMA EmptyIs == IsSeq(<<>>) /\ Len(<<>>) = 0 /\ DOMAIN <<>> = {}
<1>1. <<>> \in Seq({})
  OBVIOUS
<1> QED
  BY <1>1 DEF IsSeq

\* All outcomes are successes when as many succeeded as there are.
LEMMA OkCount ==
  ASSUME NEW rs, IsSeq(rs)
  PROVE  LET ok == {i \in DOMAIN rs : rs[i].ok}
         IN  /\ Cardinality(ok) \in Nat /\ Cardinality(ok) <= Len(rs)
             /\ (\A i \in DOMAIN rs : rs[i].ok) <=> Cardinality(ok) = Len(rs)
<1> DEFINE n == Len(rs)
           N == 1 .. n
           ok == {i \in DOMAIN rs : rs[i].ok}
<1>1. n \in Nat /\ DOMAIN rs = N
  BY SeqsAre
<1>3. ok \subseteq N
  BY <1>1
<1> HIDE DEF n, ok
<1>2. IsFiniteSet(N) /\ Cardinality(N) = n
  <2>1. IsFiniteSet(1 .. n) /\ Cardinality(1 .. n) = (IF 1 > n THEN 0 ELSE n - 1 + 1)
    BY <1>1, FS_Interval
  <2> QED
    BY <1>1, <2>1
<1> HIDE DEF N
<1>5. Cardinality(ok) \in Nat /\ Cardinality(ok) <= n
  BY <1>2, <1>3, FS_Subset, FS_CardinalityType
<1>6. CASE \A i \in DOMAIN rs : rs[i].ok
  <2>1. ok = N
    BY <1>1, <1>6 DEF ok
  <2> QED
    BY <1>2, <1>5, <1>6, <2>1 DEF n, ok
<1>7. CASE ~\A i \in DOMAIN rs : rs[i].ok
  <2>1. PICK i \in N : ~rs[i].ok
    BY <1>1, <1>7
  <2>2. ok \subseteq N \ {i}
    BY <1>3, <2>1 DEF ok
  <2>3. IsFiniteSet(N \ {i}) /\ Cardinality(N \ {i}) = n - 1
    BY <1>2, <2>1, FS_RemoveElement
  <2>4. Cardinality(ok) <= n - 1
    BY <2>2, <2>3, FS_Subset
  <2>5. Cardinality(ok) # n
    BY <1>1, <1>5, <2>4
  <2> QED
    BY <1>5, <1>7, <2>5 DEF n, ok
<1> QED
  BY <1>6, <1>7

\* All commands that ran succeeded, or one did not.
LEMMA SucceededIs ==
  ASSUME IsSeq(ran)
  PROVE  /\ Succeeded \in Nat /\ Succeeded <= Len(ran)
         /\ ~SomeFailed <=> Succeeded = Len(ran)
BY OkCount DEF Succeeded, SomeFailed

-----------------------------------------------------------------------------
(* It implies that the count is exact *)

LEMMA MemApInvImplies ==
  ASSUME MemApInv
  PROVE  CountExact
<1> SUFFICES ASSUME phase = "returned", commands # <<>>, ~direct
             PROVE  LET all == \A i \in DOMAIN list : Local(list[i]) \/ Performed(i) IN
                    /\ opsCompleted = Len(list) => all
                    /\ heard => /\ all => opsCompleted = Len(list)
                                /\ (result = "success") = (Succeeded = Len(commands))
  BY DEF CountExact
<1> DEFINE all == \A i \in DOMAIN list : Local(list[i]) \/ Performed(i)
           c == Len(commands)
           n == Len(list)
           r == Len(ran)
<1>1. /\ c \in Nat /\ c # 0 /\ n \in Nat /\ r \in Nat /\ r <= c
      /\ DOMAIN commands = 1 .. c /\ DOMAIN list = 1 .. n /\ DOMAIN ran = 1 .. r
      /\ next \in 1 .. n + 1 /\ localOps \in Nat /\ refused \in BOOLEAN
  BY SeqsAre DEF MemApInv, Types, InOrder
<1>2. c + localOps <= next - 1 /\ (c + localOps = next - 1 <=> ~refused)
  BY <1>1 DEF MemApInv, Queued
<1>3. Succeeded \in Nat /\ Succeeded <= r /\ (~SomeFailed <=> Succeeded = r)
  BY SucceededIs DEF MemApInv, Types
<1>4. ~refused => next = n + 1
  BY <1>1 DEF MemApInv, Phases, MoreToQueue
<1> HIDE DEF c, n, r
<1>5. ASSUME Succeeded = c, ~refused
      PROVE  all
  <2>1. r = c /\ \A k \in 1 .. r : ran[k].ok
    BY <1>1, <1>3, <1>5 DEF SomeFailed
  <2> SUFFICES ASSUME NEW i \in 1 .. n, ~Local(list[i])
               PROVE  Performed(i)
    BY <1>1
  <2>2. i \in 1 .. next - 1
    BY <1>1, <1>4, <1>5
  <2>3. PICK k \in 1 .. c : commands[k].from = i
    BY <1>1, <1>5, <2>2 DEF MemApInv, Queued
  <2> QED
    BY <1>1, <2>1, <2>3 DEF Performed
<1>6. CASE ~heard
  <2>1. opsCompleted = localOps
    BY <1>6 DEF MemApInv, Outcome
  <2>2. opsCompleted # n
    BY <1>1, <1>2, <2>1
  <2> QED
    BY <1>6, <2>2 DEF n
<1>7. CASE heard
  <2>1. /\ SomeFailed \/ r = c
        /\ opsCompleted = Succeeded + localOps
        /\ result = (IF SomeFailed THEN "failed" ELSE "success")
    BY <1>7 DEF MemApInv, Outcome, r, c
  <2>2. opsCompleted = n => all
    <3> HIDE DEF all
    <3> SUFFICES ASSUME opsCompleted = n PROVE Succeeded = c /\ ~refused
      BY <1>5
    <3> QED
      BY <1>1, <1>2, <1>3, <2>1
  <2>3. all => opsCompleted = n
    <3> SUFFICES ASSUME all PROVE opsCompleted = n
      OBVIOUS
    <3>1. ~refused
      <4> SUFFICES ASSUME refused PROVE FALSE
        OBVIOUS
      <4>1. next - 1 \in 1 .. n /\ ~Local(list[next - 1])
        BY <1>1 DEF MemApInv, Queued
      <4>2. \A k \in 1 .. r : commands[k].from # next - 1
        BY <1>1 DEF MemApInv, Queued
      <4> QED
        BY <1>1, <4>1, <4>2 DEF Performed
    <3>2. \A k \in 1 .. c : k \in 1 .. r /\ ran[k].ok
      <4> SUFFICES ASSUME NEW k \in 1 .. c
                   PROVE  k \in 1 .. r /\ ran[k].ok
        OBVIOUS
      <4>1. PICK i : i = commands[k].from
        OBVIOUS
      <4>2. i \in 1 .. n /\ ~Local(list[i])
        BY <1>1, <4>1 DEF MemApInv, From
      <4>3. PICK j \in 1 .. r : commands[j].from = i /\ ran[j].ok
        BY <1>1, <4>2 DEF Performed
      <4>4. j \in 1 .. c
        BY <1>1
      <4> QED
        BY <1>1, <4>1, <4>3, <4>4 DEF MemApInv, From
    <3>3. r = c
      <4>1. c \in 1 .. r
        BY <1>1, <3>2
      <4> QED
        BY <1>1, <4>1
    <3>4. ~SomeFailed
      BY <1>1, <3>2, <3>3 DEF SomeFailed
    <3> QED
      BY <1>1, <1>2, <1>3, <1>4, <2>1, <3>1, <3>3, <3>4
  <2>4. (result = "success") <=> (Succeeded = c)
    BY <1>1, <1>3, <2>1
  <2> QED
    BY <2>2, <2>3, <2>4 DEF n, c
<1> QED
  BY <1>6, <1>7

-----------------------------------------------------------------------------
(* The steps of a list *)

LEMMA InitHolds == ListPathInit => MemApInv
<1> SUFFICES ASSUME ListPathInit PROVE MemApInv
  OBVIOUS
<1> DEFINE z == <<>>
<1>0. IsSeq(z) /\ Len(z) = 0 /\ DOMAIN z = {}
  BY EmptyIs
<1>1. /\ list = z /\ commands = z /\ ran = z /\ next = 1 /\ localOps = 0
      /\ phase = "idle" /\ ~refused /\ ~direct /\ ~heard /\ ~serving /\ poll = NULL
      /\ refused \in BOOLEAN /\ direct \in BOOLEAN
  BY DEF ListPathInit, RddiMemApInit
<1> HIDE DEF z
<1>2. Types
  BY <1>0, <1>1 DEF Types
<1>3. Queued /\ From
  BY <1>0, <1>1 DEF Queued, From
<1>4. InOrder
  BY <1>0, <1>1 DEF InOrder
<1>5. Outcome
  BY <1>1 DEF Outcome
<1>6. Phases
  BY <1>1 DEF Phases, z
<1> QED
  BY <1>2, <1>3, <1>4, <1>5, <1>6 DEF MemApInv

LEMMA AccessBatchKeeps ==
  ASSUME MemApInv, NEW ops \in Seq(Operations), AccessBatch(ops)
  PROVE  MemApInv'
<1> USE DEF AccessBatch, memVars
<1> DEFINE z == <<>>
<1>0. IsSeq(z) /\ Len(z) = 0 /\ DOMAIN z = {}
  BY EmptyIs
<1>1. /\ commands = z /\ next = 1 /\ localOps = 0 /\ ~refused /\ ran = z /\ ~serving
      /\ poll = NULL /\ ~heard /\ ~direct
  BY DEF MemApInv, Phases
<1> HIDE DEF z
<1>2. IsSeq(ops) /\ Len(ops) \in Nat
  BY SeqsAre DEF IsSeq
<1>3. Types'
  BY <1>1, <1>2 DEF MemApInv, Types
<1>4. Queued' /\ From'
  BY <1>0, <1>1 DEF Queued, From
<1>5. InOrder'
  BY <1>0, <1>1 DEF InOrder
<1>6. Outcome' /\ Phases'
  BY <1>1 DEF Outcome, Phases, z
<1> QED
  BY <1>3, <1>4, <1>5, <1>6 DEF MemApInv

LEMMA DirectCallKeeps ==
  ASSUME MemApInv, NEW e \in DirectOperations, DirectCall(e)
  PROVE  MemApInv'
<1> USE DEF DirectCall, memVars
<1> DEFINE z == <<>>
           l == <<e>>
           c == <<Command(e, 1)>>
<1>0. /\ IsSeq(z) /\ Len(z) = 0 /\ DOMAIN z = {}
  BY EmptyIs
<1>1. /\ ran = z /\ poll = NULL /\ localOps = 0 /\ ~refused /\ refused \in BOOLEAN
  BY DEF MemApInv, Phases, Types
<1>2. /\ IsSeq(l) /\ Len(l) = 1 /\ l[1] = e
      /\ IsSeq(c) /\ Len(c) = 1 /\ DOMAIN c = 1 .. 1 /\ c[1] = Command(e, 1)
  <2> DEFINE x == Command(e, 1)
  <2> HIDE DEF x
  <2>1. <<e>> \in Seq({e}) /\ <<x>> \in Seq({x})
    OBVIOUS
  <2>2. IsSeq(<<e>>) /\ IsSeq(<<x>>)
    BY <2>1 DEF IsSeq
  <2>3. /\ Len(<<e>>) = 1 /\ <<e>>[1] = e
        /\ Len(<<x>>) = 1 /\ DOMAIN <<x>> = 1 .. 1 /\ <<x>>[1] = x
    OBVIOUS
  <2> QED
    BY <2>2, <2>3 DEF x
<1>3. c[1].from = 1
  BY <1>2 DEF Command
<1> HIDE DEF z, l, c
<1>4. /\ list' = l /\ commands' = c /\ next' = 2 /\ phase' = "sent" /\ direct' = TRUE
      /\ UNCHANGED <<localOps, refused, heard, ran, poll>>
  BY DEF l, c
<1>5. ~Local(e)
  BY DEF DirectOperations, Local
<1>6. Types'
  BY <1>1, <1>2, <1>4 DEF MemApInv, Types
<1>7. From'
  <2>1. \A k \in 1 .. 1 : k = 1
    OBVIOUS
  <2> QED
    BY <1>2, <1>3, <1>4, <1>5, <2>1 DEF From
<1>8. InOrder'
  BY <1>0, <1>1, <1>2, <1>4 DEF InOrder
<1>9. Phases' /\ Outcome'
  BY <1>1, <1>2, <1>4 DEF Phases, Outcome, MoreToQueue, MemApInv
<1> QED
  BY <1>4, <1>6, <1>7, <1>8, <1>9 DEF MemApInv

\* One turn of the loop, in which at most one command is queued.
LEMMA QueueNextKeeps ==
  ASSUME MemApInv, QueueNext
  PROVE  MemApInv'
<1> USE DEF QueueNext, memVars, returnVars
<1> DEFINE c == Len(commands)
           n == Len(list)
           e == list[next]
<1>1. /\ phase = "queueing" /\ ~direct /\ Queued /\ ~refused /\ next <= n
      /\ next \in 1 .. n + 1 /\ n \in Nat /\ c \in Nat /\ localOps \in Nat
      /\ DOMAIN commands = 1 .. c /\ DOMAIN list = 1 .. n
      /\ IsSeq(list) /\ IsSeq(commands) /\ IsSeq(ran)
  BY SeqsAre DEF MemApInv, Types, Phases, MoreToQueue
<1>2. /\ phase' = "queueing" /\ next' = next + 1 /\ ran = <<>> /\ poll = NULL
      /\ UNCHANGED <<phase, direct, list, opsCompleted, result, heard, own, serving, ran, poll>>
      /\ Len(ran) = 0 /\ DOMAIN ran = {}
  BY <1>1, EmptyIs DEF MemApInv, Phases
<1>3. /\ c + localOps = next - 1
      /\ \A i \in 1 .. next - 1 : Local(list[i]) \/ (\E k \in 1 .. c : commands[k].from = i)
      /\ \A k \in 1 .. c : commands[k].from \in 1 .. next - 1 /\ ~Local(list[commands[k].from])
      /\ \A j, k \in 1 .. c : commands[j].from = commands[k].from => j = k
  BY <1>1 DEF MemApInv, Queued, From
<1>4. IsSeq(commands') /\ localOps' \in Nat /\ refused' \in BOOLEAN /\ Queued' /\ From'
  <2>1. CASE SetLocally(e)
    <3>1. /\ Local(e) /\ localOps' = localOps + 1 /\ commands' = commands
          /\ refused' = refused /\ refused \in BOOLEAN
      BY <2>1 DEF SetLocally, MemApInv, Types
    <3> HIDE DEF c, n, e
    <3>2. \A i \in 1 .. next' - 1 :
            Local(list'[i]) \/ (\E k \in 1 .. c : commands[k].from = i)
      <4> SUFFICES ASSUME NEW i \in 1 .. next
                   PROVE  Local(list[i]) \/ (\E k \in 1 .. c : commands[k].from = i)
        BY <1>1, <1>2
      <4>1. i \in 1 .. next - 1 \/ list[i] = e
        BY <1>1 DEF e
      <4> QED
        BY <1>3, <3>1, <4>1
    <3>3. Queued'
      BY <1>1, <1>2, <1>3, <3>1, <3>2 DEF Queued, c
    <3>4. From'
      BY <1>1, <1>2, <1>3, <3>1 DEF From
    <3> QED
      BY <1>1, <3>1, <3>3, <3>4
  <2>2. CASE Queue(e) /\ c < QueueCap
    <3> DEFINE x == Command(e, next)
    <3>1. ~Local(e) /\ commands' = Append(commands, x) /\ localOps' = localOps /\ ~refused'
          /\ refused' \in BOOLEAN
      <4>1. (Len(commands) >= QueueCap) = FALSE
        BY <1>1, <2>2, RddiMemApAssumption
      <4>2. refused' = FALSE
        BY <2>2, <4>1, Zenon DEF Queue
      <4> QED
        BY <2>2, <4>2 DEF Queue
    <3>2. x.from = next
      BY DEF Command
    <3> HIDE DEF x
    <3>3. /\ IsSeq(commands') /\ Len(commands') = c + 1 /\ DOMAIN commands' = 1 .. c + 1
          /\ \A k \in 1 .. c : commands'[k] = commands[k]
          /\ commands'[c + 1] = x
      BY <1>1, <3>1, Appended
    <3> HIDE DEF c, n
    <3>4. \A k \in 1 .. c + 1 : k \in 1 .. c \/ k = c + 1
      BY <1>1
    <3>5. From'
      <4>1. \A k \in 1 .. c + 1 :
              commands'[k].from \in 1 .. next /\ ~Local(list[commands'[k].from])
        <5>1. list[next] = e /\ next \in 1 .. next
          BY <1>1
        <5>2. \A k \in 1 .. c : commands[k].from \in 1 .. next /\ ~Local(list[commands[k].from])
          BY <1>1, <1>3
        <5> HIDE DEF e
        <5> QED
          BY <3>1, <3>2, <3>3, <3>4, <5>1, <5>2
      <4>2. \A j, k \in 1 .. c + 1 : commands'[j].from = commands'[k].from => j = k
        <5>1. \A k \in 1 .. c : commands[k].from # next
          BY <1>1, <1>3
        <5> QED
          BY <1>3, <3>2, <3>3, <3>4, <5>1
      <4> QED
        BY <1>1, <1>2, <3>3, <4>1, <4>2 DEF From
    <3>6. Queued'
      <4>3. Len(commands') + localOps' + 0 = next' - 1
        BY <1>1, <1>2, <1>3, <3>1, <3>3
      <4>4. next' - 1 = next
        BY <1>1, <1>2
      <4> SUFFICES \A i \in 1 .. next :
                     Local(list[i]) \/ (\E k \in 1 .. c + 1 : commands'[k].from = i)
        BY <1>2, <3>1, <3>3, <4>3, <4>4 DEF Queued
      <4> SUFFICES ASSUME NEW i \in 1 .. next, ~Local(list[i])
                   PROVE  \E k \in 1 .. c + 1 : commands'[k].from = i
        OBVIOUS
      <4>1. CASE i = next
        <5>1. c + 1 \in 1 .. c + 1
          BY <1>1
        <5> QED
          BY <3>2, <3>3, <4>1, <5>1
      <4>2. CASE i # next
        <5>1. i \in 1 .. next - 1
          BY <1>1, <4>2
        <5>2. PICK k \in 1 .. c : commands[k].from = i
          BY <1>3, <5>1
        <5>3. k \in 1 .. c + 1
          BY <1>1
        <5> QED
          BY <3>3, <5>2, <5>3
      <4> QED
        BY <4>1, <4>2
    <3> QED
      BY <1>1, <3>1, <3>3, <3>5, <3>6
  <2>3. CASE Queue(e) /\ ~(c < QueueCap)
    <3>1. /\ ~Local(e) /\ commands' = commands /\ localOps' = localOps
          /\ refused' \in BOOLEAN /\ refused'
      <4>1. (Len(commands) >= QueueCap) = TRUE
        BY <1>1, <2>3, RddiMemApAssumption
      <4>2. refused' = TRUE
        BY <2>3, <4>1, Zenon DEF Queue
      <4> QED
        BY <2>3, <4>2 DEF Queue
    <3> HIDE DEF c, n
    <3>2. From'
      BY <1>1, <1>2, <1>3, <3>1 DEF From
    <3>3. \A k \in 1 .. c : commands[k].from # next
      BY <1>1, <1>3
    <3>4. next' - 1 = next /\ next' > 1
      BY <1>1, <1>2
    <3>5. \A i \in 1 .. next :
            Local(list[i]) \/ (\E k \in 1 .. c : commands[k].from = i) \/ i = next
      <4>1. \A i \in 1 .. next : i \in 1 .. next - 1 \/ i = next
        BY <1>1
      <4> QED
        BY <1>3, <4>1
    <3>6. Len(commands') + localOps' + 1 = next' - 1
      BY <1>1, <1>3, <3>1, <3>4 DEF c
    <3>7. Queued'
      BY <1>1, <1>2, <3>1, <3>3, <3>4, <3>5, <3>6 DEF Queued, e
    <3> QED
      BY <1>1, <3>1, <3>2, <3>7
  <2> QED
    BY <2>1, <2>2, <2>3
<1>5. next' \in 1 .. Len(list') + 1
  BY <1>1, <1>2
<1>6. Types'
  BY <1>1, <1>2, <1>4, <1>5 DEF MemApInv, Types
<1>7. InOrder'
  <2>1. Len(commands') \in Nat
    BY <1>4, SeqsAre
  <2> QED
    BY <1>2, <2>1 DEF InOrder
<1>8. Outcome' /\ Phases'
  BY <1>1, <1>2 DEF MemApInv, Outcome, Phases
<1> QED
  BY <1>4, <1>6, <1>7, <1>8 DEF MemApInv

LEMMA BatchEndKeeps ==
  ASSUME MemApInv, BatchEnd
  PROVE  MemApInv'
<1> USE DEF BatchEnd, memVars
<1>1. /\ phase = "queueing" /\ ran = <<>> /\ poll = NULL /\ ~heard /\ ~direct /\ ~MoreToQueue
      /\ UNCHANGED <<direct, list, next, localOps, commands, refused, heard, ran, poll>>
      /\ phase' \in {"returned", "sent"} /\ (phase' = "returned" => commands = <<>>)
      /\ Len(ran) = 0 /\ DOMAIN ran = {}
  BY EmptyIs DEF MemApInv, Phases
<1>2. Types' /\ Queued' /\ From'
  BY <1>1 DEF MemApInv, Types, Queued, From
<1>3. InOrder'
  BY <1>1, SeqsAre DEF MemApInv, InOrder, Types
<1>4. Outcome' /\ Phases'
  BY <1>1 DEF Outcome, Phases, MoreToQueue
<1> QED
  BY <1>2, <1>3, <1>4 DEF MemApInv

\* The server runs a command, or one sample of a poll.
LEMMA RunCommandKeeps ==
  ASSUME MemApInv, RunCommand
  PROVE  MemApInv'
<1> DEFINE c == Len(commands)
           r == Len(ran)
<1>1. /\ serving /\ ~ServerDone
      /\ UNCHANGED <<phase, direct, list, next, localOps, commands, refused,
                     opsCompleted, result, heard, serving>>
  BY DEF RunCommand, callVars, returnVars
<1>2. /\ IsSeq(commands) /\ IsSeq(ran) /\ c \in Nat /\ r \in Nat
      /\ DOMAIN ran = 1 .. r
  BY SeqsAre DEF MemApInv, Types
<1>3. r < c /\ ~SomeFailed /\ (poll # NULL => Current.kind = "poll")
  BY <1>1, <1>2 DEF ServerDone, MemApInv, InOrder
<1>4. /\ \/ ran' = ran /\ (poll' = NULL \/ Current.kind = "poll")
         \/ (\E o : Finished(o)) /\ poll' = NULL
  <2>1. CASE RunRead \/ RunWrite \/ RunCheck
    BY <1>3, <2>1 DEF RunRead, RunWrite, RunCheck, memVars
  <2>2. CASE RunPoll
    BY <2>2 DEF RunPoll, PollBegins, PollFailsEarly, PollTry, PollEnds
  <2> QED
    BY <2>1, <2>2 DEF RunCommand
<1>5. Types' /\ InOrder'
  <2>1. CASE ran' = ran /\ (poll' = NULL \/ Current.kind = "poll")
    <3>1. Current' = Current /\ (SomeFailed' <=> SomeFailed)
      BY <1>1, <2>1 DEF Current, SomeFailed
    <3> QED
      BY <1>1, <1>3, <2>1, <3>1 DEF MemApInv, Types, InOrder
  <2>2. ASSUME NEW o, Finished(o), poll' = NULL
        PROVE  Types' /\ InOrder'
    <3>1. /\ IsSeq(ran') /\ Len(ran') = r + 1 /\ DOMAIN ran' = 1 .. r + 1
          /\ \A i \in 1 .. r : ran'[i] = ran[i]
      BY <1>2, <2>2, Appended DEF Finished
    <3> HIDE DEF r, c
    <3>2. \A k \in 1 .. r + 1 : k # r + 1 => k \in 1 .. r
      BY <1>2
    <3>3. \A k \in 1 .. r : ran[k].ok
      BY <1>2, <1>3 DEF SomeFailed
    <3>4. r + 1 <= Len(commands')
      BY <1>1, <1>2, <1>3 DEF c
    <3>5. \A k \in 1 .. r + 1 : k # r + 1 => ran'[k].ok
      BY <3>1, <3>2, <3>3
    <3>6. InOrder'
      BY <2>2, <3>1, <3>4, <3>5 DEF InOrder
    <3>7. Types'
      BY <1>1, <3>1 DEF MemApInv, Types
    <3> QED
      BY <3>6, <3>7
  <2> QED
    BY <1>4, <2>1, <2>2
<1>6. (~direct => Queued)' /\ From'
  BY <1>1 DEF MemApInv, Queued, From
<1>7. Phases'
  BY <1>1 DEF MemApInv, Phases, MoreToQueue
<1>8. Outcome'
  BY <1>1 DEF MemApInv, Outcome
<1> QED
  BY <1>5, <1>6, <1>7, <1>8 DEF MemApInv

LEMMA ReplyKeeps ==
  ASSUME MemApInv, Reply
  PROVE  MemApInv'
<1>1. /\ phase = "sent" /\ ServerDone /\ phase' = "returned" /\ heard' = TRUE
      /\ opsCompleted' = Count /\ result' = (IF SomeFailed THEN "failed" ELSE "success")
      /\ serving' = FALSE
      /\ UNCHANGED <<direct, list, next, localOps, commands, refused, ran, poll>>
  BY DEF Reply, memVars
<1>2. Succeeded' = Succeeded /\ (SomeFailed' <=> SomeFailed) /\ Current' = Current
  BY <1>1 DEF Succeeded, SomeFailed, Current
<1>3. Types' /\ (~direct => Queued)' /\ From' /\ InOrder'
  BY <1>1, <1>2 DEF MemApInv, Types, Queued, From, InOrder
<1>4. Phases'
  BY <1>1 DEF MemApInv, Phases, MoreToQueue
<1>5. Outcome'
  BY <1>1, <1>2 DEF Outcome, ServerDone, Count
<1> QED
  BY <1>3, <1>4, <1>5 DEF MemApInv

LEMMA ConnectionFailsKeeps ==
  ASSUME MemApInv, ConnectionFails
  PROVE  MemApInv'
<1>1. /\ phase = "sent" /\ phase' = "returned" /\ ~heard
      /\ opsCompleted' = (IF direct THEN opsCompleted ELSE localOps)
      /\ UNCHANGED <<direct, list, next, localOps, commands, refused, heard, ran, poll>>
  BY DEF ConnectionFails, memVars, MemApInv, Phases
<1>2. (SomeFailed' <=> SomeFailed) /\ Current' = Current
  BY <1>1 DEF SomeFailed, Current
<1>3. Types' /\ (~direct => Queued)' /\ From' /\ InOrder'
  BY <1>1, <1>2 DEF MemApInv, Types, Queued, From, InOrder
<1>4. Phases'
  BY <1>1 DEF MemApInv, Phases, MoreToQueue
<1>5. Outcome'
  BY <1>1 DEF Outcome
<1> QED
  BY <1>3, <1>4, <1>5 DEF MemApInv

\* Nothing the call is about changes, except that the server may finish.
LEMMA QuietKeeps ==
  ASSUME MemApInv, UNCHANGED <<callVars, returnVars, ran, poll>>,
         serving' = serving \/ (phase = "returned" /\ ~serving')
  PROVE  MemApInv'
<1> USE DEF callVars, returnVars
<1>1. Succeeded' = Succeeded /\ (SomeFailed' <=> SomeFailed) /\ Current' = Current
  BY DEF Succeeded, SomeFailed, Current
<1>2. Types' /\ (~direct => Queued)' /\ From' /\ InOrder'
  BY <1>1 DEF MemApInv, Types, Queued, From, InOrder
<1>3. Phases'
  BY DEF MemApInv, Phases, MoreToQueue
<1>4. Outcome'
  BY <1>1 DEF MemApInv, Outcome
<1> QED
  BY <1>2, <1>3, <1>4 DEF MemApInv

LEMMA StepKeeps ==
  ASSUME MemApInv, [ListPathNext]_listPath
  PROVE  MemApInv'
<1>1. CASE ReplyLost
  BY <1>1, QuietKeeps DEF ReplyLost, memVars
<1>2. CASE TargetStep
  BY <1>2, QuietKeeps DEF TargetStep, TargetWrites, listVars
<1>3. CASE UNCHANGED listPath
  BY <1>3, QuietKeeps DEF listPath, listVars, memVars
<1> QED
  BY <1>1, <1>2, <1>3, AccessBatchKeeps, DirectCallKeeps, QueueNextKeeps, BatchEndKeeps,
     RunCommandKeeps, ReplyKeeps, ConnectionFailsKeeps
  DEF ListPathNext, RddiMemApNext

-----------------------------------------------------------------------------
(* The count *)

\* What MEM_AP_AccessBatch leaves in *opsCompleted tells whether the whole list
\* was done, whatever stopped it: a command that failed, a request buffer that
\* was full in the middle of the list, or a connection lost before the reply.
THEOREM CountIsExact == ListPathSpec => []CountExact
<1>1. MemApInv /\ [ListPathNext]_listPath => MemApInv'
  BY StepKeeps
<1>2. MemApInv => CountExact
  BY MemApInvImplies
<1> QED
  BY <1>1, <1>2, InitHolds, PTL DEF ListPathSpec

-----------------------------------------------------------------------------
(* What the device reads and writes is what the promise says *)

\* Byte i of an aligned read through a mem-ap is in the lane of its unit.
LEMMA LaneOfByte ==
  ASSUME NEW acc \in {1, 2, 4}, NEW addr \in Nat, NEW size \in Nat, NEW i \in 1 .. size,
         addr % acc = 0, size % acc = 0
  PROVE  LET u == (i - 1) \div acc
             t == addr + u * acc
             l == Lane(t, acc) + ((i - 1) % acc)
         IN  /\ u < size \div acc
             /\ l \in 0 .. 3 /\ l \in Lane(t, acc) .. Lane(t, acc) + acc - 1
             /\ (t \div 4) * 4 + l = addr + i - 1
<1> DEFINE x == i - 1
           u == x \div acc
           t == addr + u * acc
           r == x % acc
<1>0. x \in Nat /\ x < size
  OBVIOUS
<1>1. CASE acc = 1
  BY <1>1 DEF Lane
<1>2. CASE acc = 2
  <2>1. u \in Nat /\ r \in 0 .. 1 /\ x = 2 * u + r /\ u < size \div 2
    BY <1>0, <1>2
  <2>2. t = addr + 2 * u /\ t \in Nat /\ t % 2 = 0
    BY <1>2, <2>1
  <2>3. Lane(t, acc) = 2 * ((t % 4) \div 2)
    BY <1>2 DEF Lane
  <2> HIDE DEF x, u, t, r
  <2>4. Lane(t, acc) = t % 4 /\ t % 4 \in {0, 2}
    BY <2>2, <2>3
  <2>5. (t \div 4) * 4 + (t % 4) = t
    BY <2>2
  <2>6. (t \div 4) * 4 + ((t % 4) + r) = addr + x
    BY <2>1, <2>2, <2>5
  <2> QED
    BY <1>2, <2>1, <2>2, <2>4, <2>6 DEF x, u, t, r
<1>3. CASE acc = 4
  <2>1. u \in Nat /\ r \in 0 .. 3 /\ x = 4 * u + r /\ u < size \div 4
    BY <1>0, <1>3
  <2>2. t = addr + 4 * u /\ t \in Nat /\ t % 4 = 0
    BY <1>3, <2>1
  <2>3. Lane(t, acc) = 0
    BY <1>3 DEF Lane
  <2> HIDE DEF x, u, t, r
  <2>4. (t \div 4) * 4 = t
    BY <2>2
  <2> QED
    BY <1>3, <2>1, <2>2, <2>3, <2>4 DEF x, u, t, r
<1> QED
  BY <1>1, <1>2, <1>3

LEMMA WidthIs ==
  ASSUME NEW acc, HasWidth(acc)
  PROVE  acc \in {1, 2, 4}
BY MemAssumption DEF HasWidth

LEMMA StraightRead ==
  ASSUME HasMemory, NEW c, c.incr, c.addr \in Nat, c.size \in Nat,
         device = "mem-ap" => HasWidth(c.acc) /\ c.addr % c.acc = 0 /\ c.size % c.acc = 0
  PROVE  ReadData(c) = ListPromise!Seen(c.addr, c.size)
<1>1. CASE device = "memory"
  BY <1>1 DEF ReadData, MappedRead, Bytes, ListPromise!Seen
<1>2. CASE device = "mem-ap"
  <2> DEFINE acc == c.acc
             addr == c.addr
             size == c.size
  <2>1. acc \in {1, 2, 4} /\ addr % acc = 0 /\ size % acc = 0
    BY <1>2, WidthIs
  <2>2. ASSUME NEW i \in 1 .. size
        PROVE  LET u == (i - 1) \div acc IN
               (IF u >= size \div acc THEN UNKNOWN
                ELSE Drw(Tar(c, u), acc)[Lane(Counted(c, u), acc) + ((i - 1) % acc)])
               = memory[addr + i - 1]
    <3> DEFINE u == (i - 1) \div acc
               t == addr + u * acc
               l == Lane(t, acc) + ((i - 1) % acc)
    <3>1. /\ u < size \div acc
          /\ l \in 0 .. 3 /\ l \in Lane(t, acc) .. Lane(t, acc) + acc - 1
          /\ (t \div 4) * 4 + l = addr + i - 1
      BY <2>1, LaneOfByte
    <3>2. Tar(c, u) = t /\ Counted(c, u) = t
      BY DEF Tar, Counted
    <3>3. u \in Nat /\ size \div acc \in Nat
      BY <2>1
    <3> HIDE DEF u, l, t
    <3>4. Drw(t, acc)[l] = memory[(t \div 4) * 4 + l]
      BY <3>1 DEF Drw
    <3>5. ~(u >= size \div acc)
      BY <3>1, <3>3
    <3> QED
      BY <3>1, <3>2, <3>4, <3>5 DEF l, u
  <2>3. ApRead(c) = [i \in 1 .. size |-> memory[addr + i - 1]]
    BY <2>2 DEF ApRead
  <2> QED
    BY <1>2, <2>3 DEF ReadData, ListPromise!Seen
<1> QED
  BY <1>1, <1>2 DEF HasMemory

\* A unit that is read again and again.
LEMMA RepeatedRead ==
  ASSUME HasMemory, NEW c, ~c.incr, c.addr \in Nat, c.acc \in {1, 2, 4, 8},
         NEW n \in Nat, c.size = c.acc * n,
         device = "mem-ap" => c.acc = 4 /\ c.addr % 4 = 0
  PROVE  ReadData(c) = [k \in 1 .. c.size |-> memory[c.addr + ((k - 1) % c.acc)]]
<1> DEFINE acc == c.acc
           addr == c.addr
           size == c.size
<1>0. size \in Nat /\ (size \div acc) * acc = size
  <2>1. CASE acc = 1
    BY <2>1
  <2>2. CASE acc = 2
    BY <2>2
  <2>3. CASE acc = 4
    BY <2>3
  <2>4. CASE acc = 8
    BY <2>4
  <2> QED
    BY <2>1, <2>2, <2>3, <2>4
<1>1. CASE device = "memory"
  <2>1. \A i \in 1 .. size : ~(i > (size \div acc) * acc)
    BY <1>0
  <2> HIDE DEF acc, size
  <2>2. MappedRead(c) = [i \in 1 .. size |-> IF i > (size \div acc) * acc THEN UNKNOWN
                                             ELSE memory[addr + ((i - 1) % acc)]]
    BY DEF MappedRead, acc, size
  <2> QED
    BY <1>1, <2>1, <2>2 DEF ReadData, acc, size
<1>2. CASE device = "mem-ap"
  <2>1. acc = 4 /\ addr % 4 = 0
    BY <1>2
  <2>2. ASSUME NEW i \in 1 .. size
        PROVE  LET u == (i - 1) \div acc IN
               (IF u >= size \div acc THEN UNKNOWN
                ELSE Drw(Tar(c, u), acc)[Lane(Counted(c, u), acc) + ((i - 1) % acc)])
               = memory[addr + ((i - 1) % acc)]
    <3> DEFINE u == (i - 1) \div acc
               l == (i - 1) % acc
    <3>1. u \in Nat /\ size \div acc \in Nat /\ u < size \div acc /\ l \in 0 .. 3
      BY <1>0, <2>1
    <3>2. Tar(c, u) = addr /\ Lane(Counted(c, u), acc) = 0 /\ Lane(addr, acc) = 0
      BY <2>1 DEF Tar, Lane
    <3> HIDE DEF u, l
    <3>3. l \in Lane(addr, acc) .. Lane(addr, acc) + acc - 1
      BY <2>1, <3>1, <3>2
    <3>4. Drw(addr, acc)[l] = memory[(addr \div 4) * 4 + l]
      BY <3>1, <3>3 DEF Drw
    <3>5. (addr \div 4) * 4 = addr
      BY <2>1
    <3>6. (addr \div 4) * 4 + l = addr + l /\ 0 + l = l
      BY <3>1, <3>5
    <3>7. ~(u >= size \div acc)
      BY <3>1
    <3> QED
      BY <3>2, <3>4, <3>6, <3>7 DEF l, u
  <2>3. ApRead(c) = [i \in 1 .. size |-> memory[addr + ((i - 1) % acc)]]
    BY <2>2 DEF ApRead
  <2> QED
    BY <1>2, <2>3 DEF ReadData
<1> QED
  BY <1>1, <1>2 DEF HasMemory

-----------------------------------------------------------------------------

\* The first n units of a write of words through a mem-ap: those of a repeated
\* write go over each other.
LEMMA WordsWritten ==
  ASSUME NEW c, c.addr \in Nat, c.addr % 4 = 0, c.acc = 4, c.incr \in BOOLEAN, NEW n \in Nat
  PROVE  ApWritten(c, n) =
           [a \in Addr |->
              IF c.incr /\ a \in c.addr .. c.addr + 4 * n - 1 THEN c.data[a - c.addr + 1]
              ELSE IF ~c.incr /\ n > 0 /\ a \in c.addr .. c.addr + 3
              THEN c.data[4 * (n - 1) + a - c.addr + 1]
              ELSE memory[a]]
<1> DEFINE addr == c.addr
           Units(a) == {u \in 0 .. n - 1 : a \in Tar(c, u) .. Tar(c, u) + c.acc - 1}
           Byte(a) == LET u == Max(Units(a))
                      IN  WriteData(c, u)[Lane(Tar(c, u), c.acc) + a - Tar(c, u)]
<1>1. ApWritten(c, n) = [a \in Addr |-> IF Units(a) = {} THEN memory[a] ELSE Byte(a)]
  BY DEF ApWritten
<1>2. \A u \in Nat : Tar(c, u) = (IF c.incr THEN addr + u * 4 ELSE addr)
  BY DEF Tar, Counted
<1>3. ASSUME NEW a \in Addr, NEW v \in 0 .. n - 1, v \in Units(a),
             \A u \in Units(a) : u <= v
      PROVE  Units(a) # {} /\ Byte(a) = c.data[v * 4 + (a - Tar(c, v)) + 1]
  <2>1. \A u \in Units(a) : u \in Nat
    OBVIOUS
  <2>2. Max(Units(a)) = v
    <3> HIDE DEF Units
    <3> DEFINE m == Max(Units(a))
    <3>1. m \in Units(a) /\ \A u \in Units(a) : m >= u
      <4>1. \A u \in Units(a) : v >= u
        BY <1>3, <2>1
      <4> QED
        BY <1>3, <4>1 DEF Max
    <3>2. m \in Nat /\ v \in Nat /\ m >= v /\ m <= v
      BY <1>3, <2>1, <3>1
    <3> HIDE DEF m
    <3>3. m = v
      BY <3>2
    <3> QED
      BY <3>3 DEF m
  <2>3. v \in Nat /\ Tar(c, v) \in Nat /\ a - Tar(c, v) \in 0 .. 3 /\ a \in Nat
    <3>1. v \in Nat /\ a \in Nat
      BY DEF Addr
    <3>2. Tar(c, v) \in Nat
      BY <1>2, <3>1
    <3>3. a \in Tar(c, v) .. Tar(c, v) + 4 - 1
      BY <1>3
    <3> QED
      BY <3>1, <3>2, <3>3
  <2>4. Lane(Tar(c, v), c.acc) = 0
    BY DEF Lane
  <2>5. WriteData(c, v)[a - Tar(c, v)] = c.data[v * 4 + (a - Tar(c, v)) + 1]
    BY <2>3 DEF WriteData
  <2>6. Lane(Tar(c, v), c.acc) + a - Tar(c, v) = a - Tar(c, v)
    BY <2>3, <2>4
  <2> HIDE DEF Units
  <2> QED
    BY <1>3, <2>2, <2>5, <2>6
<1>4. CASE c.incr
  <2>1. ASSUME NEW a \in Addr
        PROVE  (IF Units(a) = {} THEN memory[a] ELSE Byte(a))
               = (IF a \in addr .. addr + 4 * n - 1 THEN c.data[a - addr + 1] ELSE memory[a])
    <3>0. a \in Nat
      BY DEF Addr
    <3>1. \A u \in Nat : Tar(c, u) = addr + u * 4
      BY <1>2, <1>4
    <3>2. \A u \in Units(a) : u \in 0 .. n - 1 /\ addr + u * 4 <= a /\ a <= addr + u * 4 + 3
      <4> SUFFICES ASSUME NEW u \in 0 .. n - 1, a \in Tar(c, u) .. Tar(c, u) + c.acc - 1
                   PROVE  addr + u * 4 <= a /\ a <= addr + u * 4 + 3
        OBVIOUS
      <4>1. u \in Nat /\ Tar(c, u) = addr + u * 4
        BY <3>1
      <4> QED
        BY <3>0, <4>1
    <3>3. CASE a \in addr .. addr + 4 * n - 1
      <4> DEFINE v == (a - addr) \div 4
      <4>1. v \in 0 .. n - 1 /\ addr + v * 4 <= a /\ a <= addr + v * 4 + 3
        <5>1. a - addr \in Nat /\ a - addr < 4 * n
          BY <3>0, <3>3
        <5>2. v \in Nat /\ v < n /\ 4 * v <= a - addr /\ a - addr <= 4 * v + 3
          BY <5>1
        <5> HIDE DEF v
        <5> QED
          BY <3>0, <5>2
      <4> HIDE DEF v
      <4>2. v \in Units(a)
        <5>1. v \in Nat /\ Tar(c, v) = addr + v * 4
          BY <3>1, <4>1
        <5>2. a \in Tar(c, v) .. Tar(c, v) + c.acc - 1
          BY <3>0, <4>1, <5>1
        <5> QED
          BY <4>1, <5>2
      <4>3. \A u \in Units(a) : u <= v
        <5> HIDE DEF Units
        <5> QED
          BY <3>0, <3>2, <4>1
      <4> HIDE DEF Units, Byte
      <4>4. Units(a) # {} /\ Byte(a) = c.data[v * 4 + (a - Tar(c, v)) + 1]
        BY <1>3, <4>1, <4>2, <4>3
      <4>5. v * 4 + (a - Tar(c, v)) + 1 = a - addr + 1
        BY <3>0, <3>1, <4>1
      <4> QED
        BY <3>3, <4>4, <4>5
    <3>4. CASE ~(a \in addr .. addr + 4 * n - 1)
      <4>1. Units(a) = {}
        <5> HIDE DEF Units
        <5>1. \A u \in Units(a) : FALSE
          BY <3>0, <3>2, <3>4
        <5> QED
          BY <5>1
      <4> HIDE DEF Units
      <4> QED
        BY <3>4, <4>1
    <3> QED
      BY <3>3, <3>4
  <2> HIDE DEF Units, Byte
  <2> QED
    BY <1>1, <1>4, <2>1
<1>5. CASE ~c.incr
  <2>1. ASSUME NEW a \in Addr
        PROVE  (IF Units(a) = {} THEN memory[a] ELSE Byte(a))
               = (IF n > 0 /\ a \in addr .. addr + 3 THEN c.data[4 * (n - 1) + a - addr + 1]
                  ELSE memory[a])
    <3>0. a \in Nat
      BY DEF Addr
    <3>1. \A u \in Nat : Tar(c, u) = addr
      BY <1>2, <1>5
    <3>2. \A u \in Units(a) : u \in 0 .. n - 1 /\ addr <= a /\ a <= addr + 3
      BY <3>0, <3>1
    <3>3. CASE n > 0 /\ a \in addr .. addr + 3
      <4>1. n - 1 \in 0 .. n - 1
        BY <3>3
      <4>2. n - 1 \in Units(a)
        BY <3>0, <3>1, <3>3, <4>1
      <4>3. \A u \in Units(a) : u <= n - 1
        <5> HIDE DEF Units
        <5> QED
          BY <3>2
      <4> HIDE DEF Units, Byte
      <4>4. Units(a) # {} /\ Byte(a) = c.data[(n - 1) * 4 + (a - Tar(c, n - 1)) + 1]
        BY <1>3, <4>1, <4>2, <4>3
      <4>5. (n - 1) * 4 + (a - Tar(c, n - 1)) + 1 = 4 * (n - 1) + a - addr + 1
        BY <3>0, <3>1, <4>1
      <4> QED
        BY <3>3, <4>4, <4>5
    <3>4. CASE ~(n > 0 /\ a \in addr .. addr + 3)
      <4>1. Units(a) = {}
        <5> HIDE DEF Units
        <5>1. \A u \in Units(a) : FALSE
          BY <3>0, <3>2, <3>4
        <5> QED
          BY <5>1
      <4> HIDE DEF Units
      <4> QED
        BY <3>4, <4>1
    <3> QED
      BY <3>3, <3>4
  <2> HIDE DEF Units, Byte
  <2> QED
    BY <1>1, <1>5, <2>1
<1> QED
  BY <1>4, <1>5

\* Of a repeated write the last element stays.
LEMMA AllWritten ==
  ASSUME HasMemory, NEW c, c.addr \in Nat, c.acc \in {1, 2, 4, 8}, c.incr \in BOOLEAN,
         NEW n \in Nat, c.size = (IF c.incr THEN n ELSE c.acc * n), ~c.incr => n > 0,
         device = "mem-ap" => c.acc = 4 /\ c.addr % 4 = 0 /\ c.size % 4 = 0
  PROVE  LET w == IF c.incr THEN n ELSE c.acc
             s == IF c.incr THEN 0 ELSE c.acc * (n - 1)
         IN  (IF device = "memory" THEN MappedWrite(c) ELSE ApWritten(c, c.size \div c.acc))
             = [a \in Addr |-> IF a \in c.addr .. c.addr + w - 1 THEN c.data[s + a - c.addr + 1]
                               ELSE memory[a]]
<1> DEFINE addr == c.addr
           w == IF c.incr THEN n ELSE c.acc
           s == IF c.incr THEN 0 ELSE c.acc * (n - 1)
           Result == [a \in Addr |-> IF a \in addr .. addr + w - 1 THEN c.data[s + a - addr + 1]
                                     ELSE memory[a]]
<1>1. CASE device = "memory"
  <2>1. (IF c.incr THEN 0 ELSE (c.size \div c.acc - 1) * c.acc) = s
    <3>1. CASE c.incr
      BY <3>1
    <3>2. CASE ~c.incr
      <4>1. CASE c.acc = 1
        BY <3>2, <4>1
      <4>2. CASE c.acc = 2
        BY <3>2, <4>2
      <4>3. CASE c.acc = 4
        BY <3>2, <4>3
      <4>4. CASE c.acc = 8
        BY <3>2, <4>4
      <4> QED
        BY <4>1, <4>2, <4>3, <4>4
    <3> QED
      BY <3>1, <3>2
  <2>2. (IF c.incr THEN c.size ELSE c.acc) = w
    OBVIOUS
  <2> HIDE DEF s, w
  <2>3. MappedWrite(c) = Result
    BY <2>1, <2>2, Zenon DEF MappedWrite
  <2> QED
    BY <1>1, <2>3 DEF s, w
<1>2. CASE device = "mem-ap"
  <2> DEFINE m == c.size \div c.acc
  <2>1. /\ c.acc = 4 /\ addr % 4 = 0 /\ m \in Nat /\ 4 * m = c.size
        /\ ~c.incr => m = n /\ m > 0
    <3>1. c.acc = 4 /\ addr % 4 = 0 /\ c.size % 4 = 0 /\ c.size \in Nat
      BY <1>2
    <3>2. m \in Nat /\ 4 * m = c.size
      BY <3>1
    <3> QED
      BY <3>1, <3>2
  <2> HIDE DEF m
  <2>2. ApWritten(c, m) =
           [a \in Addr |->
              IF c.incr /\ a \in addr .. addr + 4 * m - 1 THEN c.data[a - addr + 1]
              ELSE IF ~c.incr /\ m > 0 /\ a \in addr .. addr + 3
              THEN c.data[4 * (m - 1) + a - addr + 1]
              ELSE memory[a]]
    BY <2>1, WordsWritten
  <2>3. ApWritten(c, m) = Result
    <3>1. CASE c.incr
      <4>1. 4 * m - 1 = w - 1 /\ w - 1 = n - 1 /\ s = 0
        BY <2>1, <3>1
      <4>2. addr + 4 * m - 1 = addr + w - 1
        BY <2>1, <4>1
      <4>3. \A a \in Addr : a - addr + 1 = s + a - addr + 1
        BY <4>1 DEF Addr
      <4> HIDE DEF w, s
      <4> QED
        BY <2>2, <3>1, <4>2, <4>3
    <3>2. CASE ~c.incr
      <4>1. w = 4 /\ s = 4 * (m - 1) /\ m > 0 /\ addr + 3 = addr + w - 1
        BY <2>1, <3>2
      <4> HIDE DEF w, s
      <4> QED
        BY <2>2, <3>2, <4>1
    <3> QED
      BY <3>1, <3>2
  <2> QED
    BY <1>2, <2>3 DEF m
<1> QED
  BY <1>1, <1>2 DEF HasMemory

\* A write through a mem-ap that fails has written to its range alone.
LEMMA PartlyWritten ==
  ASSUME device = "mem-ap", NEW c, c.addr \in Nat, c.acc = 4, c.addr % 4 = 0,
         c.incr \in BOOLEAN, NEW n \in Nat, c.size = (IF c.incr THEN n ELSE 4 * n),
         NEW k \in 0 .. c.size \div 4 - 1, NEW a \in Addr,
         a \notin c.addr .. c.addr + (IF c.incr THEN n ELSE c.acc) - 1
  PROVE  ApWritten(c, k)[a] = memory[a]
<1>1. k \in Nat /\ 4 * k <= c.size /\ c.size \in Nat
  OBVIOUS
<1>2. a \in Nat
  BY DEF Addr
<1>3. ~(c.incr /\ a \in c.addr .. c.addr + 4 * k - 1)
  BY <1>1, <1>2
<1>4. ~(~c.incr /\ k > 0 /\ a \in c.addr .. c.addr + 3)
  BY <1>1, <1>2
<1>5. ApWritten(c, k) =
           [b \in Addr |->
              IF c.incr /\ b \in c.addr .. c.addr + 4 * k - 1 THEN c.data[b - c.addr + 1]
              ELSE IF ~c.incr /\ k > 0 /\ b \in c.addr .. c.addr + 3
              THEN c.data[4 * (k - 1) + b - c.addr + 1]
              ELSE memory[b]]
  BY <1>1, WordsWritten
<1> QED
  BY <1>3, <1>4, <1>5

LEMMA OffsetIn ==
  ASSUME NEW x \in Nat, NEW y \in x .. x + 3
  PROVE  \E d \in 0 .. 3 : y = x + d
<1>1. y - x \in 0 .. 3 /\ y = x + (y - x)
  OBVIOUS
<1> QED
  BY <1>1

LEMMA WordsAreTyped ==
  ASSUME memory \in [Addr -> Nat], NEW c, c.addr \in Nat, c.addr % 4 = 0, c.acc = 4,
         c.incr \in BOOLEAN, c.data \in Seq(Nat), NEW k \in Nat, 4 * k <= Len(c.data)
  PROVE  ApWritten(c, k) \in [Addr -> Nat]
<1>0. Len(c.data) \in Nat /\ \A i \in 1 .. Len(c.data) : c.data[i] \in Nat
  OBVIOUS
<1>1. \A a \in Addr : a \in c.addr .. c.addr + 4 * k - 1 => c.data[a - c.addr + 1] \in Nat
  <2> SUFFICES ASSUME NEW a \in Addr, a \in c.addr .. c.addr + 4 * k - 1
               PROVE  c.data[a - c.addr + 1] \in Nat
    OBVIOUS
  <2>1. a \in Nat
    BY DEF Addr
  <2>2. a - c.addr + 1 \in 1 .. Len(c.data)
    BY <1>0, <2>1
  <2> QED
    BY <1>0, <2>2
<1>2. \A a \in Addr : k > 0 /\ a \in c.addr .. c.addr + 3 =>
        c.data[4 * (k - 1) + a - c.addr + 1] \in Nat
  <2> SUFFICES ASSUME NEW a \in Addr, k > 0, a \in c.addr .. c.addr + 3
               PROVE  c.data[4 * (k - 1) + a - c.addr + 1] \in Nat
    OBVIOUS
  <2>1. a \in Nat
    BY DEF Addr
  <2>2. PICK x \in 0 .. 3 : a = c.addr + x
    BY <2>1, OffsetIn
  <2>3. k >= 1 /\ 4 * k <= Len(c.data)
    OBVIOUS
  <2>4. 4 * (k - 1) + a - c.addr + 1 = 4 * k - 4 + x + 1
    BY <2>2
  <2>5. 4 * k - 4 + x + 1 \in 1 .. Len(c.data)
    BY <1>0, <2>2, <2>3
  <2> QED
    BY <1>0, <2>4, <2>5
<1>3. ApWritten(c, k) =
         [a \in Addr |->
            IF c.incr /\ a \in c.addr .. c.addr + 4 * k - 1 THEN c.data[a - c.addr + 1]
            ELSE IF ~c.incr /\ k > 0 /\ a \in c.addr .. c.addr + 3
            THEN c.data[4 * (k - 1) + a - c.addr + 1]
            ELSE memory[a]]
  BY WordsWritten
<1> QED
  BY <1>1, <1>2, <1>3

LEMMA WritesAreTyped ==
  ASSUME memory \in [Addr -> Nat], NEW c, c.addr \in Nat, c.acc \in {1, 2, 4, 8},
         c.incr \in BOOLEAN, NEW n \in Nat, c.size = (IF c.incr THEN n ELSE c.acc * n),
         ~c.incr => n > 0, c.data \in Seq(Nat), Len(c.data) >= c.size, HasMemory,
         device = "mem-ap" => c.acc = 4 /\ c.addr % 4 = 0 /\ c.size % 4 = 0
  PROVE  /\ (IF device = "memory" THEN MappedWrite(c) ELSE ApWritten(c, c.size \div c.acc))
            \in [Addr -> Nat]
         /\ device = "mem-ap" =>
              \A k \in 0 .. c.size \div c.acc - 1 : ApWritten(c, k) \in [Addr -> Nat]
<1> DEFINE w == IF c.incr THEN n ELSE c.acc
           s == IF c.incr THEN 0 ELSE c.acc * (n - 1)
<1>0. \A i \in 1 .. Len(c.data) : c.data[i] \in Nat
  OBVIOUS
<1>1. (IF device = "memory" THEN MappedWrite(c) ELSE ApWritten(c, c.size \div c.acc))
        \in [Addr -> Nat]
  <2>1. w \in Nat /\ s \in Nat /\ s + w = c.size
    <3>1. CASE c.incr
      BY <3>1
    <3>2. CASE ~c.incr
      <4>1. CASE c.acc = 1
        BY <3>2, <4>1
      <4>2. CASE c.acc = 2
        BY <3>2, <4>2
      <4>3. CASE c.acc = 4
        BY <3>2, <4>3
      <4>4. CASE c.acc = 8
        BY <3>2, <4>4
      <4> QED
        BY <4>1, <4>2, <4>3, <4>4
    <3> QED
      BY <3>1, <3>2
  <2> HIDE DEF w, s
  <2>2. \A a \in Addr : a \in c.addr .. c.addr + w - 1 => c.data[s + a - c.addr + 1] \in Nat
    <3> SUFFICES ASSUME NEW a \in Addr, a \in c.addr .. c.addr + w - 1
                 PROVE  c.data[s + a - c.addr + 1] \in Nat
      OBVIOUS
    <3>1. Len(c.data) \in Nat /\ a \in Nat /\ c.size \in Nat
      BY <2>1 DEF Addr
    <3>2. s + a - c.addr + 1 \in 1 .. Len(c.data)
      BY <2>1, <3>1
    <3> QED
      BY <1>0, <3>2
  <2>3. (IF device = "memory" THEN MappedWrite(c) ELSE ApWritten(c, c.size \div c.acc))
             = [a \in Addr |-> IF a \in c.addr .. c.addr + w - 1 THEN c.data[s + a - c.addr + 1]
                               ELSE memory[a]]
    BY AllWritten DEF w, s
  <2>4. [a \in Addr |-> IF a \in c.addr .. c.addr + w - 1 THEN c.data[s + a - c.addr + 1]
                        ELSE memory[a]] \in [Addr -> Nat]
    BY <2>2
  <2> QED
    BY <2>3, <2>4
<1>2. ASSUME device = "mem-ap", NEW k \in 0 .. c.size \div c.acc - 1
      PROVE  ApWritten(c, k) \in [Addr -> Nat]
  <2>1. c.acc = 4 /\ c.addr % 4 = 0 /\ c.size % 4 = 0 /\ c.size \in Nat /\ Len(c.data) \in Nat
    BY <1>2
  <2>2. k \in Nat /\ 4 * k <= c.size
    BY <2>1
  <2>3. 4 * k <= Len(c.data)
    BY <2>1, <2>2
  <2> QED
    BY <2>1, <2>2, <2>3, WordsAreTyped
<1> QED
  BY <1>1, <1>2

-----------------------------------------------------------------------------

\* The masked comparison of a poll and a check is that of the promise.
LEMMA MatchesIsWanted ==
  ASSUME NEW c, NEW i, c.mask = ListPromise!MaskAt(i), c.value = ListPromise!ValueAt(i),
         c.mask \subseteq PollBytes, c.value \in Seq(Nat), Len(c.value) >= 4,
         c.ne \in BOOLEAN, c.ne <=> list[i].op \in {"POLL_NE", "CHECK_NE"},
         list[i].op \in {"POLL_NE", "CHECK_NE", "POLL_EQ", "CHECK_EQ"},
         NEW bytes, DOMAIN bytes = PollBytes, Len(bytes) = 4,
         NEW all, PollBytes \subseteq DOMAIN all, \A k \in PollBytes : bytes[k] = all[k]
  PROVE  Matches(bytes, c) <=> ListPromise!Wanted(all, i)
<1> DEFINE v == SubSeq(c.value, 1, Len(bytes))
           eq == \A k \in c.mask : bytes[k] = c.value[k]
<1>1. DOMAIN v = PollBytes /\ \A k \in PollBytes : v[k] = c.value[k]
  BY DEF PollBytes
<1>2. Len(v) = 4 /\ DOMAIN v = PollBytes
  BY DEF PollBytes
<1>3. DOMAIN Masked(bytes, c.mask) = PollBytes /\ DOMAIN Masked(v, c.mask) = PollBytes
  BY <1>1 DEF Masked
<1> HIDE DEF v
<1>4. (Masked(bytes, c.mask) = Masked(v, c.mask)) <=> eq
  <2>1. ASSUME eq PROVE Masked(bytes, c.mask) = Masked(v, c.mask)
    BY <1>1, <2>1 DEF Masked
  <2>2. ASSUME Masked(bytes, c.mask) = Masked(v, c.mask), NEW k \in c.mask
        PROVE  bytes[k] = c.value[k]
    <3>1. k \in PollBytes
      OBVIOUS
    <3>2. Masked(bytes, c.mask)[k] = bytes[k]
      BY <3>1 DEF Masked
    <3>3. Masked(v, c.mask)[k] = v[k]
      BY <1>1, <3>1 DEF Masked
    <3> QED
      BY <1>1, <2>2, <3>1, <3>2, <3>3
  <2> QED
    BY <2>1, <2>2
<1>5. ListPromise!Agrees(all, i) <=> eq
  <2>1. ListPromise!MaskAt(i) \cap DOMAIN all = c.mask
    OBVIOUS
  <2>2. \A k \in c.mask : bytes[k] = all[k]
    OBVIOUS
  <2> QED
    BY <2>1, <2>2 DEF ListPromise!Agrees
<1>6. Matches(bytes, c) <=> (eq <=> ~c.ne)
  <2>1. Matches(bytes, c) = ((Masked(bytes, c.mask) = Masked(v, c.mask)) = ~c.ne)
    BY Zenon DEF Matches, v
  <2> HIDE DEF eq
  <2> QED
    BY <1>4, <2>1
<1>7. ListPromise!Wanted(all, i) <=> (eq <=> ~c.ne)
  <2>1. list[i].op \in {"POLL_EQ", "CHECK_EQ"} <=> ~c.ne
    OBVIOUS
  <2> DEFINE A == \A k \in ListPromise!MaskAt(i) \cap DOMAIN all :
                    all[k] = ListPromise!ValueAt(i)[k]
             B == list[i].op \in {"POLL_EQ", "CHECK_EQ"}
  <2>2. ListPromise!Wanted(all, i) = (A = B)
    BY Zenon DEF ListPromise!Wanted, ListPromise!Agrees
  <2>3. A <=> eq
    BY <1>5 DEF ListPromise!Agrees
  <2>4. (A = B) <=> (A <=> B)
    <3>1. A \in BOOLEAN /\ B \in BOOLEAN
      OBVIOUS
    <3> HIDE DEF A, B
    <3> QED
      BY <3>1
  <2>5. ListPromise!Wanted(all, i) <=> (A = B)
    BY <2>2
  <2> HIDE DEF A, B, eq
  <2> QED
    BY <2>1, <2>3, <2>4, <2>5 DEF B
<1> QED
  BY <1>6, <1>7

-----------------------------------------------------------------------------
(* The refinement: the lists the promise is kept for *)

Reads(e)  == e.op \in {"READ", "READ_RPT"}
Writes(e) == e.op \in {"WRITE", "WRITE_RPT"}
Amount(e) == IF Repeats(e) THEN e.acc * e.count ELSE e.count
ByWords(e) == e.acc = 4 /\ e.addr % 4 = 0

\* Operations that bring the data they need and, on a mem-ap, that it performs as
\* memory would: writes of words, reads that are aligned, polls of one sample.
\* The others are what the promise is broken for: a mem-ap misplaces narrower
\* writes and ends a poll at the first sample that does not match.
Proper(e) ==
  /\ e \in Operations
  /\ Writes(e) => Len(e.data) >= Amount(e)
  /\ e.op = "WRITE_RPT" => e.count > 0
  /\ e.op = "POLL_VALUE" => Len(e.data) = 4
  /\ Polls(e) => e.addr + 3 \in Addr
  /\ device = "mem-ap" =>
       /\ Writes(e) => ByWords(e) /\ Amount(e) % 4 = 0
       /\ e.op = "READ" => e.addr % e.acc = 0 /\ e.count % e.acc = 0
       /\ e.op = "READ_RPT" => ByWords(e)
       /\ Polls(e) => ByWords(e) /\ e.count <= 1

ProperLists == {ops \in Seq(Operations) : ops # <<>> /\ \A i \in DOMAIN ops : Proper(ops[i])}
ProperCalls == {e \in DirectOperations : Proper(e)}

ProperNext == RddiMemApNext(ProperLists, ProperCalls) \/ TargetStep
ProperSpec == ListPathInit /\ [][ProperNext]_listPath

-----------------------------------------------------------------------------
(* The inductive invariant *)

Typed ==
  /\ device \in Devices
  /\ memory \in [Addr -> Nat]
  /\ lastPoll \in {NULL} \cup Seq(Nat \cup {UNKNOWN})
  /\ poll = NULL \/ poll \in Polling
  /\ \A i \in DOMAIN list : Proper(list[i])
  /\ list = <<>> <=> phase = "idle"

\* The loop's locals are the settings in force.
InForce ==
  phase \in {"idle", "queueing"} =>
    /\ pollMask = ListPromise!MaskAt(next) /\ pollMask \subseteq PollBytes
    /\ pollValue = ListPromise!ValueAt(next)
    /\ pollValue \in Seq(Nat) /\ Len(pollValue) = 4

\* A command asks what its operation does.
Asks(c, e) ==
  /\ c = [kind |-> c.kind, addr |-> e.addr, size |-> c.size, acc |-> e.acc, incr |-> c.incr,
          tries |-> c.tries, mask |-> c.mask, value |-> c.value, ne |-> c.ne,
          data |-> e.data, from |-> c.from]
  /\ c.kind = (IF Writes(e) THEN "write" ELSE IF Reads(e) THEN "read"
               ELSE IF Polls(e) THEN "poll" ELSE "check")
  /\ c.size = (IF Polls(e) \/ Checks(e) THEN 4 ELSE Amount(e))
  /\ c.incr \in BOOLEAN /\ (c.incr <=> ~Repeats(e))
  /\ c.tries = (IF Polls(e) THEN e.count ELSE 0)
  /\ c.mask \subseteq PollBytes
  /\ c.value \in Seq(Nat) /\ Len(c.value) >= 4
  /\ c.ne \in BOOLEAN /\ (c.ne <=> e.op \in {"POLL_NE", "CHECK_NE"})

\* So do those queued, with the settings in force at its place in the list, and
\* they are in the order of their operations.
Sorted ==
  /\ \A k \in DOMAIN commands :
       /\ Asks(commands[k], list[commands[k].from])
       /\ commands[k].mask = ListPromise!MaskAt(commands[k].from)
       /\ commands[k].value = ListPromise!ValueAt(commands[k].from)
  /\ \A j, k \in DOMAIN commands : j < k => commands[j].from < commands[k].from
  /\ direct => next = 2 /\ Len(commands) = 1

\* What the caller sees before a reply.
Unheard ==
  /\ ~heard => own = [i \in DOMAIN list |-> NULL]
  /\ serving /\ phase = "returned" => result = "failed"

\* How far the poll that is running is.
Progress ==
  poll # NULL =>
    LET c == Current IN
    /\ HasMemory /\ (device = "mem-ap" => HasWidth(c.acc))
    /\ poll.left <= c.tries
    /\ \/ /\ ~poll.done /\ poll.left = c.tries
          /\ poll.res = (IF device = "memory" THEN "unset" ELSE "success")
       \/ /\ ~poll.done /\ poll.left < c.tries /\ poll.res = "no match"
          /\ device = "memory" /\ Copies(4, c.acc)
       \/ poll.done /\ poll.res = "success"
       \/ poll.done /\ poll.left = 0 /\ poll.res = "no match"
       \/ poll.done /\ poll.left = c.tries /\ poll.res = "unset" /\ ~Copies(4, c.acc)
       \/ poll.done /\ poll.left = c.tries /\ poll.res = "failed"

ListInv == Typed /\ InForce /\ Sorted /\ Unheard /\ Progress

-----------------------------------------------------------------------------
(* Settings and commands *)

LEMMA LastOfNext ==
  ASSUME NEW op, NEW i \in Nat, i > 0
  PROVE  ListPromise!LastOf(op, i + 1) = IF list[i].op = op THEN i ELSE ListPromise!LastOf(op, i)
<1> DEFINE upto(n) == {k \in 1 .. n - 1 : list[k].op = op}
<1>1. \A n : ListPromise!LastOf(op, n) = IF upto(n) = {} THEN 0
                                     ELSE CHOOSE k \in upto(n) : \A j \in upto(n) : j <= k
  BY DEF ListPromise!LastOf
<1>2. CASE list[i].op = op
  <2>1. i \in upto(i + 1)
    BY <1>2
  <2>2. \A j \in upto(i + 1) : j \in Nat /\ j <= i
    OBVIOUS
  <2> HIDE DEF upto
  <2> DEFINE m == CHOOSE k \in upto(i + 1) : \A j \in upto(i + 1) : j <= k
  <2>3. m \in upto(i + 1) /\ \A j \in upto(i + 1) : j <= m
    BY <2>1, <2>2
  <2>4. m \in Nat /\ m <= i /\ i <= m
    BY <2>1, <2>2, <2>3
  <2>5. m = i
    <3> HIDE DEF m
    <3> QED
      BY <2>4
  <2> QED
    BY <1>1, <1>2, <2>1, <2>5
<1>3. CASE list[i].op # op
  <2>1. upto(i + 1) = upto(i)
    <3>1. \A k : k \in 1 .. i + 1 - 1 <=> k \in 1 .. i - 1 \/ k = i
      OBVIOUS
    <3> QED
      BY <1>3, <3>1
  <2> HIDE DEF upto
  <2> QED
    BY <1>1, <1>3, <2>1
<1> QED
  BY <1>2, <1>3

LEMMA SettingsNext ==
  ASSUME NEW i \in Nat, i > 0
  PROVE  /\ ListPromise!MaskAt(i + 1)
            = (IF list[i].op = "POLL_MASK" THEN list[i].mask ELSE ListPromise!MaskAt(i))
         /\ ListPromise!ValueAt(i + 1)
            = (IF list[i].op = "POLL_VALUE" THEN list[i].data ELSE ListPromise!ValueAt(i))
<1>1. i # 0
  OBVIOUS
<1> QED
  BY <1>1, LastOfNext DEF ListPromise!MaskAt, ListPromise!ValueAt

LEMMA SettingsFirst ==
  ListPromise!MaskAt(1) = PollBytes /\ ListPromise!ValueAt(1) = Zero
<1>1. \A op : {k \in 1 .. 1 - 1 : list[k].op = op} = {}
  OBVIOUS
<1>2. \A op : ListPromise!LastOf(op, 1) = 0
  BY <1>1 DEF ListPromise!LastOf
<1> QED
  BY <1>2 DEF ListPromise!MaskAt, ListPromise!ValueAt, Zero, PollBytes

LEMMA ZeroIs == Zero \in Seq(Nat) /\ Len(Zero) = 4
BY DEF Zero, PollBytes

LEMMA CommandAsks ==
  ASSUME NEW e \in Operations, ~Local(e), NEW i,
         pollMask \subseteq PollBytes, pollValue \in Seq(Nat), Len(pollValue) >= 4
  PROVE  LET c == Command(e, i) IN
         Asks(c, e) /\ c.mask = pollMask /\ c.value = pollValue /\ c.from = i
<1> DEFINE c == Command(e, i)
           kind == CASE e.op \in {"WRITE", "WRITE_RPT"} -> "write"
                     [] e.op \in {"READ", "READ_RPT"}   -> "read"
                     [] Polls(e)                        -> "poll"
                     [] Checks(e)                       -> "check"
           size == IF Polls(e) \/ Checks(e) THEN 4
                   ELSE IF Repeats(e) THEN e.acc * e.count ELSE e.count
           tries == IF Polls(e) THEN e.count ELSE 0
           incr == ~Repeats(e)
           ne == e.op \in {"POLL_NE", "CHECK_NE"}
<1>1. c = [kind |-> kind, addr |-> e.addr, size |-> size, acc |-> e.acc, incr |-> incr,
           tries |-> tries, mask |-> pollMask, value |-> pollValue, ne |-> ne,
           data |-> e.data, from |-> i]
  BY Zenon DEF Command
<1>2. kind = (IF Writes(e) THEN "write" ELSE IF Reads(e) THEN "read"
              ELSE IF Polls(e) THEN "poll" ELSE "check")
  BY DEF Operations, Local, Writes, Reads, Polls, Checks
<1>3. size = (IF Polls(e) \/ Checks(e) THEN 4 ELSE Amount(e))
  BY DEF Amount
<1>5. incr \in BOOLEAN /\ (incr <=> ~Repeats(e))
  BY DEF Repeats
<1>6. ne \in BOOLEAN /\ (ne <=> e.op \in {"POLL_NE", "CHECK_NE"})
  OBVIOUS
<1>7. tries = (IF Polls(e) THEN e.count ELSE 0)
  OBVIOUS
<1> HIDE DEF c, kind, size, incr, ne, tries
<1>8. /\ c = [kind |-> c.kind, addr |-> e.addr, size |-> c.size, acc |-> e.acc, incr |-> c.incr,
              tries |-> c.tries, mask |-> c.mask, value |-> c.value, ne |-> c.ne,
              data |-> e.data, from |-> c.from]
      /\ c.kind = kind /\ c.size = size /\ c.incr = incr /\ c.tries = tries /\ c.ne = ne
      /\ c.mask = pollMask /\ c.value = pollValue /\ c.from = i
  BY <1>1
<1>9. Asks(c, e)
  BY <1>2, <1>3, <1>5, <1>6, <1>7, <1>8 DEF Asks
<1> QED
  BY <1>8, <1>9 DEF c

-----------------------------------------------------------------------------
(* The invariant holds *)

LEMMA ListInitHolds == ListPathInit => ListInv
<1> SUFFICES ASSUME ListPathInit PROVE ListInv
  OBVIOUS
<1> DEFINE z == <<>>
<1>0. IsSeq(z) /\ Len(z) = 0 /\ DOMAIN z = {}
  BY EmptyIs
<1>1. /\ list = z /\ commands = z /\ own = z /\ next = 1 /\ phase = "idle"
      /\ ~serving /\ poll = NULL
      /\ ~direct /\ pollMask = PollBytes /\ pollValue = Zero
      /\ device \in Devices /\ memory \in [Addr -> Nat] /\ lastPoll \in {NULL} \cup Seq(Nat)
  BY DEF ListPathInit, RddiMemApInit, AllBytes
<1>2. lastPoll \in {NULL} \cup Seq(Nat \cup {UNKNOWN})
  <2>1. ASSUME lastPoll \in Seq(Nat) PROVE lastPoll \in Seq(Nat \cup {UNKNOWN})
    BY <2>1
  <2> QED
    BY <1>1, <2>1
<1>3. own = [i \in DOMAIN list |-> NULL]
  BY <1>0, <1>1
<1>4. InForce
  BY <1>1, SettingsFirst, ZeroIs DEF InForce
<1> HIDE DEF z
<1>5. Typed
  BY <1>0, <1>1, <1>2 DEF Typed, z
<1>6. Sorted /\ Unheard /\ Progress
  BY <1>0, <1>1, <1>3 DEF Sorted, Unheard, Progress
<1> QED
  BY <1>4, <1>5, <1>6 DEF ListInv

LEMMA AccessBatchKeepsList ==
  ASSUME MemApInv, ListInv, NEW ops \in ProperLists, AccessBatch(ops)
  PROVE  ListInv'
<1> USE DEF AccessBatch, memVars
<1>1. /\ commands = <<>> /\ next = 1 /\ ~serving /\ poll = NULL /\ ~heard /\ ~direct
      /\ phase = "idle" /\ ops # <<>> /\ \A i \in DOMAIN ops : Proper(ops[i])
  BY DEF MemApInv, Phases, ProperLists
<1>2. Typed'
  BY <1>1 DEF ListInv, Typed, Proper
<1>3. InForce'
  <2>1. pollMask = PollBytes /\ pollValue = Zero
    BY <1>1, SettingsFirst DEF ListInv, InForce
  <2>2. \A op : {k \in 1 .. 1 - 1 : ops[k].op = op} = {}
    OBVIOUS
  <2>3. /\ (ListPromise!MaskAt(next))' = PollBytes
        /\ (ListPromise!ValueAt(next))' = Zero
    <3>1. list' = ops /\ next' = 1
      BY <1>1
    <3>2. \A op : ListPromise!LastOf(op, 1)' = 0
      BY <2>2, <3>1 DEF ListPromise!LastOf
    <3> QED
      BY <3>1, <3>2 DEF ListPromise!MaskAt, ListPromise!ValueAt, Zero, PollBytes
  <2> QED
    BY <2>1, <2>3, ZeroIs DEF InForce
<1>4. Sorted' /\ Unheard' /\ Progress'
  BY <1>1, EmptyIs DEF Sorted, Unheard, Progress
<1> QED
  BY <1>2, <1>3, <1>4 DEF ListInv

LEMMA DirectCallKeepsList ==
  ASSUME MemApInv, ListInv, NEW e \in ProperCalls, DirectCall(e)
  PROVE  ListInv'
<1> USE DEF DirectCall, memVars
<1> DEFINE l == <<e>>
           x == Command(e, 1)
           c == <<x>>
<1>1. /\ next = 1 /\ poll = NULL /\ phase = "idle" /\ ~Local(e) /\ Proper(e) /\ e \in Operations
  BY DEF MemApInv, Phases, ProperCalls, DirectOperations, Local
<1>2. /\ DOMAIN l = {1} /\ l[1] = e /\ l # <<>>
      /\ DOMAIN c = {1} /\ c[1] = x /\ Len(c) = 1
  <2> HIDE DEF x
  <2>1. /\ DOMAIN l = 1 .. 1 /\ DOMAIN c = 1 .. 1 /\ l[1] = e /\ c[1] = x
        /\ Len(c) = 1 /\ Len(l) = 1
    OBVIOUS
  <2>2. 1 .. 1 = {1}
    OBVIOUS
  <2> QED
    BY <2>1, <2>2
<1>3. pollMask = PollBytes /\ pollValue = Zero
  BY <1>1, SettingsFirst DEF ListInv, InForce
<1>4. Asks(x, e) /\ x.mask = PollBytes /\ x.value = Zero /\ x.from = 1
  BY <1>1, <1>3, ZeroIs, CommandAsks
<1>5. /\ list' = l /\ commands' = c /\ next' = 2 /\ direct' = TRUE /\ phase' = "sent"
      /\ own' = <<NULL>>
      /\ UNCHANGED <<device, memory, lastPoll, poll, heard>>
  OBVIOUS
<1> HIDE DEF x, c, l
<1>6. /\ (ListPromise!MaskAt(1))' = PollBytes
      /\ (ListPromise!ValueAt(1))' = Zero
  <2>1. \A op : {k \in 1 .. 1 - 1 : l[k].op = op} = {}
    OBVIOUS
  <2>2. \A op : ListPromise!LastOf(op, 1)' = 0
    BY <1>5, <2>1 DEF ListPromise!LastOf
  <2> QED
    BY <1>5, <2>2 DEF ListPromise!MaskAt, ListPromise!ValueAt, Zero, PollBytes
<1>7. Typed'
  BY <1>1, <1>2, <1>5 DEF ListInv, Typed, Proper
<1>8. Sorted'
  <2>1. \A k \in DOMAIN commands' : k = 1 /\ commands'[k] = x
    BY <1>2, <1>5
  <2>2. list'[1] = e
    BY <1>2, <1>5
  <2>3. ASSUME NEW k \in DOMAIN commands'
        PROVE  /\ Asks(commands'[k], list'[commands'[k].from])
               /\ commands'[k].mask = (ListPromise!MaskAt(commands[k].from))'
               /\ commands'[k].value = (ListPromise!ValueAt(commands[k].from))'
    <3>1. commands'[k] = x /\ x.from = 1
      BY <1>4, <2>1
    <3>2. (ListPromise!MaskAt(commands[k].from))' = PollBytes
      BY <1>4, <1>5, <1>6, <3>1 DEF ListPromise!MaskAt, ListPromise!LastOf
    <3>3. (ListPromise!ValueAt(commands[k].from))' = Zero
      BY <1>4, <1>5, <1>6, <3>1 DEF ListPromise!ValueAt, ListPromise!LastOf
    <3> QED
      BY <1>4, <2>2, <3>1, <3>2, <3>3
  <2>4. \A j, k \in DOMAIN commands' : j < k => commands'[j].from < commands'[k].from
    <3>1. \A j, k \in DOMAIN commands' : ~(j < k)
      BY <2>1
    <3> QED
      BY <3>1
  <2>5. next' = 2 /\ Len(commands') = 1
    BY <1>2, <1>5
  <2> QED
    BY <2>3, <2>4, <2>5 DEF Sorted
<1>9. Unheard'
  <2>1. <<NULL>> = [i \in {1} |-> NULL]
    <3>1. <<NULL>> = [i \in 1 .. 1 |-> NULL] /\ 1 .. 1 = {1}
      OBVIOUS
    <3> QED
      BY <3>1
  <2> QED
    BY <1>2, <1>5, <2>1 DEF Unheard
<1>10. InForce' /\ Progress'
  BY <1>1, <1>5 DEF InForce, Progress
<1> QED
  BY <1>7, <1>8, <1>9, <1>10 DEF ListInv

LEMMA QueueNextKeepsList ==
  ASSUME MemApInv, ListInv, QueueNext
  PROVE  ListInv'
<1> USE DEF QueueNext, memVars, returnVars
<1> DEFINE c == Len(commands)
           e == list[next]
<1>1. /\ phase = "queueing" /\ ~direct /\ poll = NULL /\ next \in Nat /\ next > 0
      /\ next \in DOMAIN list /\ IsSeq(commands) /\ DOMAIN commands = 1 .. c /\ c \in Nat
      /\ \A k \in 1 .. c : commands[k].from \in 1 .. next - 1
      /\ Proper(e) /\ e \in Operations
  <2>1. /\ phase = "queueing" /\ ~direct /\ poll = NULL /\ next \in 1 .. Len(list) + 1
        /\ next <= Len(list) /\ IsSeq(list) /\ IsSeq(commands)
        /\ \A k \in DOMAIN commands : commands[k].from \in 1 .. next - 1
    BY DEF MemApInv, Types, Phases, From, MoreToQueue
  <2>2. Len(list) \in Nat /\ DOMAIN list = 1 .. Len(list)
        /\ DOMAIN commands = 1 .. c /\ c \in Nat
    BY <2>1, SeqsAre
  <2>3. next \in Nat /\ next > 0 /\ next \in DOMAIN list
    BY <2>1, <2>2
  <2>4. Proper(e) /\ e \in Operations
    BY <2>3 DEF ListInv, Typed, Proper
  <2> QED
    BY <2>1, <2>2, <2>3, <2>4
<1>2. /\ phase' = "queueing" /\ next' = next + 1
      /\ UNCHANGED <<phase, direct, list, heard, own, serving, result, device, memory, lastPoll,
                     poll>>
  OBVIOUS
<1>3. /\ pollMask = ListPromise!MaskAt(next) /\ pollMask \subseteq PollBytes
      /\ pollValue = ListPromise!ValueAt(next)
      /\ pollValue \in Seq(Nat) /\ Len(pollValue) = 4
  BY <1>1 DEF ListInv, InForce
<1>4. /\ \A i : ListPromise!MaskAt(i)' = ListPromise!MaskAt(i)
      /\ \A i : ListPromise!ValueAt(i)' = ListPromise!ValueAt(i)
  BY <1>2 DEF ListPromise!MaskAt, ListPromise!ValueAt, ListPromise!LastOf
<1>5. /\ (ListPromise!MaskAt(next))' = ListPromise!MaskAt(next + 1)
      /\ (ListPromise!ValueAt(next))' = ListPromise!ValueAt(next + 1)
  BY <1>2 DEF ListPromise!MaskAt, ListPromise!ValueAt, ListPromise!LastOf
<1>6. SetLocally(e) \/ Queue(e)
  OBVIOUS
<1> HIDE DEF QueueNext
<1>7. /\ pollMask' = (IF e.op = "POLL_MASK" THEN e.mask ELSE pollMask)
      /\ pollValue' = (IF e.op = "POLL_VALUE" THEN e.data ELSE pollValue)
  BY <1>6 DEF SetLocally, Queue, Local
<1>8. InForce'
  <2>1. pollMask' = (ListPromise!MaskAt(next))' /\ pollValue' = (ListPromise!ValueAt(next))'
    BY <1>1, <1>3, <1>5, <1>7, SettingsNext
  <2>2. pollMask' \subseteq PollBytes /\ pollValue' \in Seq(Nat) /\ Len(pollValue') = 4
    BY <1>1, <1>3, <1>7 DEF Proper, Operations
  <2> QED
    BY <2>1, <2>2 DEF InForce
<1>9. Sorted'
  <2>1. CASE commands' = commands
    BY <1>1, <1>2, <1>4, <2>1 DEF ListInv, Sorted
  <2>2. CASE ~Local(e) /\ commands' = Append(commands, Command(e, next))
    <3> DEFINE x == Command(e, next)
    <3>1. Asks(x, e) /\ x.mask = pollMask /\ x.value = pollValue /\ x.from = next
      BY <1>1, <1>3, <2>2, CommandAsks
    <3> HIDE DEF x
    <3>2. /\ DOMAIN commands' = 1 .. c + 1
          /\ \A k \in 1 .. c : commands'[k] = commands[k]
          /\ commands'[c + 1] = x
      BY <1>1, <2>2, Appended DEF x
    <3> HIDE DEF c
    <3>3. \A k \in 1 .. c + 1 : k \in 1 .. c \/ k = c + 1
      BY <1>1
    <3>4. \A i \in DOMAIN commands' :
             commands'[i] = x \/ (i \in 1 .. c /\ commands'[i] = commands[i])
      BY <3>2, <3>3
    <3>5. ASSUME NEW k \in DOMAIN commands'
          PROVE  /\ Asks(commands'[k], list'[commands'[k].from])
                 /\ commands'[k].mask = ListPromise!MaskAt(commands'[k].from)
                 /\ commands'[k].value = ListPromise!ValueAt(commands'[k].from)
      <4>1. CASE commands'[k] = x
        BY <1>2, <1>3, <3>1, <4>1
      <4>2. CASE k \in 1 .. c /\ commands'[k] = commands[k]
        BY <1>1, <1>2, <4>2 DEF ListInv, Sorted
      <4> QED
        BY <3>4, <4>1, <4>2
    <3>6. \A j, k \in DOMAIN commands' : j < k => commands'[j].from < commands'[k].from
      <4> SUFFICES ASSUME NEW j \in 1 .. c + 1, NEW k \in 1 .. c + 1, j < k
                   PROVE  commands'[j].from < commands'[k].from
        BY <3>2
      <4>1. j \in 1 .. c
        BY <1>1
      <4>2. CASE k \in 1 .. c
        BY <1>1, <3>2, <4>1, <4>2 DEF ListInv, Sorted
      <4>3. CASE k = c + 1
        <5>1. commands[j].from < next
          BY <1>1, <4>1
        <5> QED
          BY <3>1, <3>2, <4>1, <4>3, <5>1
      <4> QED
        BY <3>3, <4>2, <4>3
    <3>7. ASSUME NEW k \in DOMAIN commands'
          PROVE  /\ commands'[k].mask = (ListPromise!MaskAt(commands[k].from))'
                 /\ commands'[k].value = (ListPromise!ValueAt(commands[k].from))'
      <4>1. /\ (ListPromise!MaskAt(commands[k].from))' = ListPromise!MaskAt(commands'[k].from)
            /\ (ListPromise!ValueAt(commands[k].from))' = ListPromise!ValueAt(commands'[k].from)
        BY <1>2 DEF ListPromise!MaskAt, ListPromise!ValueAt, ListPromise!LastOf
      <4> QED
        BY <3>5, <4>1
    <3> QED
      BY <1>1, <1>2, <3>5, <3>6, <3>7 DEF Sorted
  <2> QED
    BY <1>6, <2>1, <2>2 DEF SetLocally, Queue
<1>10. Typed'
  BY <1>1, <1>2 DEF ListInv, Typed, Proper
<1>11. Unheard' /\ Progress'
  BY <1>1, <1>2 DEF ListInv, Unheard, Progress
<1> QED
  BY <1>8, <1>9, <1>10, <1>11 DEF ListInv

\* Nothing but the call itself and the memory changes.
LEMMA FrameKeeps ==
  ASSUME ListInv, Unheard',
         UNCHANGED <<device, lastPoll, poll, list, next, pollMask, pollValue, commands, direct,
                     ran>>,
         memory' \in [Addr -> Nat],
         phase' = phase \/ (phase # "idle" /\ phase' \in {"sent", "returned"})
  PROVE  ListInv'
<1>1. Typed'
  BY DEF ListInv, Typed, Proper
<1>2. /\ \A i : ListPromise!MaskAt(i)' = ListPromise!MaskAt(i)
      /\ \A i : ListPromise!ValueAt(i)' = ListPromise!ValueAt(i)
      /\ (ListPromise!MaskAt(next))' = ListPromise!MaskAt(next)
      /\ (ListPromise!ValueAt(next))' = ListPromise!ValueAt(next)
  BY DEF ListPromise!MaskAt, ListPromise!ValueAt, ListPromise!LastOf
<1>3. InForce'
  BY <1>2 DEF ListInv, InForce
<1>4. \A k : /\ (ListPromise!MaskAt(commands[k].from))' = ListPromise!MaskAt(commands[k].from)
             /\ (ListPromise!ValueAt(commands[k].from))' = ListPromise!ValueAt(commands[k].from)
  BY DEF ListPromise!MaskAt, ListPromise!ValueAt, ListPromise!LastOf
<1>5. Sorted'
  BY <1>4 DEF ListInv, Sorted
<1>6. Progress'
  <2>1. Current' = Current
    BY DEF Current
  <2> QED
    BY <2>1 DEF ListInv, Progress, HasMemory
<1> QED
  BY <1>1, <1>3, <1>5, <1>6 DEF ListInv

LEMMA BatchEndKeepsList ==
  ASSUME MemApInv, ListInv, BatchEnd
  PROVE  ListInv'
<1>1. /\ phase = "queueing" /\ ~serving /\ phase' \in {"sent", "returned"}
      /\ phase' = "returned" => ~serving'
      /\ UNCHANGED <<device, memory, lastPoll, poll, list, next, pollMask, pollValue, commands,
                     direct, ran, heard, own>>
  BY DEF BatchEnd, memVars, MemApInv, Phases
<1>2. Unheard'
  BY <1>1 DEF ListInv, Unheard
<1> QED
  BY <1>1, <1>2, FrameKeeps DEF ListInv, Typed

LEMMA ReplyKeepsList ==
  ASSUME ListInv, Reply
  PROVE  ListInv'
<1>1. /\ phase = "sent" /\ phase' = "returned" /\ ~serving' /\ heard' = TRUE
      /\ UNCHANGED <<device, memory, lastPoll, poll, list, next, pollMask, pollValue, commands,
                     direct, ran>>
  BY DEF Reply, memVars
<1>2. Unheard'
  BY <1>1 DEF Unheard
<1> QED
  BY <1>1, <1>2, FrameKeeps DEF ListInv, Typed

LEMMA ConnectionFailsKeepsList ==
  ASSUME ListInv, ConnectionFails
  PROVE  ListInv'
<1>1. /\ phase = "sent" /\ phase' = "returned" /\ result' = "failed"
      /\ UNCHANGED <<device, memory, lastPoll, poll, list, next, pollMask, pollValue, commands,
                     direct, ran, heard, own>>
  BY DEF ConnectionFails, memVars
<1>2. Unheard'
  BY <1>1 DEF ListInv, Unheard
<1> QED
  BY <1>1, <1>2, FrameKeeps DEF ListInv, Typed

LEMMA QuietKeepsList ==
  ASSUME ListInv, ReplyLost \/ TargetStep \/ UNCHANGED listPath
  PROVE  ListInv'
<1>1. /\ UNCHANGED <<device, lastPoll, poll, list, next, pollMask, pollValue, commands,
                     direct, ran, heard, own, phase, result>>
      /\ serving' => serving
  BY DEF ReplyLost, TargetStep, TargetWrites, listPath, listVars, memVars, callVars, returnVars
<1>2. memory \in [Addr -> Nat]
  BY DEF ListInv, Typed
<1>3. memory' \in [Addr -> Nat]
  <2>1. CASE memory' = memory
    BY <1>2, <2>1
  <2>2. CASE TargetStep
    BY <1>2, <2>2 DEF TargetStep, TargetWrites
  <2> QED
    BY <2>1, <2>2 DEF ReplyLost, listPath, memVars
<1>4. Unheard'
  BY <1>1 DEF ListInv, Unheard
<1> QED
  BY <1>1, <1>3, <1>4, FrameKeeps

-----------------------------------------------------------------------------

\* The command that is running.
LEMMA RunningIs ==
  ASSUME MemApInv, ListInv, serving, ~ServerDone
  PROVE  LET n == Len(ran)
             c == Current
             e == list[c.from]
         IN  /\ n \in Nat /\ Len(commands) \in Nat /\ n < Len(commands)
             /\ DOMAIN commands = 1 .. Len(commands) /\ DOMAIN ran = 1 .. n
             /\ n + 1 \in DOMAIN commands /\ c = commands[n + 1]
             /\ ~SomeFailed /\ Succeeded = n /\ IsSeq(ran)
             /\ c.from \in DOMAIN list /\ c.from \in Nat /\ c.from > 0
             /\ ~Local(e) /\ Proper(e) /\ e \in Operations /\ Asks(c, e)
             /\ c.mask = ListPromise!MaskAt(c.from) /\ c.value = ListPromise!ValueAt(c.from)
             /\ phase \in {"sent", "returned"} /\ list # <<>>
<1> DEFINE n == Len(ran)
           c == Current
           e == list[c.from]
           m == Len(commands)
<1>1. /\ IsSeq(list) /\ IsSeq(commands) /\ IsSeq(ran) /\ n \in Nat /\ m \in Nat
      /\ DOMAIN commands = 1 .. m /\ DOMAIN ran = 1 .. n /\ DOMAIN list = 1 .. Len(list)
      /\ Len(list) \in Nat /\ next \in 1 .. Len(list) + 1
  BY SeqsAre DEF MemApInv, Types
<1>2. n <= m /\ (poll # NULL => n < m /\ ~SomeFailed)
  BY DEF MemApInv, InOrder
<1>3. poll = NULL => ~SomeFailed /\ n # m
  BY DEF ServerDone
<1>4. n < m /\ ~SomeFailed
  <2> HIDE DEF n, m
  <2> QED
    BY <1>1, <1>2, <1>3
<1>5. n + 1 \in DOMAIN commands /\ c = commands[n + 1]
  BY <1>1, <1>4 DEF Current
<1>6. Succeeded = n
  BY <1>1, <1>4, SucceededIs
<1>7. c.from \in 1 .. next - 1 /\ ~Local(e)
  BY <1>5 DEF MemApInv, From
<1>8. c.from \in DOMAIN list /\ c.from \in Nat /\ c.from > 0
  BY <1>1, <1>7
<1>9. Proper(e) /\ e \in Operations
  BY <1>8 DEF ListInv, Typed, Proper
<1>10. Asks(c, e) /\ c.mask = ListPromise!MaskAt(c.from) /\ c.value = ListPromise!ValueAt(c.from)
  BY <1>5 DEF ListInv, Sorted
<1>11. phase \in {"sent", "returned"} /\ list # <<>>
  BY DEF MemApInv, Phases, ListInv, Typed
<1> QED
  BY <1>1, <1>4, <1>5, <1>6, <1>7, <1>8, <1>9, <1>10, <1>11

\* The bytes a try of a poll reads.
LEMMA PollReads ==
  ASSUME HasMemory, memory \in [Addr -> Nat], NEW c, NEW e, Asks(c, e), Polls(e), Proper(e)
  PROVE  /\ PollData(c) = ListPromise!Seen(e.addr, 4)
         /\ PollData(c) \in [PollBytes -> Nat]
<1> DEFINE b == device = "memory"
           d == [c EXCEPT !.incr = b]
<1>0. b \in BOOLEAN /\ (b <=> device = "memory")
  OBVIOUS
<1>4. PollData(c) = ReadData(d)
  BY Zenon DEF PollData
<1> HIDE DEF b
<1>1. c = [kind |-> c.kind, addr |-> e.addr, size |-> 4, acc |-> e.acc, incr |-> c.incr,
           tries |-> c.tries, mask |-> c.mask, value |-> c.value, ne |-> c.ne,
           data |-> e.data, from |-> c.from]
  BY DEF Asks
<1>2. d.addr = e.addr /\ d.size = 4 /\ d.acc = e.acc /\ d.incr = b
  BY <1>1
<1>3. e.addr \in Nat /\ e.addr + 3 \in Addr /\ e.acc \in {1, 2, 4, 8}
  BY DEF Proper, Operations, Addr
<1> HIDE DEF d
<1>5. ASSUME device = "memory"
      PROVE  PollData(c) = ListPromise!Seen(e.addr, 4)
  <2>1. d.incr /\ d.addr \in Nat /\ d.size \in Nat /\ device # "mem-ap"
    BY <1>0, <1>2, <1>3, <1>5
  <2>2. ReadData(d) = ListPromise!Seen(d.addr, d.size)
    BY <2>1, StraightRead
  <2> QED
    BY <1>2, <1>4, <2>2
<1>6. ASSUME device = "mem-ap"
      PROVE  PollData(c) = ListPromise!Seen(e.addr, 4)
  <2>1. e.acc = 4 /\ e.addr % 4 = 0
    BY <1>6 DEF Proper, ByWords
  <2>2. 1 \in Nat /\ d.size = d.acc * 1 /\ ~d.incr
    BY <1>0, <1>2, <1>6, <2>1
  <2>3. ReadData(d) = [k \in 1 .. d.size |-> memory[d.addr + ((k - 1) % d.acc)]]
    BY <1>2, <1>3, <2>1, <2>2, RepeatedRead
  <2>4. \A k \in 1 .. 4 : d.addr + ((k - 1) % 4) = e.addr + k - 1
    BY <1>2, <1>3
  <2>5. ReadData(d) = [k \in 1 .. 4 |-> memory[e.addr + k - 1]]
    BY <1>2, <2>1, <2>3, <2>4
  <2> QED
    BY <1>4, <2>5 DEF ListPromise!Seen
<1>7. PollData(c) = ListPromise!Seen(e.addr, 4)
  BY <1>5, <1>6 DEF HasMemory
<1>8. \A k \in 1 .. 4 : memory[e.addr + k - 1] \in Nat
  <2> SUFFICES ASSUME NEW k \in 1 .. 4 PROVE e.addr + k - 1 \in Addr
    OBVIOUS
  <2>1. e.addr + 3 <= MaxAddr /\ MaxAddr \in Nat
    BY <1>3, MemAssumption DEF Addr
  <2> QED
    BY <1>3, <2>1 DEF Addr
<1> QED
  BY <1>7, <1>8 DEF ListPromise!Seen, PollBytes

\* What a write asks for is within what the lemmas about memory want.
LEMMA WriteShape ==
  ASSUME HasMemory, NEW c, NEW e, Asks(c, e), Writes(e), Proper(e)
  PROVE  /\ c.addr = e.addr /\ c.acc = e.acc /\ c.data = e.data /\ c.addr \in Nat
         /\ c.acc \in {1, 2, 4, 8} /\ c.incr \in BOOLEAN /\ (c.incr <=> e.op = "WRITE")
         /\ e.count \in Nat /\ c.size = (IF c.incr THEN e.count ELSE c.acc * e.count)
         /\ ~c.incr => e.count > 0
         /\ c.data \in Seq(Nat) /\ Len(c.data) >= c.size
         /\ device = "mem-ap" => c.acc = 4 /\ c.addr % 4 = 0 /\ c.size % 4 = 0
<1>1. /\ c.size = (IF Polls(e) \/ Checks(e) THEN 4 ELSE Amount(e))
      /\ c.incr \in BOOLEAN /\ (c.incr <=> ~Repeats(e))
      /\ c.addr = e.addr /\ c.acc = e.acc /\ c.data = e.data
  BY DEF Asks
<1>2. /\ e.addr \in Nat /\ e.acc \in {1, 2, 4, 8} /\ e.count \in Nat /\ e.data \in Seq(Nat)
  BY DEF Proper, Operations, Addr
<1>3. ~Polls(e) /\ ~Checks(e) /\ (Repeats(e) <=> e.op # "WRITE")
      /\ (e.op # "WRITE" => e.op = "WRITE_RPT")
  BY DEF Writes, Polls, Checks, Repeats
<1>4. c.size = Amount(e) /\ (c.incr <=> e.op = "WRITE")
  BY <1>1, <1>3
<1>5. c.size = (IF c.incr THEN e.count ELSE c.acc * e.count)
  BY <1>1, <1>3, <1>4 DEF Amount
<1>6. /\ Len(e.data) >= Amount(e) /\ (e.op = "WRITE_RPT" => e.count > 0)
      /\ device = "mem-ap" => ByWords(e) /\ Amount(e) % 4 = 0
  BY DEF Proper
<1> QED
  BY <1>1, <1>2, <1>3, <1>4, <1>5, <1>6 DEF ByWords

LEMMA BuffersAreSeqs ==
  ASSUME NEW S, NEW f \in [1 .. 4 -> S]
  PROVE  f \in Seq(S) /\ Len(f) = 4
<1>1. f = [i \in 1 .. 4 |-> f[i]]
  OBVIOUS
<1>2. 4 \in Nat /\ \A i \in 1 .. 4 : f[i] \in S
  OBVIOUS
<1>3. [i \in 1 .. 4 |-> f[i]] \in Seq(S) /\ Len([i \in 1 .. 4 |-> f[i]]) = 4
  BY <1>2
<1> QED
  BY <1>1, <1>3

LEMMA RunCommandKeepsList ==
  ASSUME MemApInv, ListInv, RunCommand
  PROVE  ListInv'
<1> DEFINE n == Len(ran)
           c == Current
           e == list[c.from]
<1>1. /\ serving /\ ~ServerDone
      /\ UNCHANGED <<phase, direct, list, next, pollMask, pollValue, commands, result, heard, own,
                     serving>>
      /\ RunRead \/ RunWrite \/ RunCheck \/ RunPoll
  BY DEF RunCommand, callVars, returnVars
<1>2. /\ n \in Nat /\ Proper(e) /\ e \in Operations /\ Asks(c, e) /\ ~Local(e)
      /\ phase \in {"sent", "returned"} /\ list # <<>>
  BY <1>1, RunningIs
<1>3. /\ memory \in [Addr -> Nat] /\ device \in Devices
      /\ lastPoll \in {NULL} \cup Seq(Nat \cup {UNKNOWN}) /\ (poll = NULL \/ poll \in Polling)
      /\ \A i \in DOMAIN list : Proper(list[i])
  BY DEF ListInv, Typed
<1>4. poll # NULL => c.kind = "poll"
  BY DEF MemApInv, InOrder
<1>5. c.kind = "poll" => /\ Polls(e) /\ c.size = 4 /\ c.tries = e.count /\ e.count \in Nat
                         /\ c.acc = e.acc
                         /\ (device = "mem-ap" => c.acc = 4 /\ c.tries <= 1)
  <2> HIDE DEF c, e
  <2>1. /\ c.kind = (IF Writes(e) THEN "write" ELSE IF Reads(e) THEN "read"
                     ELSE IF Polls(e) THEN "poll" ELSE "check")
        /\ c.size = (IF Polls(e) \/ Checks(e) THEN 4 ELSE Amount(e))
        /\ c.tries = (IF Polls(e) THEN e.count ELSE 0) /\ c.acc = e.acc
    BY <1>2 DEF Asks
  <2>2. e.count \in Nat
    BY <1>2 DEF Operations
  <2>3. Polls(e) /\ device = "mem-ap" => e.acc = 4 /\ e.count <= 1
    BY <1>2 DEF Proper, ByWords
  <2> QED
    BY <2>1, <2>2, <2>3
<1>6. Typed' /\ Progress'
  <2> SUFFICES /\ device' = device /\ memory' \in [Addr -> Nat]
               /\ lastPoll' \in {NULL} \cup Seq(Nat \cup {UNKNOWN})
               /\ poll' = NULL \/ poll' \in Polling
               /\ Progress'
    BY <1>1, <1>2, <1>3 DEF Typed, Proper
  <2>0. ASSUME poll' = NULL PROVE Progress'
    BY <2>0 DEF Progress
  <2>1. CASE RunRead \/ RunCheck
    <3>1. c.kind # "poll" /\ UNCHANGED <<device, memory, lastPoll, poll>>
      BY <2>1 DEF RunRead, RunCheck, memVars
    <3> QED
      BY <1>3, <1>4, <2>0, <3>1
  <2>2. CASE RunWrite
    <3>1. /\ c.kind = "write" /\ UNCHANGED <<device, lastPoll, poll>>
      BY <2>2 DEF RunWrite
    <3>2. PICK ok \in BOOLEAN : MemWrite(c, ok)
      BY <2>2 DEF RunWrite
    <3> HIDE DEF c, e
    <3>3. Writes(e)
      BY <1>2, <3>1 DEF Asks
    <3>4. memory' \in [Addr -> Nat]
      <4>1. CASE memory' = memory
        BY <1>3, <4>1
      <4>2. CASE memory' # memory
        <5>1. Accessible(c) /\ HasMemory
          BY <3>2, <4>2 DEF MemWrite, Accessible, HasMemory
        <5>2. \/ memory' = (IF device = "memory" THEN MappedWrite(c)
                            ELSE ApWritten(c, c.size \div c.acc))
              \/ /\ device = "mem-ap"
                 /\ \E k \in 0 .. c.size \div c.acc - 1 : memory' = ApWritten(c, k)
          BY <3>2, <4>2 DEF MemWrite
        <5>3. /\ (IF device = "memory" THEN MappedWrite(c) ELSE ApWritten(c, c.size \div c.acc))
                 \in [Addr -> Nat]
              /\ device = "mem-ap" =>
                   \A k \in 0 .. c.size \div c.acc - 1 : ApWritten(c, k) \in [Addr -> Nat]
          <6>1. PICK m \in Nat : m = e.count
            BY <1>2, <3>3, <5>1, WriteShape
          <6> HIDE DEF ListInv, MemApInv
          <6>2. /\ c.addr \in Nat /\ c.acc \in {1, 2, 4, 8} /\ c.incr \in BOOLEAN
                /\ c.size = (IF c.incr THEN m ELSE c.acc * m)
                /\ ~c.incr => m > 0
                /\ c.data \in Seq(Nat) /\ Len(c.data) >= c.size
                /\ device = "mem-ap" => c.acc = 4 /\ c.addr % 4 = 0 /\ c.size % 4 = 0
            BY <1>2, <3>3, <5>1, <6>1, WriteShape
          <6> QED
            BY <1>3, <5>1, <6>2, WritesAreTyped
        <5> QED
          BY <5>2, <5>3
      <4> QED
        BY <4>1, <4>2
    <3> QED
      BY <1>3, <1>4, <2>0, <3>1, <3>4 DEF c
  <2>3. CASE RunPoll
    <3>1. c.kind = "poll" /\ device' = device
      BY <2>3 DEF RunPoll
    <3>2. /\ Polls(e) /\ c.size = 4 /\ c.tries = e.count /\ e.count \in Nat /\ c.acc = e.acc
          /\ (device = "mem-ap" => c.acc = 4 /\ c.tries <= 1)
      BY <1>5, <3>1
    <3>3. ran' = ran => Current' = c
      BY <1>1 DEF Current
    <3> HIDE DEF c, e
    <3>4. CASE poll = NULL /\ ~PollRefused(c) /\ PollBegins(c) /\ UNCHANGED ran
      <4>1. poll' = [left |-> c.tries, done |-> FALSE, buf |-> [i \in 1 .. 4 |-> UNKNOWN],
                     res  |-> IF device = "memory" THEN "unset" ELSE "success"]
            /\ UNCHANGED <<memory, lastPoll>>
        BY <3>2, <3>4 DEF PollBegins
      <4>2. [i \in 1 .. 4 |-> UNKNOWN] \in PollBuffers
        BY DEF PollBuffers, PollBytes
      <4>3. poll' \in Polling
        BY <3>2, <4>1, <4>2 DEF Polling
      <4>4. HasMemory /\ (device = "mem-ap" => HasWidth(c.acc))
        BY <3>4 DEF PollRefused
      <4>5. Progress'
        BY <3>1, <3>2, <3>3, <3>4, <4>1, <4>4 DEF Progress, HasMemory
      <4> QED
        BY <1>3, <3>1, <4>1, <4>3, <4>5
    <3>5. CASE poll = NULL /\ PollFailsEarly(c)
      <4>1. lastPoll' \in {NULL, lastPoll} /\ UNCHANGED <<memory, poll>>
        BY <3>5 DEF PollFailsEarly
      <4> QED
        BY <1>3, <2>0, <3>1, <3>5, <4>1
    <3>6. CASE PollTry(c) /\ UNCHANGED ran
      <4>1. /\ poll # NULL /\ ~poll.done /\ poll.left > 0 /\ UNCHANGED <<memory, lastPoll>>
            /\ poll \in Polling
        BY <1>3, <3>6 DEF PollTry
      <4>2. /\ HasMemory /\ (device = "mem-ap" => HasWidth(c.acc))
            /\ poll.left <= c.tries /\ c.tries \in Nat /\ poll.left \in Nat
            /\ \/ /\ poll.left = c.tries
                  /\ poll.res = (IF device = "memory" THEN "unset" ELSE "success")
               \/ /\ poll.left < c.tries /\ poll.res = "no match"
                  /\ device = "memory" /\ Copies(4, c.acc)
        BY <3>2, <4>1 DEF ListInv, Progress, c, Polling
      <4>3. Current' = c /\ device' = device
        BY <3>1, <3>3, <3>6
      <4>4. CASE Copies(c.size, c.acc) /\ Tried(c, poll.left - 1)
        <5>1. PollData(c) \in [PollBytes -> Nat]
          BY <1>2, <1>3, <3>2, <4>2, PollReads
        <5>2. PICK p \in Nat : p = poll.left
          BY <4>2
        <5>3. PICK l \in Nat : l = poll.left - 1
          <6>1. p > 0
            BY <4>1, <5>2
          <6>2. p - 1 \in Nat
            BY <6>1
          <6> QED
            BY <5>2, <6>2
        <5> DEFINE data == PollData(c)
                   found == Matches(data, c)
        <5>4. poll' = [left |-> l, buf |-> data,
                       res  |-> IF found THEN "success" ELSE "no match",
                       done |-> found \/ l = 0 \/ device = "mem-ap"]
          BY <4>4, <5>3 DEF Tried
        <5>5. data \in PollBuffers
          BY <5>1 DEF PollBuffers
        <5>6. (found \/ l = 0 \/ device = "mem-ap") \in BOOLEAN
          OBVIOUS
        <5> HIDE DEF data, found
        <5>7. poll' \in Polling
          BY <5>4, <5>5, <5>6 DEF Polling
        <5>8. PICK t \in Nat : t = c.tries
          BY <4>2
        <5>9. l < t /\ l <= t /\ (t <= 1 => l = 0)
          <6>1. l = p - 1 /\ p <= t /\ p > 0
            BY <4>1, <4>2, <5>3, <5>8, <5>2
          <6> QED
            BY <6>1
        <5>10. l < c.tries /\ l <= c.tries /\ (device = "mem-ap" => l = 0)
          BY <3>2, <5>8, <5>9
        <5>11. CASE found
          <6>1. poll'.left = l /\ poll'.done /\ poll'.res = "success"
            BY <5>4, <5>11
          <6>3. Progress'
            BY <4>2, <4>3, <5>10, <6>1 DEF Progress, HasMemory
          <6> QED
            BY <1>3, <4>1, <4>3, <5>7, <6>3
        <5>12. CASE ~found
          <6>1. /\ poll'.left = l /\ poll'.res = "no match"
                /\ poll'.done <=> l = 0 \/ device = "mem-ap"
            BY <5>4, <5>12
          <6>2. ~(l = 0) => device = "memory" /\ Copies(4, c.acc)
            BY <3>2, <4>2, <4>4, <5>10 DEF HasMemory
          <6>4. Progress'
            <7>1. CASE poll'.done
              <8>1. l = 0
                BY <5>10, <6>1, <7>1
              <8> QED
                BY <4>2, <4>3, <5>10, <6>1, <7>1, <8>1 DEF Progress, HasMemory
            <7>2. CASE ~poll'.done
              BY <4>2, <4>3, <5>10, <6>1, <6>2, <7>2 DEF Progress, HasMemory
            <7> QED
              BY <7>1, <7>2
          <6> QED
            BY <1>3, <4>1, <4>3, <5>7, <6>4
        <5> QED
          BY <5>11, <5>12
      <4>5. CASE ~Copies(c.size, c.acc) /\ poll' = [poll EXCEPT !.done = TRUE]
        <5>1. device # "mem-ap"
          BY <3>2, <4>5 DEF Copies
        <5>2. poll.left = c.tries /\ poll.res = "unset" /\ device = "memory" /\ ~Copies(4, c.acc)
          BY <3>2, <4>2, <4>5, <5>1 DEF HasMemory
        <5>3. poll'.left = c.tries /\ poll'.res = "unset" /\ poll'.done /\ poll' \in Polling
          BY <4>1, <4>5, <5>2 DEF Polling
        <5>4. Progress'
          BY <4>2, <4>3, <5>2, <5>3 DEF Progress, HasMemory
        <5> QED
          BY <1>3, <4>1, <4>3, <5>3, <5>4
      <4>6. CASE device = "mem-ap" /\ poll' = [poll EXCEPT !.res = "failed", !.done = TRUE]
        <5>1. poll.left = c.tries
          BY <4>2, <4>6
        <5>2. poll'.left = c.tries /\ poll'.res = "failed" /\ poll'.done /\ poll' \in Polling
          BY <4>1, <4>6, <5>1 DEF Polling
        <5>4. poll'.left <= c.tries
          <6>1. poll'.left = poll.left /\ poll.left <= c.tries
            BY <4>2, <5>1, <5>2
          <6> QED
            BY <6>1, Zenon
        <5>3. Progress'
          BY <4>2, <4>3, <5>2, <5>4 DEF Progress, HasMemory
        <5> QED
          BY <1>3, <4>1, <4>3, <5>2, <5>3
      <4> QED
        BY <3>6, <4>4, <4>5, <4>6 DEF PollTry
    <3>7. CASE poll # NULL /\ \E o \in {Failure, Success(poll.buf)} : PollEnds(o)
      <4>1. poll' = NULL /\ UNCHANGED memory /\ lastPoll' \in {NULL, poll.buf}
        BY <3>7 DEF PollEnds
      <4>2. poll.buf \in Seq(Nat \cup {UNKNOWN})
        <5>1. poll.buf \in [1 .. 4 -> Nat \cup {UNKNOWN}]
          BY <1>3, <3>7 DEF Polling, PollBuffers, PollBytes
        <5> QED
          BY <5>1, BuffersAreSeqs
      <4> QED
        BY <1>3, <2>0, <3>1, <4>1, <4>2
    <3> QED
      BY <2>3, <3>4, <3>5, <3>6, <3>7 DEF RunPoll, c
  <2> QED
    BY <1>1, <2>1, <2>2, <2>3
<1>7. Sorted'
  <2>1. \A k : /\ (ListPromise!MaskAt(commands[k].from))' = ListPromise!MaskAt(commands[k].from)
               /\ (ListPromise!ValueAt(commands[k].from))' = ListPromise!ValueAt(commands[k].from)
    BY <1>1 DEF ListPromise!MaskAt, ListPromise!ValueAt, ListPromise!LastOf
  <2> QED
    BY <1>1, <2>1 DEF ListInv, Sorted
<1>8. InForce' /\ Unheard'
  BY <1>1, <1>2 DEF ListInv, InForce, Unheard
<1> QED
  BY <1>6, <1>7, <1>8 DEF ListInv

LEMMA ListStepKeeps ==
  ASSUME MemApInv, ListInv, [ProperNext]_listPath
  PROVE  MemApInv' /\ ListInv'
<1>1. [ListPathNext]_listPath
  BY DEF ProperNext, ListPathNext, RddiMemApNext, ProperLists, ProperCalls
<1>2. MemApInv'
  BY <1>1, StepKeeps
<1>3. ListInv'
  BY AccessBatchKeepsList, DirectCallKeepsList, QueueNextKeepsList, BatchEndKeepsList,
     RunCommandKeepsList, ReplyKeepsList, ConnectionFailsKeepsList, QuietKeepsList
  DEF ProperNext, RddiMemApNext
<1> QED
  BY <1>2, <1>3

-----------------------------------------------------------------------------
(* The types of a list *)

\* What is left of the types: the loop's locals, when the call is over as well, the
\* request buffer, and where the caller gets data.
Bounds ==
  /\ pollMask \subseteq PollBytes /\ Len(pollValue) = 4
  /\ ~direct => Len(commands) <= QueueCap
  /\ result \in {"none", "success", "failed"}
  /\ DOMAIN own = DOMAIN list

LEMMA BoundsInit == ListPathInit => Bounds
<1> SUFFICES ASSUME ListPathInit PROVE Bounds
  OBVIOUS
<1>1. /\ pollMask = PollBytes /\ pollValue = Zero /\ commands = <<>> /\ result = "none"
      /\ own = <<>> /\ list = <<>>
  BY DEF ListPathInit, RddiMemApInit, AllBytes
<1>2. Len(commands) <= QueueCap
  BY <1>1, RddiMemApAssumption
<1> QED
  BY <1>1, <1>2, ZeroIs DEF Bounds

LEMMA QueueNextBounds ==
  ASSUME MemApInv, ListInv, Bounds, QueueNext
  PROVE  Bounds'
<1> DEFINE e == list[next]
<1>1. /\ SetLocally(e) \/ Queue(e)
      /\ UNCHANGED <<direct, list, result, own>>
      /\ IsSeq(commands) /\ Len(commands) <= QueueCap
  BY DEF QueueNext, returnVars, MemApInv, Types, Phases, Bounds
<1>2. Proper(e)
  <2>1. IsSeq(list) /\ next \in 1 .. Len(list) + 1 /\ next <= Len(list)
    BY DEF QueueNext, MoreToQueue, MemApInv, Types
  <2>2. next \in DOMAIN list
    BY <2>1, SeqsAre
  <2> QED
    BY <2>2 DEF ListInv, Typed
<1> HIDE DEF e
<1>3. pollMask' \subseteq PollBytes /\ Len(pollValue') = 4
  BY <1>1, <1>2 DEF SetLocally, Queue, Bounds, Proper, Operations
<1>4. Len(commands') <= QueueCap
  <2>1. CASE commands' = commands
    BY <1>1, <2>1
  <2>2. CASE Len(commands) < QueueCap /\ \E x : commands' = Append(commands, x)
    BY <1>1, <2>2, Appended, RddiMemApAssumption
  <2> QED
    BY <1>1, <2>1, <2>2 DEF SetLocally, Queue
<1> QED
  BY <1>1, <1>3, <1>4 DEF Bounds

LEMMA BoundsKeep ==
  ASSUME MemApInv, ListInv, Bounds, [ProperNext]_listPath
  PROVE  Bounds'
<1>s. ASSUME UNCHANGED <<pollMask, pollValue, commands, direct>>,
             result' = result \/ result' \in {"success", "failed"},
             DOMAIN own' = DOMAIN list'
      PROVE  Bounds'
  BY <1>s DEF Bounds
<1>1. ASSUME NEW ops \in ProperLists, AccessBatch(ops)
      PROVE  Bounds'
  <2>1. DOMAIN own' = DOMAIN list'
    BY <1>1 DEF AccessBatch
  <2> QED
    BY <1>s, <1>1, <2>1 DEF AccessBatch
<1>2. ASSUME NEW e \in ProperCalls, DirectCall(e)
      PROVE  Bounds'
  <2>1. /\ direct' = TRUE /\ own' = <<NULL>> /\ list' = <<e>>
        /\ UNCHANGED <<pollMask, pollValue, result>>
    BY <1>2 DEF DirectCall
  <2>2. DOMAIN own' = DOMAIN list'
    BY <2>1
  <2> QED
    BY <2>1, <2>2 DEF Bounds
<1>3. CASE QueueNext
  BY <1>3, QueueNextBounds
<1>4. CASE BatchEnd
  BY <1>s, <1>4 DEF BatchEnd, Bounds
<1>5. CASE Reply
  <2>1. DOMAIN own' = DOMAIN list'
    BY <1>5 DEF Reply
  <2> QED
    BY <1>s, <1>5, <2>1 DEF Reply
<1>6. CASE ConnectionFails
  BY <1>s, <1>6 DEF ConnectionFails, Bounds
<1>7. CASE RunCommand \/ ReplyLost \/ TargetStep \/ UNCHANGED listPath
  <2>1. UNCHANGED <<callVars, returnVars>>
    BY <1>7 DEF RunCommand, ReplyLost, TargetStep, listPath, listVars
  <2> QED
    BY <1>s, <2>1 DEF callVars, returnVars, Bounds
<1> QED
  BY <1>1, <1>2, <1>3, <1>4, <1>5, <1>6, <1>7 DEF ProperNext, RddiMemApNext

\* Every state of a call is of the declared types, for every list, device and size
\* of the request buffer: no more is queued than it holds, no more run than queued,
\* and what a reply delivers to is what was asked (MEM_AP_AccessBatch).
THEOREM RddiMemApTypeCorrect == ProperSpec => []RddiMemApTypeOK
<1>1. ListPathInit => MemApInv /\ ListInv /\ Bounds
  BY InitHolds, ListInitHolds, BoundsInit
<1>2. MemApInv /\ ListInv /\ Bounds /\ [ProperNext]_listPath => (MemApInv /\ ListInv /\ Bounds)'
  BY ListStepKeeps, BoundsKeep
<1>3. MemApInv /\ ListInv /\ Bounds => RddiMemApTypeOK
  <2> SUFFICES ASSUME MemApInv, ListInv, Bounds PROVE RddiMemApTypeOK
    OBVIOUS
  <2>1. MemTypeOK
    BY DEF ListInv, Typed, MemTypeOK
  <2>2. Len(commands) <= (IF direct THEN 1 ELSE QueueCap) /\ Len(ran) <= Len(commands)
    <3>1. direct => Len(commands) = 1
      BY DEF ListInv, Sorted
    <3>2. Len(commands) <= (IF direct THEN 1 ELSE QueueCap)
      <4>1. CASE direct
        <5>1. 1 <= 1
          OBVIOUS
        <5> QED
          BY <3>1, <4>1, <5>1, Zenon
      <4>2. CASE ~direct
        BY <4>2, Zenon DEF Bounds
      <4> QED
        BY <4>1, <4>2
    <3> QED
      BY <3>2 DEF MemApInv, InOrder
  <2>3. serving => phase \in {"sent", "returned"}
    BY DEF MemApInv, Phases
  <2> QED
    BY <2>1, <2>2, <2>3 DEF MemApInv, Types, Phases, Bounds, RddiMemApTypeOK
<1> QED
  BY <1>1, <1>2, <1>3, PTL DEF ProperSpec

-----------------------------------------------------------------------------
(* What the mapped variables are *)

\* Delivered, for any commands, outcomes and list.
DeliveredBy(cs, rs, l, i) ==
  IF (\E k \in DOMAIN rs : cs[k].from = i /\ rs[k].ok) /\ ~Checks(l[i]) /\ ~Writes(l[i])
  THEN rs[CHOOSE k \in DOMAIN rs : cs[k].from = i].data ELSE NULL

LEMMA NotYetDelivered ==
  ASSUME NEW cs, NEW rs, IsSeq(rs), NEW l, NEW i, \A k \in 1 .. Len(rs) : cs[k].from # i
  PROVE  DeliveredBy(cs, rs, l, i) = NULL
<1>1. DOMAIN rs = 1 .. Len(rs)
  BY SeqsAre
<1> QED
  BY <1>1 DEF DeliveredBy

LEMMA DeliveredNext ==
  ASSUME NEW cs, NEW rs, IsSeq(rs), NEW l, NEW o, NEW i, NEW last,
         cs[Len(rs) + 1].from = last, \A k \in 1 .. Len(rs) : cs[k].from # last
  PROVE  DeliveredBy(cs, Append(rs, o), l, i) =
              IF i = last
              THEN IF o.ok /\ ~Checks(l[i]) /\ ~Writes(l[i]) THEN o.data ELSE NULL
              ELSE DeliveredBy(cs, rs, l, i)
<1> DEFINE n == Len(rs)
           rt == Append(rs, o)
<1>1. /\ n \in Nat /\ DOMAIN rs = 1 .. n /\ DOMAIN rt = 1 .. n + 1
      /\ \A k \in 1 .. n : rt[k] = rs[k]
      /\ rt[n + 1] = o
  BY Appended
<1>5. cs[n + 1].from = last /\ \A k \in 1 .. n : cs[k].from # last
  OBVIOUS
<1> HIDE DEF rt, n
<1>7. \A k : k \in 1 .. n + 1 <=> k \in 1 .. n \/ k = n + 1
  BY <1>1
<1>8. CASE i = last
  <2>1. \A k \in 1 .. n + 1 : cs[k].from = i <=> k = n + 1
    BY <1>5, <1>7, <1>8
  <2>2. n + 1 \in 1 .. n + 1
    BY <1>1
  <2>3. (CHOOSE k \in DOMAIN rt : cs[k].from = i) = n + 1
    BY <1>1, <2>1, <2>2
  <2>4. (\E k \in DOMAIN rt : cs[k].from = i /\ rt[k].ok) <=> o.ok
    BY <1>1, <2>1, <2>2
  <2>5. DeliveredBy(cs, rt, l, i) =
          IF o.ok /\ ~Checks(l[i]) /\ ~Writes(l[i]) THEN o.data ELSE NULL
    BY <1>1, <2>3, <2>4 DEF DeliveredBy
  <2> QED
    BY <1>8, <2>5 DEF n, rt
<1>9. CASE i # last
  <2>1. \A k : k \in DOMAIN rt /\ cs[k].from = i <=> k \in DOMAIN rs /\ cs[k].from = i
    BY <1>1, <1>7, <1>9
  <2>2. (CHOOSE k \in DOMAIN rt : cs[k].from = i) = (CHOOSE k \in DOMAIN rs : cs[k].from = i)
    <3>1. \A k : (k \in DOMAIN rt /\ cs[k].from = i) = (k \in DOMAIN rs /\ cs[k].from = i)
      BY <2>1
    <3>2. (CHOOSE k : k \in DOMAIN rt /\ cs[k].from = i)
          = (CHOOSE k : k \in DOMAIN rs /\ cs[k].from = i)
      BY <3>1
    <3> QED
      BY <3>2
  <2>3. (\E k \in DOMAIN rt : cs[k].from = i /\ rt[k].ok)
        <=> (\E k \in DOMAIN rs : cs[k].from = i /\ rs[k].ok)
    BY <1>1, <2>1
  <2>4. CASE \E k \in DOMAIN rs : cs[k].from = i /\ rs[k].ok
    <3>1. PICK k \in DOMAIN rs : k = CHOOSE j \in DOMAIN rs : cs[j].from = i
      BY <2>4
    <3>2. rt[k] = rs[k]
      BY <1>1, <3>1
    <3>3. DeliveredBy(cs, rt, l, i) = DeliveredBy(cs, rs, l, i)
      BY <2>2, <2>3, <2>4, <3>1, <3>2 DEF DeliveredBy
    <3> QED
      BY <1>9, <3>3 DEF rt
  <2>5. CASE ~\E k \in DOMAIN rs : cs[k].from = i /\ rs[k].ok
    BY <1>9, <2>3, <2>5 DEF DeliveredBy, n, rt
  <2> QED
    BY <2>4, <2>5
<1> QED
  BY <1>8, <1>9

LEMMA DeliveredIs ==
  /\ \A i : Delivered(i) = DeliveredBy(commands, ran, list, i)
  /\ \A i : Delivered(i)' = DeliveredBy(commands', ran', list', i)
BY DEF Delivered, DeliveredBy, Performed, Writes

\* Succeeded and SomeFailed, now and in the next state.
LEMMA CountsAre ==
  /\ Succeeded = Cardinality({i \in DOMAIN ran : ran[i].ok})
  /\ Succeeded' = Cardinality({i \in DOMAIN ran' : ran'[i].ok})
  /\ SomeFailed \in BOOLEAN /\ (SomeFailed <=> ~\A i \in DOMAIN ran : ran[i].ok)
  /\ SomeFailed' \in BOOLEAN /\ (SomeFailed' <=> ~\A i \in DOMAIN ran' : ran'[i].ok)
BY DEF Succeeded, SomeFailed

\* What is delivered, and the same with d for operation i.
DeliveredSoFar == [j \in DOMAIN list |-> Delivered(j)]
With(f, i, d) == [f EXCEPT ![i] = d]

IsOutcome(o) == o.ok \in BOOLEAN

\* A command of the server has ended with o.
LEMMA CommandEnds ==
  ASSUME MemApInv, ListInv, serving, ~ServerDone, NEW o, IsOutcome(o),
         ran' = Append(ran, o), poll' = NULL, UNCHANGED <<list, commands, phase, result>>
  PROVE  LET i == Current.from
             data == IF Checks(list[i]) \/ Writes(list[i]) THEN NULL ELSE o.data
         IN  /\ ~PollDecided' /\ SamplesTaken' = 0 /\ Returned' = Returned
             /\ PolledLast' = lastPoll'
             /\ o.ok => /\ SomeFailed' = FALSE /\ LastDone' = i
                        /\ ResultsSoFar' = With(DeliveredSoFar, i, data)
             /\ ~o.ok => /\ SomeFailed' = TRUE
                         /\ LastDone' = (IF Succeeded = 0 THEN 0 ELSE commands[Succeeded].from)
                         /\ ResultsSoFar' = DeliveredSoFar
<1> DEFINE n == Len(ran)
           i == Current.from
           data == IF Checks(list[i]) \/ Writes(list[i]) THEN NULL ELSE o.data
           rt == Append(ran, o)
<1>1. /\ n \in Nat /\ Len(commands) \in Nat /\ n < Len(commands)
      /\ DOMAIN commands = 1 .. Len(commands) /\ DOMAIN ran = 1 .. n
      /\ Current = commands[n + 1] /\ ~SomeFailed /\ Succeeded = n /\ IsSeq(ran)
  BY RunningIs
<1>0. o.ok \in BOOLEAN
  BY DEF IsOutcome
<1>2. ran' = rt /\ poll' = NULL /\ list' = list /\ commands' = commands
  OBVIOUS
<1>3. ~PollDecided' /\ SamplesTaken' = 0 /\ PolledLast' = lastPoll'
  BY <1>2 DEF PollDecided, SamplesTaken, PolledLast
<1>4. Returned' = Returned
  BY DEF Returned
<1>5. /\ IsSeq(rt) /\ Len(rt) = n + 1 /\ DOMAIN rt = 1 .. n + 1
      /\ \A k \in 1 .. n : rt[k] = ran[k]
      /\ rt[n + 1] = o
  BY <1>1, Appended
<1>6. \A j, k \in 1 .. Len(commands) : commands[j].from = commands[k].from => j = k
  BY <1>1 DEF MemApInv, From
<1>7. /\ Delivered(i) = NULL
      /\ \A j : Delivered(j)' = (IF j = i THEN IF o.ok THEN data ELSE NULL ELSE Delivered(j))
  <2>1. commands[Len(ran) + 1].from = i
    BY <1>1
  <2>2. \A k \in 1 .. Len(ran) : commands[k].from # i
    <3>1. \A k \in 1 .. n : k \in 1 .. Len(commands) /\ k # n + 1
      BY <1>1
    <3>2. n + 1 \in 1 .. Len(commands)
      BY <1>1
    <3> HIDE DEF i
    <3> QED
      BY <1>6, <2>1, <3>1, <3>2
  <2>3. Delivered(i) = NULL
    <3>1. DeliveredBy(commands, ran, list, i) = NULL
      <4> HIDE DEF i
      <4> QED
        BY <1>1, <2>2, NotYetDelivered
    <3> QED
      BY <3>1, DeliveredIs
  <2>4. ASSUME NEW j
        PROVE  Delivered(j)' = (IF j = i THEN IF o.ok THEN data ELSE NULL ELSE Delivered(j))
    <3>1. DeliveredBy(commands, rt, list, j) =
              IF j = i
              THEN IF o.ok /\ ~Checks(list[j]) /\ ~Writes(list[j]) THEN o.data ELSE NULL
              ELSE DeliveredBy(commands, ran, list, j)
      <4>1. DeliveredBy(commands, Append(ran, o), list, j) =
              IF j = i
              THEN IF o.ok /\ ~Checks(list[j]) /\ ~Writes(list[j]) THEN o.data ELSE NULL
              ELSE DeliveredBy(commands, ran, list, j)
        <5> HIDE DEF i
        <5> QED
          BY <1>1, <2>1, <2>2, DeliveredNext
      <4> QED
        BY <4>1
    <3>2. Delivered(j)' = DeliveredBy(commands, rt, list, j)
      BY <1>2, DeliveredIs
    <3>3. Delivered(j) = DeliveredBy(commands, ran, list, j)
      BY DeliveredIs
    <3> HIDE DEF i, rt
    <3> QED
      BY <3>1, <3>2, <3>3
  <2> QED
    BY <2>3, <2>4
<1>8. ResultsSoFar' = [j \in DOMAIN list |-> Delivered(j)']
  BY <1>2, <1>3 DEF ResultsSoFar
<1> HIDE DEF i, data, rt
<1>9. \A k : k \in 1 .. n + 1 <=> k \in 1 .. n \/ k = n + 1
  BY <1>1
<1>10. \A k \in 1 .. n : ran[k].ok
  BY <1>1 DEF SomeFailed
<1>11. CASE o.ok = TRUE
  <2>1. \A k \in DOMAIN rt : rt[k].ok
    BY <1>5, <1>9, <1>10, <1>11
  <2>2. SomeFailed' = FALSE /\ Succeeded' = n + 1
    BY <1>2, <1>5, <2>1, CountsAre, OkCount
  <2>3. LastDone' = i
    <3>1. n + 1 # 0
      BY <1>1
    <3> QED
      BY <1>1, <1>2, <1>3, <2>2, <3>1 DEF LastDone, i
  <2>4. ResultsSoFar' = With(DeliveredSoFar, i, data)
    BY <1>7, <1>8, <1>11 DEF With, DeliveredSoFar
  <2> QED
    BY <1>3, <1>4, <1>11, <2>2, <2>3, <2>4 DEF i, data
<1>12. CASE o.ok = FALSE
  <2>1. n + 1 \in DOMAIN rt /\ ~rt[n + 1].ok
    BY <1>1, <1>5, <1>12
  <2>2. SomeFailed' = TRUE
    BY <1>2, <2>1, CountsAre
  <2>3. {k \in DOMAIN rt : rt[k].ok} = {k \in DOMAIN ran : ran[k].ok}
    BY <1>1, <1>5, <1>9, <1>12
  <2>4. Succeeded' = Succeeded
    BY <1>2, <2>3, CountsAre
  <2>5. LastDone' = (IF Succeeded = 0 THEN 0 ELSE commands[Succeeded].from)
    BY <1>2, <1>3, <2>4 DEF LastDone
  <2>6. ResultsSoFar' = DeliveredSoFar
    BY <1>7, <1>8, <1>12 DEF DeliveredSoFar
  <2> QED
    BY <1>3, <1>4, <1>12, <2>2, <2>5, <2>6
<1> QED
  BY <1>0, <1>11, <1>12

\* Before a poll is decided.
LEMMA UndecidedIs ==
  ASSUME ~PollDecided
  PROVE  /\ PolledLast = lastPoll
         /\ LastDone = (IF Succeeded = 0 THEN 0 ELSE commands[Succeeded].from)
         /\ SamplesTaken = (IF poll = NULL THEN 0 ELSE Current.tries - poll.left)
         /\ ResultsSoFar = [j \in DOMAIN list |-> Delivered(j)]
BY DEF PolledLast, LastDone, SamplesTaken, ResultsSoFar

\* It is the turn of the operation of the command that is running.
LEMMA TurnIs ==
  ASSUME MemApInv, ListInv, serving, ~ServerDone, ~PollDecided
  PROVE  ListPromise!Turn(Current.from)
<1> DEFINE n == Len(ran)
           m == Len(commands)
           i == Current.from
<1>1. /\ n \in Nat /\ m \in Nat /\ n < m /\ DOMAIN commands = 1 .. m
      /\ n + 1 \in DOMAIN commands /\ Current = commands[n + 1]
      /\ ~SomeFailed /\ Succeeded = n
      /\ i \in DOMAIN list /\ i \in Nat /\ i > 0 /\ ~Local(list[i])
  BY RunningIs
<1>2. Returned # "success"
  BY DEF MemApInv, Phases, ListInv, Unheard, Returned
<1>3. LastDone = (IF n = 0 THEN 0 ELSE commands[n].from)
  BY <1>1, UndecidedIs
<1>4. \A j, k \in DOMAIN commands : j < k => commands[j].from < commands[k].from
  BY DEF ListInv, Sorted
<1>5. next \in Nat /\ \A k \in DOMAIN commands : commands[k].from \in 1 .. next - 1
  BY SeqsAre DEF MemApInv, Types, From
<1>6. i = commands[n + 1].from /\ i \in 1 .. next - 1
  BY <1>1, <1>5
<1> HIDE DEF n, m, i
<1>7. LastDone \in Nat /\ LastDone < i
  <2>1. CASE n = 0
    BY <1>1, <1>3, <2>1
  <2>2. CASE n # 0
    <3>1. n \in 1 .. m /\ n < n + 1
      BY <1>1, <2>2
    <3>2. commands[n].from < i /\ commands[n].from \in 1 .. next - 1
      BY <1>1, <1>4, <1>5, <1>6, <3>1
    <3> QED
      BY <1>3, <1>5, <2>2, <3>2
  <2> QED
    BY <2>1, <2>2
<1>8. ASSUME NEW k \in LastDone + 1 .. i - 1
      PROVE  list[k].op \in ListPromise!Settings
  <2>1. k \in Nat /\ LastDone < k /\ k < i /\ k \in 1 .. next - 1 /\ k # next - 1
    BY <1>1, <1>5, <1>6, <1>7
  <2>2. ~\E j \in DOMAIN commands : commands[j].from = k
    <3> SUFFICES ASSUME NEW j \in DOMAIN commands, commands[j].from = k
                 PROVE  FALSE
      OBVIOUS
    <3>1. j \in 1 .. m
      BY <1>1
    <3>2. CASE j > n + 1
      <4>1. commands[n + 1].from < commands[j].from
        BY <1>1, <1>4, <3>1, <3>2
      <4> QED
        BY <1>1, <1>6, <2>1, <4>1
    <3>3. CASE j = n + 1
      BY <1>1, <1>6, <2>1, <3>3
    <3>4. CASE j <= n
      <4>1. n # 0 /\ n \in 1 .. m
        BY <1>1, <3>1, <3>4
      <4>2. LastDone = commands[n].from
        BY <1>3, <4>1
      <4>3. CASE j = n
        BY <2>1, <4>2, <4>3, <1>7
      <4>4. CASE j < n
        <5>1. commands[j].from < commands[n].from
          BY <1>1, <1>4, <4>1, <4>4
        <5> QED
          BY <1>7, <2>1, <4>2, <5>1
      <4> QED
        BY <1>1, <3>1, <3>4, <4>3, <4>4
    <3> QED
      BY <1>1, <3>1, <3>2, <3>3, <3>4
  <2>3. Local(list[k])
    <3>1. CASE ~direct
      BY <2>1, <2>2, <3>1 DEF MemApInv, Queued
    <3>2. CASE direct
      <4>1. next = 2
        BY <3>2 DEF ListInv, Sorted
      <4> QED
        BY <2>1, <4>1
    <3> QED
      BY <3>1, <3>2
  <2> QED
    BY <2>3 DEF Local, ListPromise!Settings
<1> QED
  BY <1>1, <1>2, <1>7, <1>8 DEF ListPromise!Turn, ListPromise!Settings, Local, i

-----------------------------------------------------------------------------
(* The steps of the library and of the target *)

LEMMA SameProgress ==
  ASSUME UNCHANGED <<list, commands, ran, poll, lastPoll>>
  PROVE  UNCHANGED <<PolledLast, LastDone, SamplesTaken, SomeFailed, ResultsSoFar>>
<1>1. Current' = Current /\ PollDecided' = PollDecided /\ Succeeded' = Succeeded
      /\ SomeFailed' = SomeFailed
  BY DEF Current, PollDecided, Succeeded, SomeFailed
<1>2. \A i : Delivered(i)' = Delivered(i)
  BY DeliveredIs
<1>3. PolledLast' = PolledLast /\ LastDone' = LastDone /\ SamplesTaken' = SamplesTaken
  BY <1>1 DEF PolledLast, LastDone, SamplesTaken
<1>4. ResultsSoFar' = ResultsSoFar
  BY <1>1, <1>2 DEF ResultsSoFar
<1> QED
  BY <1>1, <1>3, <1>4

LEMMA NothingRan ==
  ASSUME ran = <<>>, poll = NULL, UNCHANGED <<ran, poll, lastPoll>>
  PROVE  /\ UNCHANGED <<PolledLast, LastDone, SamplesTaken, SomeFailed>>
         /\ SomeFailed = FALSE
         /\ ResultsSoFar = [i \in DOMAIN list |-> NULL]
         /\ ResultsSoFar' = [i \in DOMAIN list' |-> NULL]
<1> DEFINE z == <<>>
<1>0. DOMAIN z = {} /\ ran = z /\ ran' = z
  BY EmptyIs
<1> HIDE DEF z
<1>1. ~PollDecided /\ ~PollDecided'
  BY DEF PollDecided
<1>2. SomeFailed = FALSE /\ SomeFailed' = FALSE
  BY <1>0, CountsAre
<1>3. Succeeded = 0 /\ Succeeded' = 0
  <2>1. {i \in DOMAIN ran : ran[i].ok} = {} /\ {i \in DOMAIN ran' : ran'[i].ok} = {}
    BY <1>0
  <2> QED
    BY <2>1, CountsAre, FS_EmptySet
<1>4. \A i : Delivered(i) = NULL /\ Delivered(i)' = NULL
  BY <1>0, DeliveredIs DEF DeliveredBy
<1>5. UNCHANGED <<PolledLast, LastDone, SamplesTaken>>
  BY <1>1, <1>3 DEF PolledLast, LastDone, SamplesTaken
<1>6. /\ ResultsSoFar = [i \in DOMAIN list |-> NULL]
      /\ ResultsSoFar' = [i \in DOMAIN list' |-> NULL]
  BY <1>1, <1>4 DEF ResultsSoFar
<1> QED
  BY <1>2, <1>5, <1>6

LEMMA InitPromises == ListPathInit => ListPromise!Init
<1> SUFFICES ASSUME ListPathInit PROVE ListPromise!Init
  OBVIOUS
<1> DEFINE z == <<>>
<1>0. DOMAIN z = {}
  BY EmptyIs
<1>1. list = z /\ own = z /\ phase = "idle" /\ poll = NULL /\ ran = z
  BY DEF ListPathInit, RddiMemApInit
<1> HIDE DEF z
<1>2. ~PollDecided
  BY <1>1 DEF PollDecided
<1>3. SomeFailed = FALSE
  BY <1>0, <1>1, CountsAre
<1>4. Succeeded = 0
  <2>1. {i \in DOMAIN ran : ran[i].ok} = {}
    BY <1>0, <1>1
  <2> QED
    BY <2>1, CountsAre, FS_EmptySet
<1>5. LastDone = 0 /\ SamplesTaken = 0 /\ Returned = "no"
  BY <1>1, <1>2, <1>4, UndecidedIs DEF Returned
<1>6. ResultsSoFar = z
  <2>1. ResultsSoFar = [j \in {} |-> Delivered(j)]
    BY <1>0, <1>1, <1>2, UndecidedIs
  <2>2. [j \in {} |-> Delivered(j)] = <<>>
    OBVIOUS
  <2> QED
    BY <2>1, <2>2 DEF z
<1> QED
  BY <1>1, <1>3, <1>5, <1>6 DEF ListPromise!Init, z

LEMMA StartsPromise ==
  ASSUME MemApInv, ListInv,
         (\E ops \in ProperLists : AccessBatch(ops)) \/ (\E e \in ProperCalls : DirectCall(e))
  PROVE  ListPromise!Next
<1>1. /\ phase = "idle" /\ phase' # "returned" /\ phase' # "idle"
      /\ UNCHANGED <<ran, device, memory, lastPoll, poll>>
  BY DEF AccessBatch, DirectCall, memVars
<1>2. ran = <<>> /\ poll = NULL /\ list = <<>>
  BY <1>1 DEF MemApInv, Phases
<1>3. list' # <<>> /\ own' = [i \in DOMAIN list' |-> NULL]
  <2>1. CASE \E ops \in ProperLists : AccessBatch(ops)
    BY <2>1 DEF AccessBatch, ProperLists
  <2>2. ASSUME NEW e \in ProperCalls, DirectCall(e)
        PROVE  list' # <<>> /\ own' = [i \in DOMAIN list' |-> NULL]
    <3>1. list' = <<e>> /\ own' = <<NULL>>
      BY <2>2 DEF DirectCall
    <3>2. <<e>> # <<>> /\ DOMAIN <<e>> = 1 .. 1 /\ <<NULL>> = [i \in 1 .. 1 |-> NULL]
      OBVIOUS
    <3> QED
      BY <3>1, <3>2
  <2> QED
    BY <2>1, <2>2
<1>4. /\ UNCHANGED <<PolledLast, LastDone, SamplesTaken, SomeFailed>>
      /\ ResultsSoFar' = [i \in DOMAIN list' |-> NULL]
  BY <1>1, <1>2, NothingRan
<1>5. Returned' = Returned /\ Reachable' = Reachable
  BY <1>1 DEF Returned, Reachable
<1>6. ListPromise!Start
  BY <1>1, <1>2, <1>3, <1>4, <1>5 DEF ListPromise!Start
<1> QED
  BY <1>5, <1>6 DEF ListPromise!Next

LEMMA QueueNextStutters ==
  ASSUME MemApInv, QueueNext
  PROVE  UNCHANGED ListPromise!vars
<1>1. /\ phase = "queueing"
      /\ UNCHANGED <<phase, list, own, result, ran, device, memory, lastPoll, poll>>
  BY DEF QueueNext, returnVars, memVars
<1>2. ran = <<>> /\ poll = NULL
  BY <1>1 DEF MemApInv, Phases
<1>3. /\ UNCHANGED <<PolledLast, LastDone, SamplesTaken, SomeFailed>>
      /\ ResultsSoFar' = ResultsSoFar
  BY <1>1, <1>2, NothingRan
<1>4. Returned' = Returned /\ Reachable' = Reachable
  BY <1>1 DEF Returned, Reachable
<1> QED
  BY <1>1, <1>3, <1>4 DEF ListPromise!vars

\* The call returns.
LEMMA ReturnsPromise ==
  ASSUME MemApInv, ListInv, BatchEnd \/ Reply \/ ConnectionFails
  PROVE  ListPromise!Next \/ UNCHANGED ListPromise!vars
<1>1. /\ UNCHANGED <<list, commands, ran, poll, lastPoll, device, memory>>
      /\ phase \in {"queueing", "sent"}
  BY DEF BatchEnd, Reply, ConnectionFails, memVars
<1>2. UNCHANGED <<PolledLast, LastDone, SamplesTaken, SomeFailed, ResultsSoFar>>
  BY <1>1, SameProgress
<1>3. Reachable' = Reachable /\ list # <<>> /\ Returned = "no"
  BY <1>1 DEF Reachable, Returned, ListInv, Typed
<1>4. CASE BatchEnd /\ phase' = "sent"
  <2>1. Returned' = "no" /\ own' = own
    BY <1>4 DEF Returned, BatchEnd
  <2> QED
    BY <1>1, <1>2, <1>3, <2>1 DEF ListPromise!vars
<1>5. CASE BatchEnd /\ phase' # "sent"
  <2>1. phase = "queueing" /\ phase' = "returned" /\ result' = "success" /\ own' = own
    BY <1>5 DEF BatchEnd
  <2>2. ran = <<>> /\ poll = NULL /\ ~heard
    BY <2>1 DEF MemApInv, Phases
  <2>3. SomeFailed = FALSE /\ ResultsSoFar = [i \in DOMAIN list |-> NULL]
    BY <1>1, <2>2, NothingRan
  <2>4. own' = ResultsSoFar /\ Returned' = "success"
    BY <2>1, <2>2, <2>3 DEF ListInv, Unheard, Returned
  <2> QED
    BY <1>1, <1>2, <1>3, <2>3, <2>4 DEF ListPromise!Next, ListPromise!Return
<1>6. CASE Reply
  <2>1. /\ poll = NULL /\ phase' = "returned" /\ own' = [i \in DOMAIN list |-> Delivered(i)]
        /\ result' = (IF SomeFailed THEN "failed" ELSE "success")
    BY <1>6 DEF Reply, ServerDone
  <2>2. ~PollDecided
    BY <2>1 DEF PollDecided
  <2>3. own' = ResultsSoFar
    BY <2>1, <2>2, UndecidedIs
  <2>4. Returned' = (IF SomeFailed THEN "failed" ELSE "success")
    BY <2>1 DEF Returned
  <2>5. ListPromise!Return
    BY <1>1, <1>2, <1>3, <2>3, <2>4 DEF ListPromise!Return
  <2> QED
    BY <1>3, <2>5 DEF ListPromise!Next
<1>7. CASE ConnectionFails
  <2>1. Returned' = "failed" /\ own' = own
    BY <1>7 DEF ConnectionFails, Returned
  <2>2. ListPromise!Return
    BY <1>1, <1>2, <1>3, <2>1 DEF ListPromise!Return
  <2> QED
    BY <1>3, <2>2 DEF ListPromise!Next
<1> QED
  BY <1>4, <1>5, <1>6, <1>7

LEMMA QuietPromises ==
  ASSUME ListInv, ReplyLost \/ TargetStep \/ UNCHANGED listPath
  PROVE  ListPromise!Next \/ UNCHANGED ListPromise!vars
<1>1. UNCHANGED <<list, commands, ran, poll, lastPoll, device, phase, result, own>>
  BY DEF ReplyLost, TargetStep, TargetWrites, listPath, listVars, memVars, callVars, returnVars
<1>2. UNCHANGED <<PolledLast, LastDone, SamplesTaken, SomeFailed, ResultsSoFar>>
  BY <1>1, SameProgress
<1>3. Reachable' = Reachable /\ Returned' = Returned
  BY <1>1 DEF Reachable, Returned
<1>4. CASE TargetStep
  <2>1. PICK a \in Addr, byte \in Nat : memory' = [memory EXCEPT ![a] = byte]
    BY <1>4 DEF TargetStep, TargetWrites
  <2>2. \A b \in Addr : memory'[b] # memory[b] => b = a
    BY <2>1 DEF ListInv, Typed
  <2>3. ListPromise!Environment
    BY <1>1, <1>2, <1>3, <2>2 DEF ListPromise!Environment
  <2> QED
    BY <1>3, <2>3 DEF ListPromise!Next
<1>5. CASE memory' = memory
  BY <1>1, <1>2, <1>3, <1>5 DEF ListPromise!vars
<1> QED
  BY <1>4, <1>5 DEF ReplyLost, listPath, memVars

-----------------------------------------------------------------------------
(* The commands of the server *)

LEMMA EndPromises ==
  ASSUME MemApInv, ListInv, RunCommand, ~PollDecided, NEW o, IsOutcome(o),
         ran' = Append(ran, o), poll' = NULL
  PROVE  LET i == Current.from
             data == IF Checks(list[i]) \/ Writes(list[i]) THEN NULL ELSE o.data
         IN  /\ ListPromise!Turn(i)
             /\ PolledLast = lastPoll /\ PolledLast' = lastPoll'
             /\ o.ok => ListPromise!Done(i, data)
             /\ ~o.ok => /\ SomeFailed' = TRUE /\ SamplesTaken' = 0
                         /\ UNCHANGED <<list, LastDone, ResultsSoFar, Returned, own>>
<1> DEFINE i == Current.from
           data == IF Checks(list[i]) \/ Writes(list[i]) THEN NULL ELSE o.data
<1>1. /\ serving /\ ~ServerDone
      /\ UNCHANGED <<list, commands, phase, result>> /\ own' = own
  BY DEF RunCommand, callVars, returnVars
<1>2. ListPromise!Turn(i)
  BY <1>1, TurnIs
<1>3. i \in DOMAIN list /\ ~SomeFailed
  BY <1>1, RunningIs
<1>4. /\ SamplesTaken' = 0 /\ Returned' = Returned /\ PolledLast' = lastPoll'
      /\ o.ok => /\ SomeFailed' = FALSE /\ LastDone' = i
                 /\ ResultsSoFar' = With(DeliveredSoFar, i, data)
      /\ ~o.ok => /\ SomeFailed' = TRUE
                  /\ LastDone' = (IF Succeeded = 0 THEN 0 ELSE commands[Succeeded].from)
                  /\ ResultsSoFar' = DeliveredSoFar
  BY <1>1, CommandEnds
<1>5. /\ PolledLast = lastPoll
      /\ LastDone = (IF Succeeded = 0 THEN 0 ELSE commands[Succeeded].from)
      /\ ResultsSoFar = DeliveredSoFar
  BY UndecidedIs DEF DeliveredSoFar
<1>6. SomeFailed = FALSE
  BY <1>3, CountsAre
<1> HIDE DEF i, data
<1>7. [ResultsSoFar EXCEPT ![i] = data] = With(DeliveredSoFar, i, data)
  BY <1>5 DEF With
<1>8. ASSUME o.ok PROVE ListPromise!Done(i, data)
  BY <1>1, <1>4, <1>6, <1>7, <1>8 DEF ListPromise!Done
<1> QED
  BY <1>1, <1>2, <1>4, <1>5, <1>8 DEF i, data

\* A command that is running is a step of its operation.
LEMMA StepPromises ==
  ASSUME NEW i \in DOMAIN list, device' = device,
         \/ ListPromise!Read(i) \/ ListPromise!Write(i) \/ ListPromise!Sample(i)
         \/ ListPromise!Unspecified(i) \/ ListPromise!Check(i) \/ ListPromise!Fail(i)
  PROVE  ListPromise!Next
BY DEF ListPromise!Next, Reachable

LEMMA ReadPromises ==
  ASSUME MemApInv, ListInv, RunCommand, RunRead
  PROVE  ListPromise!Next
<1> DEFINE c == Current
           i == c.from
           e == list[i]
<1>1. serving /\ ~ServerDone /\ c.kind = "read" /\ UNCHANGED <<device, memory, lastPoll, poll>>
  BY DEF RunCommand, RunRead, memVars
<1>2. poll = NULL /\ ~PollDecided /\ SamplesTaken = 0
  BY <1>1, UndecidedIs DEF MemApInv, InOrder, PollDecided
<1>3. PICK o \in MemRead(c) : ran' = Append(ran, o)
  BY DEF RunRead, Finished
<1>4. i \in DOMAIN list /\ Proper(e) /\ e \in Operations /\ Asks(c, e)
  BY <1>1, RunningIs
<1>5. /\ e.op \in {"READ", "READ_RPT"} /\ ~Checks(e) /\ ~Writes(e) /\ ~Polls(e)
      /\ e.addr \in Nat /\ e.count \in Nat /\ e.acc \in {1, 2, 4, 8}
  <2> HIDE DEF c, e
  <2>1. Reads(e)
    BY <1>1, <1>4 DEF Asks
  <2> QED
    BY <1>4, <2>1 DEF Reads, Checks, Writes, Polls, Operations, Addr
<1>6. /\ c.addr = e.addr /\ c.acc = e.acc /\ c.size = Amount(e)
      /\ c.incr \in BOOLEAN /\ (c.incr <=> e.op = "READ")
  <2> HIDE DEF c, e
  <2> QED
    BY <1>4, <1>5 DEF Asks, Repeats
<1>7. o = Failure \/ (o = Success(ReadData(c)) /\ Accessible(c))
  BY <1>3 DEF MemRead, MayFail
<1>8. IsOutcome(o)
  <2>1. Failure.ok = FALSE /\ \A x : Success(x).ok = TRUE
    BY DEF Failure, Success
  <2> QED
    BY <1>7, <2>1 DEF IsOutcome
<1>9. /\ ListPromise!Turn(i) /\ PolledLast' = PolledLast
      /\ o.ok => ListPromise!Done(i, o.data)
      /\ ~o.ok => /\ SomeFailed' = TRUE /\ SamplesTaken' = 0
                  /\ UNCHANGED <<list, LastDone, ResultsSoFar, Returned, own>>
  BY <1>1, <1>2, <1>3, <1>5, <1>8, EndPromises
<1>10. CASE o = Failure
  <2>1. ~o.ok
    BY <1>10 DEF Failure
  <2>2. ListPromise!Fail(i)
    BY <1>1, <1>2, <1>5, <1>9, <2>1 DEF ListPromise!Fail
  <2> QED
    BY <1>1, <1>4, <2>2, StepPromises
<1>11. CASE o = Success(ReadData(c)) /\ Accessible(c)
  <2>1. ListPromise!Done(i, ReadData(c))
    BY <1>9, <1>11 DEF Success
  <2>2. HasMemory /\ (device = "mem-ap" => HasWidth(c.acc))
    BY <1>11 DEF Accessible, HasMemory
  <2>3. CASE e.op = "READ"
    <3>1. c.size = e.count /\ c.incr
      BY <1>6, <2>3 DEF Amount, Repeats
    <3>2. device = "mem-ap" => e.addr % e.acc = 0 /\ e.count % e.acc = 0
      BY <1>4, <2>3 DEF Proper
    <3>3. ReadData(c) = ListPromise!Seen(e.addr, e.count)
      <4> HIDE DEF c, e
      <4>1. ReadData(c) = ListPromise!Seen(c.addr, c.size)
        BY <1>5, <1>6, <2>2, <3>1, <3>2, StraightRead
      <4> QED
        BY <1>6, <3>1, <4>1
    <3>4. ListPromise!Done(i, ListPromise!Seen(e.addr, e.count))
      BY <2>1, <3>3
    <3>5. ListPromise!Read(i)
      BY <1>1, <1>9, <2>3, <3>4 DEF ListPromise!Read
    <3> QED
      BY <1>1, <1>4, <3>5, StepPromises
  <2>4. CASE e.op = "READ_RPT"
    <3>1. c.size = e.acc * e.count /\ ~c.incr
      BY <1>6, <2>4 DEF Amount, Repeats
    <3>2. device = "mem-ap" => e.acc = 4 /\ e.addr % 4 = 0
      BY <1>4, <2>4 DEF Proper, ByWords
    <3>3. ReadData(c) = [k \in 1 .. e.acc * e.count |-> memory[e.addr + ((k - 1) % e.acc)]]
      <4> HIDE DEF c, e
      <4>1. ReadData(c) = [k \in 1 .. c.size |-> memory[c.addr + ((k - 1) % c.acc)]]
        BY <1>5, <1>6, <2>2, <3>1, <3>2, RepeatedRead
      <4> QED
        BY <1>6, <3>1, <4>1
    <3>4. ListPromise!Done(i, [k \in 1 .. e.acc * e.count |-> memory[e.addr + ((k - 1) % e.acc)]])
      BY <2>1, <3>3
    <3>5. ListPromise!Read(i)
      BY <1>1, <1>9, <2>4, <3>4 DEF ListPromise!Read
    <3> QED
      BY <1>1, <1>4, <3>5, StepPromises
  <2> QED
    BY <1>5, <2>3, <2>4
<1> QED
  BY <1>7, <1>10, <1>11

LEMMA WritePromises ==
  ASSUME MemApInv, ListInv, RunCommand, RunWrite
  PROVE  ListPromise!Next
<1> DEFINE c == Current
           i == c.from
           e == list[i]
           skip == IF e.op = "WRITE" THEN 0 ELSE e.acc * (e.count - 1)
<1>1. serving /\ ~ServerDone /\ c.kind = "write" /\ UNCHANGED <<device, lastPoll, poll>>
  BY DEF RunCommand, RunWrite
<1>2. poll = NULL /\ ~PollDecided /\ SamplesTaken = 0
  BY <1>1, UndecidedIs DEF MemApInv, InOrder, PollDecided
<1>3. PICK ok \in BOOLEAN : MemWrite(c, ok) /\ ran' = Append(ran, [ok |-> ok, data |-> <<>>])
  BY DEF RunWrite, Finished
<1>4. i \in DOMAIN list /\ Proper(e) /\ e \in Operations /\ Asks(c, e)
  BY <1>1, RunningIs
<1>5. Writes(e) /\ e.op \in {"WRITE", "WRITE_RPT"}
  <2> HIDE DEF c, e
  <2>1. Writes(e)
    BY <1>1, <1>4 DEF Asks
  <2> QED
    BY <2>1 DEF Writes
<1>6. /\ ListPromise!Turn(i) /\ PolledLast' = PolledLast
      /\ ok => ListPromise!Done(i, NULL)
      /\ ~ok => /\ SomeFailed' = TRUE /\ SamplesTaken' = 0
                /\ UNCHANGED <<list, LastDone, ResultsSoFar, Returned, own>>
  <2> DEFINE o == [ok |-> ok, data |-> <<>>]
  <2>1. o.ok = ok /\ IsOutcome(o) /\ ran' = Append(ran, o)
    BY <1>3 DEF IsOutcome
  <2> HIDE DEF o
  <2> QED
    BY <1>1, <1>2, <1>5, <2>1, EndPromises
<1>7. HasMemory =>
        /\ c.addr = e.addr /\ c.acc = e.acc /\ c.data = e.data /\ c.addr \in Nat
        /\ c.acc \in {1, 2, 4, 8} /\ c.incr \in BOOLEAN /\ (c.incr <=> e.op = "WRITE")
        /\ e.count \in Nat /\ c.size = (IF c.incr THEN e.count ELSE c.acc * e.count)
        /\ ~c.incr => e.count > 0
        /\ device = "mem-ap" => c.acc = 4 /\ c.addr % 4 = 0 /\ c.size % 4 = 0
  <2> HIDE DEF c, e
  <2> QED
    BY <1>4, <1>5, WriteShape
<1>8. CASE ok
  <2>1. /\ Accessible(c)
        /\ memory' = (IF device = "memory" THEN MappedWrite(c)
                      ELSE ApWritten(c, c.size \div c.acc))
    BY <1>3, <1>8 DEF MemWrite
  <2>2. HasMemory
    BY <2>1 DEF Accessible, HasMemory
  <2> HIDE DEF c
  <2>3. (IF device = "memory" THEN MappedWrite(c) ELSE ApWritten(c, c.size \div c.acc))
         = [a \in Addr |->
              IF a \in c.addr .. c.addr + (IF c.incr THEN e.count ELSE c.acc) - 1
              THEN c.data[(IF c.incr THEN 0 ELSE c.acc * (e.count - 1)) + a - c.addr + 1]
              ELSE memory[a]]
    <3> HIDE DEF e
    <3> QED
      BY <1>7, <2>2, AllWritten
  <2>4. ListPromise!Range(e) = e.addr .. e.addr + (IF c.incr THEN e.count ELSE c.acc) - 1
    BY <1>5, <1>7, <2>2 DEF ListPromise!Range, ListPromise!Width
  <2>5. skip = (IF c.incr THEN 0 ELSE c.acc * (e.count - 1))
    BY <1>5, <1>7, <2>2
  <2>6. memory' = [a \in Addr |-> IF a \in ListPromise!Range(e) THEN e.data[skip + a - e.addr + 1]
                                  ELSE memory[a]]
    <3> HIDE DEF e, skip
    <3> QED
      BY <1>7, <2>1, <2>2, <2>3, <2>4, <2>5
  <2>7. ListPromise!Write(i)
    BY <1>5, <1>6, <1>8, <2>6 DEF ListPromise!Write
  <2> QED
    BY <1>1, <1>4, <2>7, StepPromises
<1>9. CASE ~ok
  <2>1. ASSUME NEW a \in Addr \ ListPromise!Range(e)
        PROVE  memory'[a] = memory[a]
    <3>1. CASE memory' = memory
      BY <3>1
    <3>2. CASE /\ Accessible(c) /\ device = "mem-ap"
               /\ \E n \in 0 .. c.size \div c.acc - 1 : memory' = ApWritten(c, n)
      <4>1. HasMemory
        BY <3>2 DEF HasMemory
      <4>2. PICK n \in 0 .. c.size \div c.acc - 1 : memory' = ApWritten(c, n)
        BY <3>2
      <4> HIDE DEF c
      <4>3. ListPromise!Range(e) = c.addr .. c.addr + (IF c.incr THEN e.count ELSE c.acc) - 1
        BY <1>5, <1>7, <4>1 DEF ListPromise!Range, ListPromise!Width
      <4>4. c.size = (IF c.incr THEN e.count ELSE 4 * e.count) /\ c.acc = 4
            /\ n \in 0 .. c.size \div 4 - 1
        BY <1>7, <3>2, <4>1
      <4>5. a \in Addr /\ a \notin c.addr .. c.addr + (IF c.incr THEN e.count ELSE c.acc) - 1
        BY <4>3
      <4>6. ApWritten(c, n)[a] = memory[a]
        <5> HIDE DEF e
        <5> QED
          BY <1>7, <3>2, <4>1, <4>4, <4>5, PartlyWritten
      <4> QED
        BY <4>2, <4>6
    <3> QED
      BY <1>3, <1>9, <3>1, <3>2 DEF MemWrite
  <2>2. ListPromise!Fail(i)
    BY <1>2, <1>5, <1>6, <1>9, <2>1 DEF ListPromise!Fail
  <2> QED
    BY <1>1, <1>4, <2>2, StepPromises
<1> QED
  BY <1>8, <1>9

LEMMA CheckPromises ==
  ASSUME MemApInv, ListInv, RunCommand, RunCheck
  PROVE  ListPromise!Next
<1> DEFINE c == Current
           i == c.from
           e == list[i]
           o == CheckLast(c)
           known == device # "none" /\ lastPoll # NULL /\ Len(lastPoll) >= c.size
           bytes == SubSeq(lastPoll, 1, c.size)
<1>1. /\ serving /\ ~ServerDone /\ c.kind = "check" /\ ran' = Append(ran, o)
      /\ UNCHANGED <<device, memory, lastPoll, poll>>
  BY DEF RunCommand, RunCheck, memVars, Finished
<1>2. poll = NULL /\ ~PollDecided /\ SamplesTaken = 0
  BY <1>1, UndecidedIs DEF MemApInv, InOrder, PollDecided
<1>3. /\ i \in DOMAIN list /\ Proper(e) /\ e \in Operations /\ Asks(c, e)
      /\ c.mask = ListPromise!MaskAt(i) /\ c.value = ListPromise!ValueAt(i) /\ ~Local(e)
  BY <1>1, RunningIs
<1>4. e.op \in {"CHECK_EQ", "CHECK_NE"} /\ Checks(e) /\ ~Writes(e)
  <2> HIDE DEF c, e
  <2>1. ~Writes(e) /\ ~Reads(e) /\ ~Polls(e)
    BY <1>1, <1>3 DEF Asks
  <2> QED
    BY <1>3, <2>1 DEF Writes, Reads, Polls, Local, Checks, Operations
<1>5. /\ c.size = 4 /\ c.mask \subseteq PollBytes /\ c.value \in Seq(Nat) /\ Len(c.value) >= 4
      /\ c.ne \in BOOLEAN /\ (c.ne <=> e.op \in {"POLL_NE", "CHECK_NE"})
  <2> HIDE DEF c, e
  <2> QED
    BY <1>3, <1>4 DEF Asks
<1>6. o = (IF known /\ Matches(bytes, c) THEN Success(bytes) ELSE Failure)
  BY DEF CheckLast
<1>7. lastPoll \in {NULL} \cup Seq(Nat \cup {UNKNOWN})
  BY DEF ListInv, Typed
<1>8. known => (Matches(bytes, c) <=> ListPromise!Wanted(lastPoll, i))
  <2> SUFFICES ASSUME known PROVE Matches(bytes, c) <=> ListPromise!Wanted(lastPoll, i)
    OBVIOUS
  <2>1. lastPoll \in Seq(Nat \cup {UNKNOWN}) /\ Len(lastPoll) >= 4
    BY <1>5, <1>7
  <2>2. DOMAIN lastPoll = 1 .. Len(lastPoll) /\ Len(lastPoll) \in Nat
    BY <2>1
  <2>3. /\ DOMAIN bytes = PollBytes /\ Len(bytes) = 4 /\ PollBytes \subseteq DOMAIN lastPoll
        /\ \A k \in PollBytes : bytes[k] = lastPoll[k]
    BY <1>5, <2>1, <2>2 DEF PollBytes
  <2> HIDE DEF bytes, c, i
  <2> QED
    BY <1>3, <1>4, <1>5, <2>3, MatchesIsWanted
<1> DEFINE yes == known /\ ListPromise!Wanted(lastPoll, i)
<1>9. o = (IF yes THEN Success(bytes) ELSE Failure)
  BY <1>6, <1>8
<1>10. IsOutcome(o) /\ (o.ok <=> yes)
  <2> HIDE DEF o, yes, bytes
  <2>1. Failure.ok = FALSE /\ Success(bytes).ok = TRUE
    BY DEF Failure, Success
  <2> QED
    BY <1>9, <2>1 DEF IsOutcome
<1>11. /\ ListPromise!Turn(i) /\ PolledLast = lastPoll /\ PolledLast' = PolledLast
       /\ o.ok => ListPromise!Done(i, NULL)
       /\ ~o.ok => /\ SomeFailed' = TRUE /\ SamplesTaken' = 0
                   /\ UNCHANGED <<list, LastDone, ResultsSoFar, Returned, own>>
  <2> HIDE DEF o
  <2> QED
    BY <1>1, <1>2, <1>4, <1>10, EndPromises
<1> HIDE DEF o
<1>12. CASE o.ok
  <2>1. Reachable /\ PolledLast # NULL /\ ListPromise!Wanted(PolledLast, i)
    BY <1>11, <1>12, <1>10 DEF Reachable
  <2>2. ListPromise!Check(i)
    BY <1>1, <1>4, <1>11, <1>12, <2>1 DEF ListPromise!Check
  <2> QED
    BY <1>1, <1>3, <2>2, StepPromises
<1>13. CASE ~o.ok
  <2>1. Reachable => \/ PolledLast = NULL \/ Len(PolledLast) < 4
                     \/ ~ListPromise!Wanted(PolledLast, i)
    <3>1. lastPoll = NULL \/ Len(lastPoll) \in Nat
      BY <1>7
    <3> QED
      BY <1>5, <1>11, <1>13, <1>10, <3>1 DEF Reachable
  <2>2. ListPromise!Fail(i)
    BY <1>1, <1>2, <1>4, <1>11, <1>13, <2>1 DEF ListPromise!Fail
  <2> QED
    BY <1>1, <1>3, <2>2, StepPromises
<1> QED
  BY <1>12, <1>13

\* What a poll that is running asks for.
LEMMA PollAsks ==
  ASSUME MemApInv, ListInv, RunCommand, RunPoll
  PROVE  LET c == Current
             i == c.from
             e == list[i]
         IN  /\ serving /\ ~ServerDone /\ i \in DOMAIN list
             /\ Proper(e) /\ Asks(c, e) /\ Polls(e) /\ ~Checks(e) /\ ~Writes(e)
             /\ e.op \in {"POLL_EQ", "POLL_NE"}
             /\ c.size = 4 /\ c.tries = e.count /\ e.count \in Nat /\ c.acc = e.acc
             /\ device = "mem-ap" => c.acc = 4
             /\ UNCHANGED <<device, memory>>
<1> DEFINE c == Current
           i == c.from
           e == list[i]
<1>1. serving /\ ~ServerDone /\ c.kind = "poll"
  BY DEF RunCommand, RunPoll
<1>2. /\ i \in DOMAIN list /\ Proper(e) /\ Asks(c, e) /\ ~Local(e) /\ e \in Operations
  BY <1>1, RunningIs
<1>3. UNCHANGED <<device, memory>>
  BY DEF RunPoll, PollBegins, PollFailsEarly, PollTry, PollEnds
<1> HIDE DEF c, e
<1>4. Polls(e) /\ ~Checks(e) /\ ~Writes(e) /\ e.op \in {"POLL_EQ", "POLL_NE"}
  <2>1. Polls(e)
    BY <1>1, <1>2 DEF Asks
  <2> QED
    BY <2>1 DEF Polls, Checks, Writes
<1>5. c.size = 4 /\ c.tries = e.count /\ e.count \in Nat /\ c.acc = e.acc
      /\ (device = "mem-ap" => c.acc = 4)
  BY <1>2, <1>4 DEF Asks, Proper, ByWords, Operations
<1> QED
  BY <1>1, <1>2, <1>3, <1>4, <1>5 DEF c, e

\* A poll that goes on.
LEMMA GoesOn ==
  ASSUME RunCommand, UNCHANGED <<ran, lastPoll>>, ~PollDecided, ~PollDecided'
  PROVE  /\ Current' = Current
         /\ UNCHANGED <<list, PolledLast, LastDone, SomeFailed, ResultsSoFar, Returned, own>>
<1>1. UNCHANGED <<list, commands, phase, result, own, ran>>
  BY DEF RunCommand, callVars, returnVars
<1>2. Current' = Current /\ Succeeded' = Succeeded /\ SomeFailed' = SomeFailed
  BY <1>1 DEF Current, Succeeded, SomeFailed
<1>3. \A j : Delivered(j)' = Delivered(j)
  BY <1>1, DeliveredIs
<1>4. PolledLast' = PolledLast /\ LastDone' = LastDone
  BY <1>1, <1>2 DEF PolledLast, LastDone
<1>5. ResultsSoFar' = ResultsSoFar
  BY <1>1, <1>3 DEF ResultsSoFar
<1>6. Returned' = Returned
  BY <1>1 DEF Returned
<1> QED
  BY <1>1, <1>2, <1>4, <1>5, <1>6

\* A poll that is decided and has not ended.
LEMMA DecidedIs ==
  ASSUME RunCommand, UNCHANGED ran, ~PollDecided, PollDecided', Current.from \in DOMAIN list
  PROVE  LET i == Current.from IN
         /\ PolledLast' = poll'.buf /\ LastDone' = i /\ SamplesTaken' = 0
         /\ ResultsSoFar' = [ResultsSoFar EXCEPT ![i] = poll'.buf]
         /\ UNCHANGED <<list, SomeFailed, Returned, own>>
<1>1. UNCHANGED <<list, commands, phase, result, own, ran>>
  BY DEF RunCommand, callVars, returnVars
<1>2. Current' = Current /\ SomeFailed' = SomeFailed
  BY <1>1 DEF Current, SomeFailed
<1>3. \A j : Delivered(j)' = Delivered(j)
  BY <1>1, DeliveredIs
<1>4. PolledLast' = poll'.buf /\ LastDone' = Current.from /\ SamplesTaken' = 0
  BY <1>2 DEF PolledLast, LastDone, SamplesTaken
<1>5. Returned' = Returned
  BY <1>1 DEF Returned
<1>6. ResultsSoFar = [j \in DOMAIN list |-> Delivered(j)]
  BY UndecidedIs
<1>7. ResultsSoFar' = [j \in DOMAIN list |-> IF Current.from = j THEN poll'.buf ELSE Delivered(j)]
  BY <1>1, <1>2, <1>3 DEF ResultsSoFar
<1>8. ResultsSoFar' = [ResultsSoFar EXCEPT ![Current.from] = poll'.buf]
  BY <1>6, <1>7
<1> QED
  BY <1>1, <1>2, <1>4, <1>5, <1>8

LEMMA BeginsPromise ==
  ASSUME MemApInv, ListInv, RunCommand, RunPoll,
         poll = NULL, PollBegins(Current), UNCHANGED ran
  PROVE  UNCHANGED ListPromise!vars
<1>1. /\ poll'.left = Current.tries /\ ~poll'.done
      /\ Current.tries \in Nat /\ UNCHANGED <<device, memory, lastPoll>>
  <2>1. /\ Current.tries \in Nat /\ UNCHANGED <<device, memory>>
    BY PollAsks
  <2>2. poll' = [left |-> Current.tries, done |-> FALSE,
                 buf |-> [k \in 1 .. Current.size |-> UNKNOWN],
                 res |-> IF device = "memory" THEN "unset" ELSE "success"]
        /\ lastPoll' = lastPoll
    BY DEF PollBegins
  <2> QED
    BY <2>1, <2>2
<1>2. ~PollDecided /\ ~PollDecided'
  BY <1>1 DEF PollDecided
<1>3. Current' = Current
      /\ UNCHANGED <<list, PolledLast, LastDone, SomeFailed, ResultsSoFar, Returned, own>>
  BY <1>1, <1>2, GoesOn
<1>4. SamplesTaken = 0
  BY <1>2, UndecidedIs
<1>5. SamplesTaken' = 0
  <2>1. SamplesTaken' = IF poll' = NULL THEN 0 ELSE Current.tries - poll'.left
    BY <1>2, <1>3 DEF SamplesTaken
  <2> QED
    BY <1>1, <2>1
<1>6. Reachable' = Reachable
  BY <1>1 DEF Reachable
<1> QED
  BY <1>1, <1>3, <1>4, <1>5, <1>6 DEF ListPromise!vars

LEMMA EarlyFailurePromises ==
  ASSUME MemApInv, ListInv, RunCommand, RunPoll,
         poll = NULL, PollFailsEarly(Current), ran' = Append(ran, Failure)
  PROVE  ListPromise!Next
<1> DEFINE i == Current.from
<1>1. /\ i \in DOMAIN list /\ list[i].op \in {"POLL_EQ", "POLL_NE"}
      /\ UNCHANGED <<device, memory>>
  BY PollAsks
<1>2. ~PollDecided /\ SamplesTaken = 0
  BY UndecidedIs DEF PollDecided
<1>3. poll' = NULL /\ lastPoll' \in {lastPoll, NULL}
  BY DEF PollFailsEarly
<1>4. IsOutcome(Failure) /\ ~Failure.ok
  BY DEF Failure, IsOutcome
<1>5. /\ ListPromise!Turn(i) /\ PolledLast' \in {PolledLast, NULL}
      /\ SomeFailed' = TRUE /\ SamplesTaken' = 0
      /\ UNCHANGED <<list, LastDone, ResultsSoFar, Returned, own>>
  BY <1>2, <1>3, <1>4, EndPromises
<1>6. ListPromise!Fail(i)
  BY <1>1, <1>2, <1>5 DEF ListPromise!Fail
<1> QED
  BY <1>1, <1>6, StepPromises

LEMMA TryPromises ==
  ASSUME MemApInv, ListInv, RunCommand, RunPoll, PollTry(Current), UNCHANGED ran
  PROVE  ListPromise!Next \/ UNCHANGED ListPromise!vars
<1> DEFINE c == Current
           i == c.from
           e == list[i]
<1>1. /\ serving /\ ~ServerDone /\ i \in DOMAIN list
      /\ Proper(e) /\ Asks(c, e) /\ Polls(e)
      /\ e.op \in {"POLL_EQ", "POLL_NE"}
      /\ c.size = 4 /\ c.tries = e.count /\ e.count \in Nat /\ c.acc = e.acc
      /\ device = "mem-ap" => c.acc = 4
      /\ UNCHANGED <<device, memory>>
  BY PollAsks
<1>2. poll # NULL /\ ~poll.done /\ poll.left > 0 /\ lastPoll' = lastPoll
  BY DEF PollTry
<1>3. poll \in Polling /\ memory \in [Addr -> Nat]
  BY <1>2 DEF ListInv, Typed
<1>4. /\ HasMemory /\ poll.left <= c.tries
      /\ \/ /\ poll.left = c.tries
            /\ poll.res = (IF device = "memory" THEN "unset" ELSE "success")
         \/ poll.res = "no match" /\ Copies(4, c.acc)
  BY <1>2 DEF ListInv, Progress
<1>5. ~PollDecided
  BY <1>2 DEF PollDecided
<1>6. SamplesTaken = c.tries - poll.left
  BY <1>2, <1>5, UndecidedIs
<1>7. ListPromise!Turn(i)
  BY <1>1, <1>5, TurnIs
<1>8. PICK p \in Nat, t \in Nat : p = poll.left /\ t = c.tries
  BY <1>1, <1>3 DEF Polling
<1>9. 0 < p /\ p <= t /\ SamplesTaken = t - p
  BY <1>2, <1>4, <1>6, <1>8
<1>10. Reachable' = Reachable
  BY <1>1 DEF Reachable
<1> HIDE DEF c, e, i
<1>11. ASSUME poll' \in Polling, ~PollDecided'
       PROVE  /\ SamplesTaken' = t - poll'.left
              /\ UNCHANGED <<list, PolledLast, LastDone, SomeFailed, ResultsSoFar, Returned, own>>
  <2>1. Current' = Current
        /\ UNCHANGED <<list, PolledLast, LastDone, SomeFailed, ResultsSoFar, Returned, own>>
    BY <1>2, <1>5, <1>11, GoesOn
  <2>2. poll' # NULL
    BY <1>11, NullAssumption
  <2>3. SamplesTaken' = Current.tries - poll'.left
    BY <1>11, <2>1, <2>2 DEF SamplesTaken
  <2> QED
    BY <1>8, <2>1, <2>3 DEF c
<1>12. ASSUME poll' \in Polling, ~PollDecided', poll'.left = poll.left
       PROVE  UNCHANGED ListPromise!vars
  <2>1. SamplesTaken' = SamplesTaken
    BY <1>8, <1>9, <1>11, <1>12
  <2> QED
    BY <1>1, <1>10, <1>11, <1>12, <2>1 DEF ListPromise!vars
<1>13. CASE Copies(c.size, c.acc) /\ Tried(c, poll.left - 1)
  <2> DEFINE data == PollData(c)
             found == Matches(data, c)
             l == p - 1
  <2>1. data = ListPromise!Seen(e.addr, 4) /\ data \in [PollBytes -> Nat]
    BY <1>1, <1>3, <1>4, PollReads
  <2>2. l \in Nat /\ poll.left - 1 = l
    BY <1>8, <1>9
  <2>3. poll' = [left |-> l, buf |-> data, res  |-> IF found THEN "success" ELSE "no match",
                 done |-> found \/ l = 0 \/ device = "mem-ap"]
    BY <1>13, <2>2 DEF Tried
  <2>4. data \in PollBuffers
    BY <2>1 DEF PollBuffers
  <2>5. (found \/ l = 0 \/ device = "mem-ap") \in BOOLEAN
    OBVIOUS
  <2>6. found <=> ListPromise!Wanted(data, i)
    <3>1. /\ c.mask = ListPromise!MaskAt(i) /\ c.value = ListPromise!ValueAt(i)
      BY <1>1, RunningIs DEF c, i
    <3>2. /\ c.mask \subseteq PollBytes /\ c.value \in Seq(Nat) /\ Len(c.value) >= 4
          /\ c.ne \in BOOLEAN /\ (c.ne <=> e.op \in {"POLL_NE", "CHECK_NE"})
      BY <1>1 DEF Asks
    <3>3. DOMAIN data = PollBytes /\ Len(data) = 4
      <4>1. data \in [1 .. 4 -> Nat]
        BY <2>1 DEF PollBytes
      <4> HIDE DEF data
      <4> QED
        BY <2>1, <4>1, BuffersAreSeqs
    <3> HIDE DEF data
    <3> QED
      BY <1>1, <3>1, <3>2, <3>3, MatchesIsWanted DEF e
  <2> HIDE DEF data, found, l
  <2>7. poll' \in Polling /\ poll'.left = l /\ poll'.buf = data
    BY <2>2, <2>3, <2>4, <2>5 DEF Polling
  <2>8. CASE found
    <3>1. poll'.done /\ poll'.res = "success"
      BY <2>3, <2>8
    <3>2. PollDecided'
      BY <2>7, <3>1, NullAssumption DEF PollDecided
    <3>3. /\ PolledLast' = data /\ LastDone' = i /\ SamplesTaken' = 0
          /\ ResultsSoFar' = [ResultsSoFar EXCEPT ![i] = data]
          /\ UNCHANGED <<list, SomeFailed, Returned, own>>
      BY <1>1, <1>5, <2>7, <3>2, DecidedIs DEF i, c
    <3>4. ListPromise!Done(i, data)
      BY <3>3 DEF ListPromise!Done
    <3>5. SamplesTaken < e.count
      BY <1>1, <1>8, <1>9
    <3>6. ListPromise!Sample(i)
      BY <1>1, <1>7, <2>1, <2>6, <2>8, <3>3, <3>4, <3>5 DEF ListPromise!Sample, e
    <3> QED
      BY <1>1, <3>6, StepPromises
  <2>9. CASE ~found
    <3>1. poll'.res = "no match"
      BY <2>3, <2>9
    <3>2. ~PollDecided'
      BY <3>1 DEF PollDecided
    <3>3. /\ SamplesTaken' = t - l
          /\ UNCHANGED <<list, PolledLast, LastDone, SomeFailed, ResultsSoFar, Returned, own>>
      BY <1>11, <2>7, <3>2
    <3>4. SamplesTaken' = SamplesTaken + 1
      BY <1>9, <3>3 DEF l
    <3>5. SamplesTaken < e.count
      BY <1>1, <1>8, <1>9
    <3>6. ListPromise!Sample(i)
      BY <1>1, <1>7, <2>1, <2>6, <2>9, <3>3, <3>4, <3>5 DEF ListPromise!Sample, e
    <3> QED
      BY <1>1, <3>6, StepPromises
  <2> QED
    BY <2>8, <2>9
<1>14. CASE ~Copies(c.size, c.acc) /\ poll' = [poll EXCEPT !.done = TRUE]
  <2>1. poll.res # "success"
    <3>1. device # "mem-ap"
      BY <1>1, <1>14 DEF Copies
    <3> QED
      BY <1>4, <3>1 DEF HasMemory
  <2>2. poll' \in Polling /\ poll'.res = poll.res /\ poll'.left = poll.left
    BY <1>3, <1>14 DEF Polling
  <2>3. ~PollDecided'
    BY <2>1, <2>2 DEF PollDecided
  <2> QED
    BY <1>12, <2>2, <2>3
<1>15. CASE poll' = [poll EXCEPT !.res = "failed", !.done = TRUE]
  <2>1. poll' \in Polling /\ poll'.res = "failed" /\ poll'.left = poll.left
    BY <1>3, <1>15 DEF Polling
  <2>2. ~PollDecided'
    BY <2>1 DEF PollDecided
  <2> QED
    BY <1>12, <2>1, <2>2
<1> QED
  BY <1>13, <1>14, <1>15 DEF PollTry, c

LEMMA PollEndPromises ==
  ASSUME MemApInv, ListInv, RunCommand, RunPoll, poll # NULL,
         NEW o, o \in {Failure, Success(poll.buf)}, PollEnds(o), ran' = Append(ran, o)
  PROVE  ListPromise!Next \/ UNCHANGED ListPromise!vars
<1> DEFINE c == Current
           i == c.from
           e == list[i]
<1>1. /\ serving /\ ~ServerDone /\ i \in DOMAIN list
      /\ ~Checks(e) /\ ~Writes(e) /\ e.op \in {"POLL_EQ", "POLL_NE"}
      /\ c.size = 4 /\ c.tries = e.count /\ e.count \in Nat /\ c.acc = e.acc
      /\ UNCHANGED <<device, memory>>
  BY PollAsks
<1>2. poll \in Polling
  BY DEF ListInv, Typed
<1>3. /\ Failure.ok = FALSE /\ \A x : Success(x).ok = TRUE /\ Success(x).data = x
  BY DEF Failure, Success
<1>4. IsOutcome(o)
  BY <1>3 DEF IsOutcome
<1>5. /\ poll.done \/ poll.left = 0
      /\ \/ poll.res \in {"success", "unset"} /\ o = Success(poll.buf)
         \/ poll.res # "success" /\ o = Failure
      /\ lastPoll' = (IF o.ok THEN poll.buf ELSE NULL)
      /\ poll' = NULL
  BY DEF PollEnds
<1>6. Reachable' = Reachable
  BY <1>1 DEF Reachable
<1>7. CASE PollDecided
  <2>1. o = Success(poll.buf) /\ o.ok /\ o.data = poll.buf /\ lastPoll' = poll.buf
    BY <1>3, <1>5, <1>7 DEF PollDecided
  <2>2. UNCHANGED <<list, commands, phase, result>> /\ own' = own
    BY DEF RunCommand, callVars, returnVars
  <2>3. /\ SamplesTaken' = 0 /\ Returned' = Returned /\ PolledLast' = poll.buf
        /\ SomeFailed' = FALSE /\ LastDone' = i
        /\ ResultsSoFar' = With(DeliveredSoFar, i, poll.buf)
    BY <1>1, <1>4, <1>5, <2>1, <2>2, CommandEnds
  <2>4. PolledLast = poll.buf /\ LastDone = i /\ SamplesTaken = 0
    BY <1>7 DEF PolledLast, LastDone, SamplesTaken
  <2>5. SomeFailed = FALSE
    BY <1>1, RunningIs, CountsAre
  <2>6. ResultsSoFar = With(DeliveredSoFar, i, poll.buf)
    BY <1>1, <1>7 DEF ResultsSoFar, With, DeliveredSoFar
  <2> QED
    BY <1>1, <1>6, <2>2, <2>3, <2>4, <2>5, <2>6 DEF ListPromise!vars
<1>8. CASE ~PollDecided
  <2>1. /\ ListPromise!Turn(i) /\ PolledLast' = lastPoll'
        /\ o.ok => ListPromise!Done(i, o.data)
        /\ ~o.ok => /\ SomeFailed' = TRUE /\ SamplesTaken' = 0
                    /\ UNCHANGED <<list, LastDone, ResultsSoFar, Returned, own>>
    BY <1>1, <1>4, <1>5, <1>8, EndPromises
  <2>2. SamplesTaken = c.tries - poll.left
    BY <1>8, UndecidedIs
  <2>3. ~(poll.done /\ poll.res = "success")
    BY <1>8 DEF PollDecided
  <2>4. \/ ~poll.done /\ poll.left = c.tries
        \/ ~poll.done /\ poll.left < c.tries /\ poll.res = "no match"
        \/ poll.done /\ poll.left = 0 /\ poll.res = "no match"
        \/ poll.done /\ poll.left = c.tries /\ poll.res = "unset" /\ ~Copies(4, c.acc)
        \/ poll.done /\ poll.left = c.tries /\ poll.res = "failed"
    BY <2>3 DEF ListInv, Progress
  <2>5. PICK p \in Nat, t \in Nat : p = poll.left /\ t = c.tries
    BY <1>1, <1>2 DEF Polling
  <2> HIDE DEF c
  <2>6. \/ ~poll.done /\ p = t /\ p = 0
        \/ p = 0 /\ poll.res = "no match"
        \/ poll.done /\ p = t /\ poll.res = "unset" /\ ~Copies(4, c.acc)
        \/ poll.done /\ p = t /\ poll.res = "failed"
    BY <1>5, <2>4, <2>5
  <2>7. CASE o.ok
    <3>1. o = Success(poll.buf) /\ poll.res \in {"success", "unset"} /\ o.data = poll.buf
      BY <1>3, <1>5, <2>7
    <3>2. t = 0 \/ ~Copies(4, c.acc)
      BY <2>6, <3>1
    <3>3. ListPromise!Open(e)
      BY <1>1, <2>5, <3>2 DEF ListPromise!Open, Copies
    <3>4. PolledLast' = poll.buf /\ poll.buf # NULL /\ ListPromise!Done(i, poll.buf)
      <4>1. poll.buf \in PollBuffers
        BY <1>2 DEF Polling
      <4>2. poll.buf # NULL
        BY <4>1, NullAssumption
      <4> QED
        BY <1>5, <2>1, <2>7, <3>1, <4>2
    <3>5. ListPromise!Unspecified(i)
      BY <1>1, <2>1, <3>3, <3>4 DEF ListPromise!Unspecified
    <3> QED
      BY <1>1, <3>5, StepPromises
  <2>8. CASE ~o.ok
    <3>1. SamplesTaken = 0 \/ SamplesTaken = t
      <4>1. SamplesTaken = t - p
        BY <2>2, <2>5
      <4>2. p = t \/ p = 0
        BY <2>6
      <4> QED
        BY <2>5, <4>1, <4>2
    <3>2. SamplesTaken > 0 => SamplesTaken = e.count
      BY <1>1, <2>5, <3>1
    <3>3. PolledLast' = NULL
      BY <1>5, <2>1, <2>8
    <3>4. ListPromise!Fail(i)
      BY <1>1, <2>1, <2>8, <3>2, <3>3 DEF ListPromise!Fail
    <3> QED
      BY <1>1, <3>4, StepPromises
  <2> QED
    BY <2>7, <2>8
<1> QED
  BY <1>7, <1>8

LEMMA PollPromises ==
  ASSUME MemApInv, ListInv, RunCommand, RunPoll
  PROVE  ListPromise!Next \/ UNCHANGED ListPromise!vars
<1>1. CASE poll = NULL /\ PollBegins(Current) /\ UNCHANGED ran
  BY <1>1, BeginsPromise
<1>2. CASE poll = NULL /\ PollFailsEarly(Current) /\ Finished(Failure)
  BY <1>2, EarlyFailurePromises DEF Finished
<1>3. CASE PollTry(Current) /\ UNCHANGED ran
  BY <1>3, TryPromises
<1>4. CASE poll # NULL /\ \E o \in {Failure, Success(poll.buf)} : PollEnds(o) /\ Finished(o)
  <2>1. PICK o \in {Failure, Success(poll.buf)} : PollEnds(o) /\ Finished(o)
    BY <1>4
  <2>2. ran' = Append(ran, o)
    BY <2>1 DEF Finished
  <2> QED
    BY <1>4, <2>1, <2>2, PollEndPromises
<1> QED
  BY <1>1, <1>2, <1>3, <1>4 DEF RunPoll

-----------------------------------------------------------------------------
(* The promise is kept *)

\* Every step of the call is one of the promise or leaves what it speaks of alone.
LEMMA StepKeepsPromise ==
  ASSUME MemApInv, ListInv, [ProperNext]_listPath
  PROVE  [ListPromise!Next]_(ListPromise!vars)
<1>1. CASE RunCommand
  BY <1>1, ReadPromises, WritePromises, CheckPromises, PollPromises DEF RunCommand
<1>2. CASE QueueNext
  BY <1>2, QueueNextStutters
<1>3. CASE BatchEnd \/ Reply \/ ConnectionFails
  BY <1>3, ReturnsPromise
<1>4. CASE ReplyLost \/ TargetStep \/ UNCHANGED listPath
  BY <1>4, QuietPromises
<1>5. CASE (\E ops \in ProperLists : AccessBatch(ops)) \/ (\E e \in ProperCalls : DirectCall(e))
  BY <1>5, StartsPromise
<1> QED
  BY <1>1, <1>2, <1>3, <1>4, <1>5 DEF ProperNext, RddiMemApNext

\* What MEM_AP_AccessBatch and the direct calls make of a list - by commands that
\* are queued, sent, run by cswp_impl.c and answered - is what performing its
\* operations one by one on the target's memory makes of it: for lists of any
\* length, on every kind of device, in a request buffer of any size, and when the
\* connection is lost.  The lists are those whose operations bring their data and
\* that on a mem-ap stay within what it does right.
THEOREM KeepsTheListPromise == ProperSpec => KeepsListPromise
<1>1. ListPathInit => MemApInv /\ ListInv /\ ListPromise!Init
  BY InitHolds, ListInitHolds, InitPromises
<1>2. MemApInv /\ ListInv /\ [ProperNext]_listPath => MemApInv' /\ ListInv'
  BY ListStepKeeps
<1>3. MemApInv /\ ListInv /\ [ProperNext]_listPath => [ListPromise!Next]_(ListPromise!vars)
  BY StepKeepsPromise
<1> QED
  BY <1>1, <1>2, <1>3, PTL DEF ProperSpec, KeepsListPromise, ListPromise!Spec
=============================================================================
