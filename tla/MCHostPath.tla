----------------------------- MODULE MCHostPath -----------------------------
(***************************************************************************)
(* The path from a client of the RDDI libraries to the target's memory, in *)
(* three parts that share no state and are checked side by side: the calls *)
(* of the libraries ("api"), a list of memory operations ("list"), and     *)
(* requests on the wire ("wire").                                          *)
(***************************************************************************)
EXTENDS RddiMemAp, CswpWire, RddiApi

VARIABLES
  part,      \* the part that runs
  written,   \* bound: the target has written by itself
  profile,   \* which values messages have
  fine       \* whether reads and writes split messages

listPart == <<memVars, listVars, written>>
wirePart == <<wireVars, profile, fine>>
mcVars == <<part, listPart, wirePart, apiVars>>

Op(op, addr, acc, count, data) ==
  [op |-> op, addr |-> addr, acc |-> acc, count |-> count, data |-> data, mask |-> {1}]

Nothing == <<>>
SetMask  == Op("POLL_MASK", 0, 4, 0, Nothing)
SetValue == Op("POLL_VALUE", 0, 4, 0, <<9, 6, 7, 8>>)
Settings == {SetMask, SetValue}
CheckOps == {Op("CHECK_EQ", 0, 4, 0, Nothing), Op("CHECK_NE", 0, 4, 0, Nothing)}

\* What a client asks of a memory-mapped device: polls of two samples and one
\* in 64-bit units, a read of three bytes in 16-bit units.
MappedOps ==
  {Op("WRITE", 0, 4, 4, <<21, 22, 23, 24>>), Op("WRITE_RPT", 4, 2, 2, <<31, 32, 33, 34>>),
   Op("READ", 2, 2, 4, Nothing), Op("READ_RPT", 4, 4, 2, Nothing), Op("READ", 0, 2, 3, Nothing),
   Op("POLL_EQ", 4, 4, 2, Nothing), Op("POLL_NE", 4, 4, 2, Nothing), Op("POLL_EQ", 0, 8, 1, Nothing)}

\* What it may ask of a mem-ap and get: writes of words, aligned reads, polls
\* of one sample.
ApOps ==
  {Op("WRITE", 0, 4, 8, <<21, 22, 23, 24, 25, 26, 27, 28>>),
   Op("WRITE_RPT", 4, 4, 2, <<31, 32, 33, 34, 35, 36, 37, 38>>),
   Op("READ", 2, 2, 4, Nothing), Op("READ", 0, 1, 2, Nothing), Op("READ_RPT", 4, 4, 2, Nothing),
   Op("POLL_EQ", 4, 4, 1, Nothing), Op("POLL_NE", 4, 4, 0, Nothing)}

AccessOps ==
  CASE device = "mem-ap" -> ApOps
    [] device = "memory" -> MappedOps
    [] OTHER -> {Op("WRITE", 0, 4, 4, <<21, 22, 23, 24>>), Op("READ", 2, 2, 4, Nothing),
                 Op("POLL_EQ", 4, 4, 2, Nothing)}
AnyOps == AccessOps \cup CheckOps \cup Settings

UpTo(set, n) == UNION {[1 .. k -> set] : k \in 0 .. n}

\* Settings before, then any two operations; or three accesses.
Lists ==
  ({s \o t : s \in {Nothing, <<SetValue>>, <<SetMask, SetValue>>}, t \in UpTo(AnyOps, 2)}
     \cup [1 .. 3 -> {e \in AccessOps : e.addr = 4 /\ e.count = 2}]) \ {<<>>}

DirectOps == {e \in AccessOps : e.op \in {"READ", "READ_RPT", "WRITE", "WRITE_RPT"}}
  \cup {Op("WRITE", 0, 4, 8, Filled(<<41, 42, 43, 44>>, 4, 2)),
        Op("WRITE_RPT", 4, 4, 2, Filled(<<41, 42, 43, 44>>, 4, 2))}

-----------------------------------------------------------------------------
(* Messages: every command, alone and in front of others; numbers and      *)
(* lengths that are small, around one byte of a varint and around two.     *)

Profiles == {"small", "edge", "large"}

\* The value of the k-th field: all differ, and what counts others is 2.
ValueOf(p, f, k) ==
  LET Size(small, edge, large) == CASE p = "small" -> small [] p = "edge" -> edge [] p = "large" -> large
  IN  CASE f[1].name \in {"deviceCount", "count", "size"} /\ f[2] = 0 -> 2
        [] f[1].type = "varint" -> Size(k, 125 + k, 16381 + k)
        [] f[1].type = "uint32" -> Size(k, 65535 + k, 2 ^ 30 + k)
        [] f[1].type = "uint64" -> Size(<<k, 0>>, <<65535, k>>, <<2 ^ 30 + k, 2 ^ 30>>)
        [] f[1].type = "string" -> [j \in 1 .. Size(k, 126 + (k % 3), k % 2) |-> 60 + k]
        [] f[1].type = "data"   -> <<k, 255>>

Values(layout, p) ==
  LET units == At(layout.fields, 0) \o Entries(layout, IF layout.n = "" THEN 0 ELSE 2)
      keys  == {Key(units[k]) : k \in DOMAIN units}
  IN  [key \in keys |->
         LET k == CHOOSE k \in DOMAIN units : Key(units[k]) = key
         IN  ValueOf(p, units[k], k)]

\* They are values the fields can have.
ASSUME ProfilesAssumption ==
  \A p \in Profiles, m \in Commands :
    \A layout \in {ClientLayout[m].cmd, ServerLayout[m].rsp} : WellFormed(layout, Values(layout, p))

Followers == {"GET_CONFIG", "REG_READ", "MEM_POLL"}

Requests ==
  LET Asked(name) == [name |-> name, vals |-> Values(ClientLayout[name].cmd, profile)] IN
  IF fine THEN {<<Asked("TERM")>>, <<Asked("REG_READ"), Asked("GET_CONFIG")>>}
  ELSE (IF link = "tcp" THEN {<<Asked(m)>> : m \in Commands} ELSE {})
       \cup {<<Asked(m), Asked(n)>> : m \in Commands, n \in Followers}
       \cup {<<Asked("GET_CONFIG"), Asked("REG_READ"), Asked(m)>> : m \in Followers}

\* The reply to the command whose turn it is: success, or poll did not match.
Handle ==
  \E error \in {NONE, 771} :
    /\ Len(decoded) < Len(asked)
    /\ HandleCommand(error, IF error # NONE THEN NoValues
         ELSE Values(ServerLayout[asked[Len(decoded) + 1].name].rsp, profile))

Writes == IF fine THEN Grains \cup {Len(unsent)} ELSE {Len(unsent)}
Reads  == IF fine THEN Grains \cup {Wanted} ELSE {Wanted}

-----------------------------------------------------------------------------

ListInit ==
  /\ device \in (IF part = "list" THEN Devices ELSE {"none"})
  /\ memory = [a \in Addr |-> a + 1]
  /\ lastPoll \in (IF part = "list" THEN {NULL, <<9, 6>>, <<9, 6, 7, 8>>} ELSE {NULL})
  /\ poll = NULL
  /\ RddiMemApInit
  /\ written = FALSE

MCInit ==
  /\ part \in {"list", "wire", "api"}
  /\ ListInit
  /\ WireInit
  /\ part # "wire" => link = "tcp"
  /\ profile \in (IF part = "wire" THEN Profiles ELSE {"small"})
  /\ fine \in (IF part = "wire" THEN BOOLEAN ELSE {FALSE})
  /\ fine => link = "tcp"
  /\ fine \/ link = "usb" => profile = "small"
  /\ ApiInit
  /\ part # "api" => lib = "mem_ap"

ListNext == RddiMemApNext(Lists, DirectOps)

\* The target writes to its memory while the server has a request.
TargetNext ==
  /\ serving /\ ~written
  /\ TargetWrites(4, 9)
  /\ written' = TRUE
  /\ UNCHANGED listVars

WireNext ==
  \/ \E request \in Requests, m \in (IF profile = "small" THEN BatchModes ELSE {0, 2}) :
       ClientSends(request, m)
  \/ \E n \in Writes : WriteSome(n)
  \/ Travelling /\ \E n \in Reads \ {0} : ReadSome(n)
  \/ ReceiveTransfer \/ PeerCloses \/ EndOfFile
  \/ ServerReads \/ Handle \/ ServerReplies \/ ClientReads \/ ProcessResponse

InList(A) == part = "list" /\ A /\ UNCHANGED <<part, wirePart, apiVars>>
InWire(A) == part = "wire" /\ A /\ UNCHANGED <<part, listPart, profile, fine, apiVars>>
InApi(A)  == part = "api" /\ A /\ UNCHANGED <<part, listPart, wirePart>>

MCNext ==
  \/ InList(ListNext /\ UNCHANGED written)
  \/ InList(TargetNext)
  \/ InWire(WireNext)
  \/ InApi(ApiNext /\ (lib = "streaming" => Cardinality(DOMAIN envs') <= 2))

MCSpec == MCInit /\ [][MCNext]_mcVars
  /\ WF_mcVars(InList((QueueNext \/ BatchEnd) /\ UNCHANGED written))
  /\ WF_mcVars(InList((RunCommand \/ Reply) /\ UNCHANGED written))

-----------------------------------------------------------------------------

\* A call returns, even from a poll that nothing satisfies.
ListReturns == phase # "idle" ~> phase = "returned"
=============================================================================
