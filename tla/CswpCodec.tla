----------------------------- MODULE CswpCodec ------------------------------
(***************************************************************************)
(* The CSWP encoding: how cswp_buffer.c puts and gets a field, and in what *)
(* order the client (cswp_client_commands.c, cswp_client.c) and the server *)
(* (cswp_server_commands.c, cswp_server_cmdint.c) put and get the fields   *)
(* of each command and each reply.  The two sides are written separately,  *)
(* so each has tables of its own here.                                     *)
(*                                                                         *)
(* A buffer is a sequence of bytes and has room; CswpBatch is about full   *)
(* ones.  Strings are sequences of bytes, 64-bit numbers a pair of numbers *)
(* below 2^32.  The values of a message are a function from <<name, i>>,   *)
(* i being 0 but in a list.                                                *)
(***************************************************************************)
EXTENDS Naturals, Sequences, SequencesExt

-----------------------------------------------------------------------------
(* Numbers, strings and data in a buffer *)

\* cswp_buffer_put_varint: seven bits to a byte, the eighth says more follow.
VarintBytes[n \in Nat] ==
  IF n > 127 THEN <<128 + (n % 128)>> \o VarintBytes[n \div 128] ELSE <<n>>

\* Low byte first.
PutUint32(n) ==
  <<n % 256, (n \div 256) % 256, (n \div 65536) % 256, (n \div 16777216) % 256>>
PutUint64(pair) == PutUint32(pair[1]) \o PutUint32(pair[2])
PutString(s) == VarintBytes[Len(s)] \o s

Got(val, pos) == [ok |-> TRUE, val |-> val, pos |-> pos]
Empty(pos)    == [ok |-> FALSE, val |-> 0, pos |-> pos]
Holds(buf, pos, n) == pos + n - 1 <= Len(buf)

\* Slip: a byte of exactly 128 is taken for the last one.
ContinuesAbove(b) == b > 128

\* The byte is not the last of its varint.
Continues(b) == b >= 128

\* cswp_buffer_get_varint.
GetVarint(buf, pos) ==
  LET last == {p \in pos .. Len(buf) : ~Continues(buf[p])} IN
  IF last = {} THEN Empty(pos)
  ELSE LET end == Min(last)
           value[p \in pos .. end] ==
             (buf[p] % 128) + (IF p = end THEN 0 ELSE 128 * value[p + 1])
       IN  Got(value[pos], end + 1)

FromLowFirst(buf, pos) ==
  buf[pos] + 256 * buf[pos + 1] + 65536 * buf[pos + 2] + 16777216 * buf[pos + 3]

GetUint8(buf, pos) == IF Holds(buf, pos, 1) THEN Got(buf[pos], pos + 1) ELSE Empty(pos)

GetUint32(buf, pos) ==
  IF Holds(buf, pos, 4) THEN Got(FromLowFirst(buf, pos), pos + 4) ELSE Empty(pos)

GetUint64(buf, pos) ==
  IF Holds(buf, pos, 8)
  THEN Got(<<FromLowFirst(buf, pos), FromLowFirst(buf, pos + 4)>>, pos + 8)
  ELSE Empty(pos)

\* cswp_buffer_get_data and cswp_buffer_get_direct.
GetData(buf, pos, n) ==
  IF Holds(buf, pos, n) THEN Got(SubSeq(buf, pos, pos + n - 1), pos + n) ELSE Empty(pos)

\* cswp_buffer_get_string, with room for it at the caller.
GetString(buf, pos) ==
  LET len == GetVarint(buf, pos) IN
  IF len.ok THEN GetData(buf, len.pos, len.val) ELSE len

-----------------------------------------------------------------------------
(* Layouts *)

Field(type, name) == [type |-> type, name |-> name, n |-> ""]
V(name) == Field("varint", name)
U32(name) == Field("uint32", name)
U64(name) == Field("uint64", name)
S(name) == Field("string", name)
\* data of as many bytes as the field n says
D(name, n) == [Field("data", name) EXCEPT !.n = n]

\* A message is fields and then a list of as many entries as the field n says.
Listed(fields, n, of) == [fields |-> fields, n |-> n, of |-> of]
Fields(fields) == Listed(fields, "", <<>>)

NoFields == Fields(<<>>)

Layout(cmd, rsp) == [cmd |-> cmd, rsp |-> rsp]

\* f, and g where f has no value.
Joined(f, g) == [x \in DOMAIN f \cup DOMAIN g |-> IF x \in DOMAIN f THEN f[x] ELSE g[x]]

Bare == Layout(NoFields, NoFields)

RegInfo == <<V("id"), S("name"), V("size"), S("displayName"), S("description")>>

\* What the client puts in a command and gets from a successful reply.
ClientSession == [
  INIT        |-> Layout(Fields(<<V("clientProtocolVersion"), S("clientID")>>),
                         Fields(<<V("serverProtocolVersion"), S("serverID"), V("serverVersion")>>)),
  TERM        |-> Bare,
  CLIENT_INFO |-> Layout(Fields(<<S("message")>>), NoFields),
  SET_DEVICES |-> Layout(Listed(<<V("deviceCount")>>, "deviceCount", <<S("device"), S("type")>>),
                         NoFields),
  GET_DEVICES |-> Layout(NoFields,
                         Listed(<<V("deviceCount")>>, "deviceCount", <<S("device"), S("type")>>)),
  GET_SYSTEM_DESCRIPTION |->
    Layout(NoFields, Fields(<<V("format"), V("size"), D("data", "size")>>))]

ClientDevice == [
  DEVICE_OPEN  |-> Layout(Fields(<<V("deviceNo")>>), Fields(<<S("deviceInfo")>>)),
  DEVICE_CLOSE |-> Layout(Fields(<<V("deviceNo")>>), NoFields),
  SET_CONFIG   |-> Layout(Fields(<<V("deviceNo"), S("name"), S("value")>>), NoFields),
  GET_CONFIG   |-> Layout(Fields(<<V("deviceNo"), S("name")>>), Fields(<<S("value")>>)),
  GET_DEVICE_CAPABILITIES |->
    Layout(Fields(<<V("deviceNo")>>), Fields(<<V("capabilities"), V("capabilitiesData")>>))]

ClientRegister == [
  REG_LIST  |-> Layout(Fields(<<V("deviceNo")>>), Listed(<<V("count")>>, "count", RegInfo)),
  REG_READ  |-> Layout(Listed(<<V("deviceNo"), V("count")>>, "count", <<V("id")>>),
                       Listed(<<V("count")>>, "count", <<U32("value")>>)),
  REG_WRITE |-> Layout(Listed(<<V("deviceNo"), V("count")>>, "count", <<V("id"), U32("value")>>),
                       NoFields)]

ClientMemory == [
  MEM_READ  |-> Layout(Fields(<<V("deviceNo"), U64("address"), V("size"), V("accessSize"),
                                V("flags")>>),
                       Fields(<<V("size"), D("data", "size")>>)),
  MEM_WRITE |-> Layout(Fields(<<V("deviceNo"), U64("address"), V("size"), V("accessSize"),
                                V("flags"), D("data", "size")>>),
                       NoFields),
  MEM_POLL  |-> Layout(Fields(<<V("deviceNo"), U64("address"), V("size"), V("accessSize"),
                                V("flags"), V("tries"), V("interval"), D("mask", "size"),
                                D("value", "size")>>),
                       Fields(<<V("size"), D("data", "size")>>))]

ClientLayout == Joined(Joined(ClientSession, ClientDevice), Joined(ClientRegister, ClientMemory))

\* What the server gets from a command and puts in a successful reply.
ServerSession == [
  INIT        |-> Layout(Fields(<<V("clientProtocolVersion"), S("clientID")>>),
                         Fields(<<V("serverProtocolVersion"), S("serverID"), V("serverVersion")>>)),
  TERM        |-> Bare,
  CLIENT_INFO |-> Layout(Fields(<<S("message")>>), NoFields),
  SET_DEVICES |-> Layout(Listed(<<V("deviceCount")>>, "deviceCount", <<S("device"), S("type")>>),
                         NoFields),
  GET_DEVICES |-> Layout(NoFields,
                         Listed(<<V("deviceCount")>>, "deviceCount", <<S("device"), S("type")>>)),
  GET_SYSTEM_DESCRIPTION |->
    Layout(NoFields, Fields(<<V("format"), V("size"), D("data", "size")>>))]

ServerDevice == [
  DEVICE_OPEN  |-> Layout(Fields(<<V("deviceNo")>>), Fields(<<S("deviceInfo")>>)),
  DEVICE_CLOSE |-> Layout(Fields(<<V("deviceNo")>>), NoFields),
  SET_CONFIG   |-> Layout(Fields(<<V("deviceNo"), S("name"), S("value")>>), NoFields),
  GET_CONFIG   |-> Layout(Fields(<<V("deviceNo"), S("name")>>), Fields(<<S("value")>>)),
  GET_DEVICE_CAPABILITIES |->
    Layout(Fields(<<V("deviceNo")>>), Fields(<<V("capabilities"), V("capabilitiesData")>>))]

\* One entry of a register list, cswp_encode_reg_info.
ServerRegInfo == <<V("id"), S("name"), V("size"), S("displayName"), S("description")>>

ServerRegister == [
  REG_LIST  |-> Layout(Fields(<<V("deviceNo")>>), Listed(<<V("count")>>, "count", ServerRegInfo)),
  REG_READ  |-> Layout(Listed(<<V("deviceNo"), V("count")>>, "count", <<V("id")>>),
                       Listed(<<V("count")>>, "count", <<U32("value")>>)),
  REG_WRITE |-> Layout(Listed(<<V("deviceNo"), V("count")>>, "count", <<V("id"), U32("value")>>),
                       NoFields)]

ServerMemory == [
  MEM_READ  |-> Layout(Fields(<<V("deviceNo"), U64("address"), V("size"), V("accessSize"),
                                V("flags")>>),
                       Fields(<<V("size"), D("data", "size")>>)),
  MEM_WRITE |-> Layout(Fields(<<V("deviceNo"), U64("address"), V("size"), V("accessSize"),
                                V("flags"), D("data", "size")>>),
                       NoFields),
  MEM_POLL  |-> Layout(Fields(<<V("deviceNo"), U64("address"), V("size"), V("accessSize"),
                                V("flags"), V("tries"), V("interval"), D("mask", "size"),
                                D("value", "size")>>),
                       Fields(<<V("size"), D("data", "size")>>))]

ServerLayout == Joined(Joined(ServerSession, ServerDevice), Joined(ServerRegister, ServerMemory))

\* cswp_commands_t.
Codes ==
  [INIT |-> 1, TERM |-> 2, CLIENT_INFO |-> 5, SET_DEVICES |-> 16, GET_DEVICES |-> 17,
   GET_SYSTEM_DESCRIPTION |-> 18, DEVICE_OPEN |-> 256, DEVICE_CLOSE |-> 257,
   SET_CONFIG |-> 258, GET_CONFIG |-> 259, GET_DEVICE_CAPABILITIES |-> 260,
   REG_LIST |-> 512, REG_READ |-> 513, REG_WRITE |-> 514,
   MEM_READ |-> 768, MEM_WRITE |-> 769, MEM_POLL |-> 770]

Commands == DOMAIN Codes
CommandOf(code) ==
  IF \E m \in Commands : Codes[m] = code THEN CHOOSE m \in Commands : Codes[m] = code ELSE "NONE"

-----------------------------------------------------------------------------
(* Encoding and decoding along a layout *)

PutField(type, val) ==
  CASE type = "varint" -> VarintBytes[val]
    [] type = "uint32" -> PutUint32(val)
    [] type = "uint64" -> PutUint64(val)
    [] type = "string" -> PutString(val)
    [] type = "data"   -> val

GetField(f, buf, pos, vals) ==
  CASE f.type = "varint" -> GetVarint(buf, pos)
    [] f.type = "uint32" -> GetUint32(buf, pos)
    [] f.type = "uint64" -> GetUint64(buf, pos)
    [] f.type = "string" -> GetString(buf, pos)
    [] f.type = "data"   -> GetData(buf, pos, vals[<<f.n, 0>>])

\* A unit is a field of the message, or one of the i-th entry of its list.
At(fields, i) == [k \in DOMAIN fields |-> <<fields[k], i>>]
Entries(layout, count) == FlattenSeq([i \in 1 .. count |-> At(layout.of, i)])
Key(unit) == <<unit[1].name, unit[2]>>
Keys(units) == {Key(units[k]) : k \in DOMAIN units}

CountOf(layout, vals) == IF layout.n = "" THEN 0 ELSE vals[<<layout.n, 0>>]

PutUnits(units, vals) ==
  FlattenSeq([k \in DOMAIN units |-> PutField(units[k][1].type, vals[Key(units[k])])])

\* The bytes of a message with values vals.
Encode(layout, vals) ==
  PutUnits(At(layout.fields, 0), vals)
    \o PutUnits(Entries(layout, CountOf(layout, vals)), vals)

\* The values decoded so far and where that ended; it stops at a field that fails.
Decoded(ok, vals, pos) == [ok |-> ok, vals |-> vals, pos |-> pos]

GetUnit(unit, buf, sofar) ==
  LET field == GetField(unit[1], buf, sofar.pos, sofar.vals)
  IN  IF ~sofar.ok THEN sofar
      ELSE IF field.ok
           THEN Decoded(TRUE, Joined(sofar.vals, [key \in {Key(unit)} |-> field.val]), field.pos)
           ELSE Decoded(FALSE, sofar.vals, field.pos)

GetUnits(units, buf, start) ==
  LET after[k \in 0 .. Len(units)] ==
        IF k = 0 THEN start ELSE GetUnit(units[k], buf, after[k - 1])
  IN  after[Len(units)]

NoValues == [key \in {} |-> 0]

Decode(layout, buf, pos) ==
  LET head == GetUnits(At(layout.fields, 0), buf, Decoded(TRUE, NoValues, pos))
  IN  IF head.ok THEN GetUnits(Entries(layout, CountOf(layout, head.vals)), buf, head)
      ELSE head

-----------------------------------------------------------------------------
(* The values messages have *)

\* The digits of a varint are shifted as ints, so it is below 2^31.
VarintMax == 2147483647
Byte == 0 .. 255
Uint32(n) == n \in Nat /\ n \div 65536 < 65536

IsValue(field, val, vals) ==
  /\ field.type = "varint" => val \in 0 .. VarintMax
  /\ field.type = "uint32" => Uint32(val)
  /\ field.type = "uint64" => val = <<val[1], val[2]>> /\ Uint32(val[1]) /\ Uint32(val[2])
  /\ field.type = "string" => val \in Seq(Byte) /\ Len(val) <= VarintMax
  /\ field.type = "data" => val \in Seq(Byte) /\ Len(val) = vals[<<field.n, 0>>]

\* vals has a value for each unit of the message, and no other.
WellFormed(layout, vals) ==
  LET head == At(layout.fields, 0)
      list == Entries(layout, CountOf(layout, vals))
  IN  /\ vals = Restrict(vals, Keys(head) \cup Keys(list))
      /\ \A k \in DOMAIN head : IsValue(head[k][1], vals[Key(head[k])], vals)
      /\ \A k \in DOMAIN list : IsValue(list[k][1], vals[Key(list[k])], vals)
=============================================================================
