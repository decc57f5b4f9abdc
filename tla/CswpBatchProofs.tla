-------------------------- MODULE CswpBatchProofs ---------------------------
(***************************************************************************)
(* Proofs about CswpBatch, for every number of commands and every size of  *)
(* the two buffers.                                                        *)
(***************************************************************************)
EXTENDS CswpBatch, SequenceTheorems, TLAPS

-----------------------------------------------------------------------------
(* The parts of the buffers *)

CommandPart == [op : Nat \ {0}, kind : Kinds, part : {"head", "body", "ids"}]

ReplyPart ==
  [op : Int, kind : Kinds \cup {"none"},
   part : {"ok", "value", "data", "error", "cancelled"}]

TypeInv ==
  /\ TypeOK
  /\ cmd \in Seq(CommandPart)
  /\ rsp \in Seq(ReplyPart)
  /\ phase \in {"sent", "replied"} => Len(ran) <= request.num

\* What the buffers are made of, kind by kind.
LEMMA CommandPartsAre ==
  ASSUME NEW kind \in Kinds
  PROVE  /\ CommandParts(kind) \in Seq({"head", "body", "ids"})
         /\ Len(CommandParts(kind)) \in 2 .. 3
         /\ CommandParts(kind)[1] = "head"
         /\ \A i \in 2 .. Len(CommandParts(kind)) : CommandParts(kind)[i] # "head"
<1>1. CASE kind = "regs"
  BY <1>1 DEF CommandParts
<1>2. CASE kind # "regs"
  BY <1>2 DEF CommandParts
<1> QED
  BY <1>1, <1>2

LEMMA ReplyPartsAre ==
  ASSUME NEW kind \in Kinds
  PROVE  /\ ReplyParts(kind) \in Seq({"ok", "value", "data"})
         /\ Len(ReplyParts(kind)) =
              CASE kind = "plain" -> 1 [] kind = "regs" -> 2 [] kind = "data" -> 3
         /\ Len(ReplyParts(kind)) \in 1 .. 3
         /\ ReplyParts(kind)[1] = "ok"
         /\ \A i \in 2 .. Len(ReplyParts(kind)) : ReplyParts(kind)[i] # "ok"
<1>1. CASE kind = "plain"
  BY <1>1 DEF ReplyParts
<1>2. CASE kind = "regs"
  BY <1>2 DEF ReplyParts
<1>3. CASE kind = "data"
  BY <1>3 DEF ReplyParts
<1> QED
  BY <1>1, <1>2, <1>3 DEF Kinds

\* A command as it is queued.
LEMMA QueuedIs ==
  ASSUME NEW op \in Nat \ {0}, NEW kind \in Kinds
  PROVE  LET parts == Tagged(op, kind, CommandParts(kind))
         IN  /\ parts \in Seq(CommandPart)
             /\ Len(parts) = Len(CommandParts(kind)) /\ Len(parts) \in 2 .. 3
             /\ parts[1].part = "head"
             /\ \A i \in 2 .. Len(parts) : parts[i].part # "head"
             /\ \A i \in 1 .. Len(parts) : parts[i].op = op /\ parts[i].kind = kind
<1> DEFINE kinds == CommandParts(kind)
           n     == Len(kinds)
           parts == Tagged(op, kind, kinds)
<1>1. /\ kinds \in Seq({"head", "body", "ids"}) /\ n \in 2 .. 3
      /\ kinds[1] = "head" /\ \A i \in 2 .. n : kinds[i] # "head"
  BY CommandPartsAre
<1> HIDE DEF kinds
<1>2. \A i \in 1 .. n : kinds[i] \in {"head", "body", "ids"}
  BY <1>1
<1>3. parts = [i \in 1 .. n |-> [op |-> op, kind |-> kind, part |-> kinds[i]]]
  BY <1>1 DEF Tagged
<1>4. \A i \in 1 .. n : [op |-> op, kind |-> kind, part |-> kinds[i]] \in CommandPart
  BY <1>2 DEF CommandPart
<1> HIDE DEF parts
<1>5. parts \in Seq(CommandPart) /\ Len(parts) = n
  BY <1>1, <1>3, <1>4
<1>6. \A i \in 1 .. n : parts[i].op = op /\ parts[i].kind = kind /\ parts[i].part = kinds[i]
  BY <1>3
<1> QED
  BY <1>1, <1>5, <1>6 DEF parts, kinds

\* A reply as it is put into the response buffer.
LEMMA ReplyIs ==
  ASSUME NEW op \in Int, NEW kind \in Kinds
  PROVE  LET parts == Tagged(op, kind, ReplyParts(kind))
         IN  /\ parts \in Seq(ReplyPart)
             /\ Len(parts) = Len(ReplyParts(kind)) /\ Len(parts) \in 1 .. 3
             /\ parts[1].part = "ok"
             /\ \A i \in 2 .. Len(parts) : parts[i].part # "ok"
             /\ \A i \in 1 .. Len(parts) : parts[i].op = op /\ parts[i].kind = kind
<1> DEFINE kinds == ReplyParts(kind)
           n     == Len(kinds)
           parts == Tagged(op, kind, kinds)
<1>1. /\ kinds \in Seq({"ok", "value", "data"}) /\ n \in 1 .. 3
      /\ kinds[1] = "ok" /\ \A i \in 2 .. n : kinds[i] # "ok"
  BY ReplyPartsAre
<1> HIDE DEF kinds
<1>2. \A i \in 1 .. n : kinds[i] \in {"ok", "value", "data"}
  BY <1>1
<1>3. parts = [i \in 1 .. n |-> [op |-> op, kind |-> kind, part |-> kinds[i]]]
  BY <1>1 DEF Tagged
<1>4. \A i \in 1 .. n : [op |-> op, kind |-> kind, part |-> kinds[i]] \in ReplyPart
  BY <1>2 DEF ReplyPart
<1> HIDE DEF parts
<1>5. parts \in Seq(ReplyPart) /\ Len(parts) = n
  BY <1>1, <1>3, <1>4
<1>6. \A i \in 1 .. n : parts[i].op = op /\ parts[i].kind = kind /\ parts[i].part = kinds[i]
  BY <1>3
<1> QED
  BY <1>1, <1>5, <1>6 DEF parts, kinds

LEMMA ErrorIs ==
  ASSUME NEW op \in Int, NEW kind \in Kinds
  PROVE  LET parts == Tagged(op, kind, <<"error">>)
         IN  /\ parts \in Seq(ReplyPart) /\ Len(parts) = 1
             /\ parts[1].op = op /\ parts[1].part = "error"
BY DEF Tagged, ReplyPart

-----------------------------------------------------------------------------
(* Putting a reply *)

\* new is buf and, behind it, parts of the reply to command op.
Extends(new, buf, op) ==
  /\ new \in Seq(ReplyPart)
  /\ Len(buf) <= Len(new) /\ Len(new) <= RspCap
  /\ \A i \in 1 .. Len(buf) : new[i] = buf[i]
  /\ \A i \in Len(buf) + 1 .. Len(new) : new[i].op = op

LEMMA ExtendsTwice ==
  ASSUME NEW op, NEW a \in Seq(ReplyPart), NEW b, NEW c, Extends(b, a, op), Extends(c, b, op)
  PROVE  Extends(c, a, op)
<1>1. /\ c \in Seq(ReplyPart) /\ Len(c) \in Nat /\ Len(b) \in Nat /\ Len(a) \in Nat
      /\ Len(a) <= Len(b) /\ Len(b) <= Len(c) /\ Len(c) <= RspCap
  BY DEF Extends
<1>2. ASSUME NEW i \in 1 .. Len(a)
      PROVE  c[i] = a[i]
  <2>1. i \in 1 .. Len(b)
    BY <1>1
  <2> QED
    BY <2>1 DEF Extends
<1>3. ASSUME NEW i \in Len(a) + 1 .. Len(c)
      PROVE  c[i].op = op
  <2>1. CASE i <= Len(b)
    <3>1. i \in 1 .. Len(b) /\ i \in Len(a) + 1 .. Len(b)
      BY <1>1, <2>1
    <3> QED
      BY <3>1 DEF Extends
  <2>2. CASE ~(i <= Len(b))
    <3>1. i \in Len(b) + 1 .. Len(c)
      BY <1>1, <2>2
    <3> QED
      BY <3>1 DEF Extends
  <2> QED
    BY <2>1, <2>2
<1> QED
  BY <1>1, <1>2, <1>3 DEF Extends

LEMMA ReplyPutWhole ==
  ASSUME NEW op \in Int, NEW kind \in Kinds, NEW buf \in Seq(ReplyPart),
         Len(buf) + Len(ReplyParts(kind)) <= RspCap
  PROVE  LET new == buf \o Tagged(op, kind, ReplyParts(kind))
         IN  /\ Extends(new, buf, op)
             /\ Len(new) = Len(buf) + Len(ReplyParts(kind))
             /\ new[Len(buf) + 1].part = "ok" /\ new[Len(buf) + 1].kind = kind
             /\ \A i \in Len(buf) + 2 .. Len(new) : new[i].part # "ok"
<1> DEFINE parts == Tagged(op, kind, ReplyParts(kind))
           new   == buf \o parts
<1>1. /\ parts \in Seq(ReplyPart)
      /\ Len(parts) = Len(ReplyParts(kind)) /\ Len(parts) \in 1 .. 3
      /\ parts[1].part = "ok"
      /\ \A i \in 2 .. Len(parts) : parts[i].part # "ok"
      /\ \A i \in 1 .. Len(parts) : parts[i].op = op /\ parts[i].kind = kind
  BY ReplyIs
<1> HIDE DEF parts
<1>2. /\ new \in Seq(ReplyPart) /\ Len(new) = Len(buf) + Len(parts)
      /\ \A i \in 1 .. Len(buf) + Len(parts) :
           new[i] = IF i <= Len(buf) THEN buf[i] ELSE parts[i - Len(buf)]
  BY <1>1, ConcatProperties
<1> HIDE DEF new
<1>3. Extends(new, buf, op)
  <2>1. /\ Len(buf) \in Nat /\ Len(buf) <= Len(new) /\ Len(new) <= RspCap
        /\ \A i \in 1 .. Len(buf) : new[i] = buf[i]
    BY <1>1, <1>2
  <2>2. ASSUME NEW i \in Len(buf) + 1 .. Len(new)
        PROVE  new[i].op = op
    <3>1. i - Len(buf) \in 1 .. Len(parts) /\ i \in 1 .. Len(buf) + Len(parts) /\ ~(i <= Len(buf))
      BY <1>1, <1>2, <2>1
    <3>2. new[i] = parts[i - Len(buf)]
      BY <1>2, <3>1
    <3> QED
      BY <1>1, <3>1, <3>2
  <2> QED
    BY <1>2, <2>1, <2>2 DEF Extends
<1>4. new[Len(buf) + 1] = parts[1]
  <2>1. Len(buf) \in Nat /\ Len(buf) + 1 \in 1 .. Len(buf) + Len(parts)
    BY <1>1
  <2>2. new[Len(buf) + 1] = parts[Len(buf) + 1 - Len(buf)]
    BY <1>2, <2>1
  <2> QED
    BY <2>1, <2>2
<1>5. ASSUME NEW i \in Len(buf) + 2 .. Len(new)
      PROVE  new[i].part # "ok"
  <2>1. new[i] = parts[i - Len(buf)] /\ i - Len(buf) \in 2 .. Len(parts)
    BY <1>1, <1>2
  <2> QED
    BY <1>1, <2>1
<1> QED
  BY <1>1, <1>2, <1>3, <1>4, <1>5 DEF new, parts

LEMMA ErrorPut ==
  ASSUME NEW op \in Int, NEW kind \in Kinds, NEW buf \in Seq(ReplyPart), Len(buf) <= RspCap
  PROVE  LET new == WithError(buf, op, kind)
         IN  /\ Extends(new, buf, op)
             /\ Len(new) = IF Len(buf) < RspCap THEN Len(buf) + 1 ELSE Len(buf)
             /\ Len(buf) < RspCap => new[Len(buf) + 1].part = "error"
<1> DEFINE parts == Tagged(op, kind, <<"error">>)
<1>1. /\ parts \in Seq(ReplyPart) /\ Len(parts) = 1
      /\ parts[1].op = op /\ parts[1].part = "error"
  BY ErrorIs
<1> HIDE DEF parts
<1>2. CASE Len(buf) < RspCap
  <2> DEFINE new == buf \o parts
  <2>1. /\ new \in Seq(ReplyPart) /\ Len(new) = Len(buf) + Len(parts)
        /\ \A i \in 1 .. Len(buf) + Len(parts) :
             new[i] = IF i <= Len(buf) THEN buf[i] ELSE parts[i - Len(buf)]
    BY <1>1, ConcatProperties
  <2> HIDE DEF new
  <2>2. Extends(new, buf, op) /\ Len(new) = Len(buf) + 1 /\ new[Len(buf) + 1].part = "error"
    BY <1>1, <1>2, <2>1, BatchAssumption DEF Extends
  <2>3. WithError(buf, op, kind) = new
    BY <1>2 DEF WithError, new, parts
  <2> QED
    BY <1>2, <2>2, <2>3
<1>3. CASE ~(Len(buf) < RspCap)
  <2>1. WithError(buf, op, kind) = buf
    BY <1>3 DEF WithError
  <2> QED
    BY <1>3, <2>1 DEF Extends
<1> QED
  BY <1>2, <1>3

\* What the client finds where the replies of the commands that succeeded end:
\* nothing, an error, or a success reply without all of its body.
NoReply(buf, p) ==
  \/ p > Len(buf)
  \/ buf[p].part \in {"error", "cancelled"}
  \/ buf[p].part = "ok" /\ buf[p].kind = "regs" /\ p = RspCap
  \/ buf[p].part = "ok" /\ buf[p].kind = "data" /\ (p = Len(buf) \/ buf[p + 1].part # "data")

\* A reply that does not fit: at most its success header is left, and a header
\* of a register read only as the last part there was room for.
LEMMA ReplyCut ==
  ASSUME NEW op \in Int, NEW kind \in Kinds, NEW buf \in Seq(ReplyPart), Len(buf) <= RspCap,
         Len(buf) + Len(ReplyParts(kind)) > RspCap
  PROVE  LET new == Cut(buf, op, kind)
         IN  /\ Extends(new, buf, op)
             /\ Len(buf) = RspCap => new = buf
             /\ Len(buf) < RspCap =>
                  /\ Len(new) = Len(buf) + 1 /\ new[Len(buf) + 1].part = "ok"
                  /\ new[Len(buf) + 1].kind = kind /\ kind # "plain"
                  /\ kind = "regs" => Len(new) = RspCap
<1> DEFINE whole == Tagged(op, kind, ReplyParts(kind))
           room  == RspCap - Len(buf)
           n     == IF kind = "data" THEN AtMost(1, room) ELSE room
           m     == AtMost(n, Len(whole))
           put   == SubSeq(whole, 1, m)
           new   == buf \o put
<1>1. /\ whole \in Seq(ReplyPart)
      /\ Len(whole) = Len(ReplyParts(kind)) /\ Len(whole) \in 1 .. 3
      /\ whole[1].part = "ok"
      /\ \A i \in 1 .. Len(whole) : whole[i].op = op /\ whole[i].kind = kind
  BY ReplyIs
<1>2. Len(whole) = CASE kind = "plain" -> 1 [] kind = "regs" -> 2 [] kind = "data" -> 3
  BY <1>1, ReplyPartsAre
<1> HIDE DEF whole
<1>3. /\ room \in Nat /\ m \in 0 .. 1 /\ (m = 0 <=> room = 0)
      /\ room > 0 => kind # "plain" /\ (kind = "regs" => room = 1)
  BY <1>1, <1>2, BatchAssumption DEF Kinds, AtMost
<1> HIDE DEF room, m
<1>4. put \in Seq(ReplyPart) /\ Len(put) = m /\ (m = 1 => put[1] = whole[1])
  <2>1. \A i \in 1 .. m : whole[i] \in ReplyPart
    BY <1>1, <1>3
  <2> QED
    BY <1>3, <2>1, SubSeqProperties
<1> HIDE DEF put
<1>5. /\ new \in Seq(ReplyPart) /\ Len(new) = Len(buf) + m
      /\ \A i \in 1 .. Len(buf) + m : new[i] = IF i <= Len(buf) THEN buf[i] ELSE put[i - Len(buf)]
  BY <1>4, ConcatProperties
<1>6. new = Cut(buf, op, kind)
  BY DEF Cut, whole, room, m, put
<1> HIDE DEF new
<1> SUFFICES /\ Extends(new, buf, op)
             /\ Len(buf) = RspCap => new = buf
             /\ Len(buf) < RspCap =>
                  /\ Len(new) = Len(buf) + 1 /\ new[Len(buf) + 1].part = "ok"
                  /\ new[Len(buf) + 1].kind = kind /\ kind # "plain"
                  /\ kind = "regs" => Len(new) = RspCap
  BY <1>6
<1>7. CASE room = 0
  <2>1. \A i \in 1 .. Len(buf) : new[i] = buf[i]
    BY <1>3, <1>5, <1>7
  <2>2. new = buf
    BY <1>3, <1>5, <1>7, <2>1, SeqEqual
  <2> QED
    <3>1. Len(buf) = RspCap
      BY <1>7, BatchAssumption DEF room
    <3>2. Extends(buf, buf, op)
      BY DEF Extends
    <3> QED
      BY <2>2, <3>1, <3>2
<1>8. CASE room > 0
  <2>1. m = 1 /\ Len(put) = 1 /\ new[Len(buf) + 1] = whole[1]
    BY <1>3, <1>4, <1>5, <1>8
  <2>2. Extends(new, buf, op)
    BY <1>1, <1>5, <1>8, <2>1, BatchAssumption DEF Extends, room
  <2>3. kind = "regs" => Len(new) = RspCap
    BY <1>3, <1>5, <1>8, <2>1, BatchAssumption DEF room
  <2> QED
    <3>1. Len(new) = Len(buf) + 1 /\ Len(buf) < RspCap
      BY <1>5, <1>8, <2>1, BatchAssumption DEF room
    <3>2. new[Len(buf) + 1].part = "ok" /\ new[Len(buf) + 1].kind = kind
      BY <1>1, <2>1
    <3> QED
      BY <1>3, <1>8, <2>2, <2>3, <3>1, <3>2
<1> QED
  BY <1>3, <1>7, <1>8

\* A failed command's reply, and a success reply that does not fit: neither
\* looks like a whole reply from where it begins.
LEMMA FailureReply ==
  ASSUME NEW op \in Int, NEW kind \in Kinds, NEW buf \in Seq(ReplyPart), Len(buf) <= RspCap
  PROVE  LET new == WithError(buf, op, kind)
         IN  Extends(new, buf, op) /\ NoReply(new, Len(buf) + 1)
<1> DEFINE new == WithError(buf, op, kind)
<1>1. /\ Extends(new, buf, op)
      /\ Len(new) = IF Len(buf) < RspCap THEN Len(buf) + 1 ELSE Len(buf)
      /\ Len(buf) < RspCap => new[Len(buf) + 1].part = "error"
  BY ErrorPut
<1> HIDE DEF new
<1> QED
  BY <1>1 DEF NoReply, new

LEMMA CutReply ==
  ASSUME NEW op \in Int, NEW kind \in Kinds, NEW buf \in Seq(ReplyPart), Len(buf) <= RspCap,
         Len(buf) + Len(ReplyParts(kind)) > RspCap
  PROVE  LET new == WithError(Cut(buf, op, kind), op, kind)
         IN  Extends(new, buf, op) /\ NoReply(new, Len(buf) + 1)
<1> DEFINE cut == Cut(buf, op, kind)
           new == WithError(cut, op, kind)
<1> SUFFICES Extends(new, buf, op) /\ NoReply(new, Len(buf) + 1)
  OBVIOUS
<1>1. /\ Extends(cut, buf, op)
      /\ Len(buf) = RspCap => cut = buf
      /\ Len(buf) < RspCap =>
           /\ Len(cut) = Len(buf) + 1 /\ cut[Len(buf) + 1].part = "ok"
           /\ cut[Len(buf) + 1].kind = kind /\ kind # "plain"
           /\ kind = "regs" => Len(cut) = RspCap
  BY ReplyCut
<1> HIDE DEF cut
<1>2. cut \in Seq(ReplyPart) /\ Len(cut) <= RspCap
  BY <1>1 DEF Extends
<1>3. /\ Extends(new, cut, op)
      /\ Len(new) = IF Len(cut) < RspCap THEN Len(cut) + 1 ELSE Len(cut)
      /\ Len(cut) < RspCap => new[Len(cut) + 1].part = "error"
  BY <1>2, ErrorPut
<1> HIDE DEF new
<1>4. Extends(new, buf, op)
  BY <1>1, <1>3, ExtendsTwice
<1>5. CASE Len(buf) = RspCap
  BY <1>1, <1>3, <1>5 DEF NoReply
<1>6. CASE Len(buf) < RspCap
  <2>1. new[Len(buf) + 1] = cut[Len(buf) + 1]
    BY <1>1, <1>2, <1>3, <1>6 DEF Extends
  <2>2. new[Len(buf) + 1].part = "ok" /\ new[Len(buf) + 1].kind = kind /\ kind \in {"regs", "data"}
    BY <1>1, <1>6, <2>1 DEF Kinds
  <2>3. CASE kind = "regs"
    BY <1>1, <1>2, <1>3, <1>4, <1>6, <2>2, <2>3 DEF NoReply
  <2>4. CASE kind = "data"
    BY <1>1, <1>2, <1>3, <1>4, <1>6, <2>2, <2>4, BatchAssumption DEF NoReply
  <2> QED
    BY <2>2, <2>3, <2>4
<1> QED
  BY <1>4, <1>5, <1>6, BatchAssumption

-----------------------------------------------------------------------------
(* The steps of the server *)

\* What a turn of the loop does, whatever it decodes.
Ran(op, kind, ok) ==
  /\ ran' = Append(ran, ok)
  /\ Extends(rsp', rsp, op)
  /\ pos' \in Nat \ {0}
  /\ IF ok
     THEN /\ pos' = pos + Len(CommandParts(kind))
          /\ Len(rsp') = Len(rsp) + Len(ReplyParts(kind))
          /\ rsp'[Len(rsp) + 1].part = "ok" /\ rsp'[Len(rsp) + 1].kind = kind
          /\ \A i \in Len(rsp) + 2 .. Len(rsp') : rsp'[i].part # "ok"
     ELSE NoReply(rsp', Len(rsp) + 1)

LEMMA SucceedsRuns ==
  ASSUME TypeInv, NEW op \in Int, NEW kind \in Kinds, Succeeds(op, kind)
  PROVE  \E ok \in BOOLEAN : Ran(op, kind, ok)
<1>1. rsp \in Seq(ReplyPart) /\ Len(rsp) <= RspCap /\ pos \in Nat \ {0}
  BY DEF TypeInv, TypeOK
<1>2. pos' = pos + Len(CommandParts(kind)) /\ pos' \in Nat \ {0}
  BY <1>1, CommandPartsAre DEF Succeeds
<1>3. CASE ReplyFits(kind)
  <2>1. rsp' = rsp \o Tagged(op, kind, ReplyParts(kind)) /\ ran' = Append(ran, TRUE)
    BY <1>3 DEF Succeeds
  <2>2. Len(rsp) + Len(ReplyParts(kind)) <= RspCap
    BY <1>3 DEF ReplyFits
  <2>3. /\ Extends(rsp', rsp, op)
        /\ Len(rsp') = Len(rsp) + Len(ReplyParts(kind))
        /\ rsp'[Len(rsp) + 1].part = "ok" /\ rsp'[Len(rsp) + 1].kind = kind
        /\ \A i \in Len(rsp) + 2 .. Len(rsp') : rsp'[i].part # "ok"
    <3> DEFINE new == rsp \o Tagged(op, kind, ReplyParts(kind))
    <3>1. /\ Extends(new, rsp, op)
          /\ Len(new) = Len(rsp) + Len(ReplyParts(kind))
          /\ new[Len(rsp) + 1].part = "ok" /\ new[Len(rsp) + 1].kind = kind
          /\ \A i \in Len(rsp) + 2 .. Len(new) : new[i].part # "ok"
      BY <1>1, <2>2, ReplyPutWhole
    <3> QED
      BY <2>1, <3>1
  <2>4. Ran(op, kind, TRUE)
    BY <1>2, <2>1, <2>3 DEF Ran
  <2> QED
    BY <2>4
<1>4. CASE ~ReplyFits(kind)
  <2>1. rsp' = WithError(Cut(rsp, op, kind), op, kind) /\ ran' = Append(ran, FALSE)
    BY <1>4 DEF Succeeds
  <2>2. Len(rsp) + Len(ReplyParts(kind)) > RspCap
    BY <1>1, <1>4, ReplyPartsAre, BatchAssumption DEF ReplyFits
  <2>3. Extends(rsp', rsp, op) /\ NoReply(rsp', Len(rsp) + 1)
    BY <1>1, <2>1, <2>2, CutReply
  <2>4. Ran(op, kind, FALSE)
    BY <1>2, <2>1, <2>3 DEF Ran
  <2> QED
    BY <2>4
<1> QED
  BY <1>3, <1>4

LEMMA FailsRuns ==
  ASSUME TypeInv, NEW op \in Int, NEW kind \in Kinds, Fails(op, kind)
  PROVE  Ran(op, kind, FALSE)
<1>1. rsp \in Seq(ReplyPart) /\ Len(rsp) <= RspCap /\ pos \in Nat \ {0}
  BY DEF TypeInv, TypeOK
<1>2. pos' \in Nat \ {0}
  BY <1>1, CommandPartsAre DEF Fails
<1>3. Extends(rsp', rsp, op) /\ NoReply(rsp', Len(rsp) + 1)
  BY <1>1, FailureReply DEF Fails
<1> QED
  BY <1>2, <1>3 DEF Fails, Ran

LEMMA CommandRuns ==
  ASSUME TypeInv, HandleCommand
  PROVE  \E op \in Nat \ {0}, kind \in Kinds, ok \in BOOLEAN :
           /\ Ran(op, kind, ok)
           /\ cmd[pos].part = "head" => op = cmd[pos].op /\ kind = cmd[pos].kind
<1>1. cmd[pos] \in CommandPart
  BY DEF HandleCommand, LoopGoesOn, TypeInv, TypeOK
<1>2. cmd[pos].op \in Nat \ {0} /\ cmd[pos].op \in Int /\ cmd[pos].kind \in Kinds
  BY <1>1 DEF CommandPart
<1>3. CASE cmd[pos].part = "head"
  <2>1. Succeeds(cmd[pos].op, cmd[pos].kind) \/ Fails(cmd[pos].op, cmd[pos].kind)
    BY <1>3 DEF HandleCommand
  <2>2. \E ok \in BOOLEAN : Ran(cmd[pos].op, cmd[pos].kind, ok)
    BY <1>2, <2>1, SucceedsRuns, FailsRuns
  <2> QED
    BY <1>2, <2>2
<1>4. CASE cmd[pos].part # "head"
  <2>1. PICK kind \in Kinds : Succeeds(cmd[pos].op, kind) \/ Fails(cmd[pos].op, kind)
    BY <1>4 DEF HandleCommand
  <2>2. \E ok \in BOOLEAN : Ran(cmd[pos].op, kind, ok)
    BY <1>2, <2>1, SucceedsRuns, FailsRuns
  <2> QED
    BY <1>2, <1>4, <2>2
<1> QED
  BY <1>3, <1>4

LEMMA CancelledIs ==
  ASSUME TypeInv, phase = "sent"
  PROVE  /\ Cancelled \in Seq(ReplyPart)
         /\ Len(rsp) + Len(Cancelled) <= RspCap
         /\ \A i \in 1 .. Len(Cancelled) : Cancelled[i].part = "cancelled"
<1> DEFINE n == AtMost(request.num - Len(ran) + 1, RspCap - Len(rsp))
<1>1. /\ n \in Nat /\ n <= RspCap - Len(rsp) /\ Len(ran) \in Nat /\ Len(rsp) \in Nat
      /\ Len(rsp) <= RspCap
  BY BatchAssumption DEF AtMost, TypeInv, TypeOK
<1>2. CASE Aborted
  <2> DEFINE part(i) == [op |-> Len(ran) + i - 1, kind |-> "none", part |-> "cancelled"]
  <2>1. Cancelled = [i \in 1 .. n |-> part(i)]
    BY <1>2 DEF Cancelled
  <2> HIDE DEF n
  <2>2. \A i \in 1 .. n : part(i) \in ReplyPart
    BY <1>1 DEF ReplyPart
  <2>3. Cancelled \in Seq(ReplyPart) /\ Len(Cancelled) = n
    <3> HIDE DEF part
    <3>1. Cancelled \in [1 .. n -> ReplyPart]
      BY <2>1, <2>2
    <3> QED
      BY <1>1, <3>1
  <2>4. \A i \in 1 .. n : Cancelled[i].part = "cancelled"
    BY <2>1
  <2> QED
    BY <1>1, <2>3, <2>4, BatchAssumption
<1>3. CASE ~Aborted
  <2>1. Cancelled = <<>>
    BY <1>3 DEF Cancelled
  <2> QED
    BY <1>1, <2>1
<1> QED
  BY <1>2, <1>3

-----------------------------------------------------------------------------
(* The request buffer *)

\* A queued command starts with its head, and the next one starts where it
\* ends; the last one ends with the buffer, as long as nothing was refused.
Heads == {i \in DOMAIN cmd : cmd[i].part = "head" /\ cmd[i].op <= Len(pending)}

EndOf(i) == i + Len(CommandParts(cmd[i].kind))

LaidOut ==
  /\ pending # <<>> => 1 \in Heads /\ cmd[1].op = 1
  /\ \A i \in Heads :
       /\ cmd[i].kind = pending[cmd[i].op]
       /\ cmd[i].op < Len(pending) => EndOf(i) \in Heads /\ cmd[EndOf(i)].op = cmd[i].op + 1

EndsWithBuffer ==
  phase = "collecting" /\ ~refused =>
    /\ \A i \in DOMAIN cmd : cmd[i].op <= Len(pending)
    /\ \A i \in Heads : cmd[i].op = Len(pending) => EndOf(i) = Len(cmd) + 1

\* Nothing runs behind a command that failed; the command that is next, if
\* none has failed, is where the server reads on.
InStep ==
  /\ phase = "collecting" => mode # "NONE"
  /\ phase \in {"sent", "replied"} =>
       /\ request.num = Len(pending) /\ pending # <<>>
       /\ request.errorMode = 0 => request.num = 1
       /\ \A i \in 1 .. Len(ran) - 1 : ran[i]
  /\ phase = "sent" /\ ~LastFailed /\ Len(ran) < request.num =>
       pos \in Heads /\ cmd[pos].op = Len(ran) + 1

BatchInv == LaidOut /\ EndsWithBuffer /\ InStep

-----------------------------------------------------------------------------
(* The response buffer *)

\* The commands that succeeded.
Good == IF LastFailed THEN Len(ran) - 1 ELSE Len(ran)

\* The reply to command c + 1 begins at p: where the reply to c ends.
ReplyAt(buf, c, p) ==
  \/ c = 0 /\ p = 1
  \/ \E i \in DOMAIN buf :
       buf[i].part = "ok" /\ buf[i].op = c /\ p = i + Len(ReplyParts(buf[i].kind))

WholeReply(buf, c, kind, p) ==
  /\ p \in DOMAIN buf
  /\ buf[p].part = "ok" /\ buf[p].op = c /\ buf[p].kind = kind
  /\ p + Len(ReplyParts(kind)) - 1 <= Len(buf)

RepliesInv ==
  /\ phase = "sent" =>
       /\ \A i \in DOMAIN rsp : rsp[i].op <= Len(ran)
       /\ ~LastFailed => \A p \in Nat \ {0} : ReplyAt(rsp, Good, p) => p = Len(rsp) + 1
  /\ phase \in {"sent", "replied"} =>
       /\ \A c \in 1 .. Good : \A p \in Nat \ {0} :
            ReplyAt(rsp, c - 1, p) => WholeReply(rsp, c, pending[c], p)
       /\ LastFailed => \A p \in Nat \ {0} : ReplyAt(rsp, Good, p) => NoReply(rsp, p)
  /\ phase = "replied" => LastFailed \/ Len(ran) = request.num

\* The client counts the replies it has decoded, and stops at the first command
\* that did not succeed.
DecodeInv ==
  /\ phase = "sent" => completed = 0 /\ rpos = 1 /\ result
  /\ phase = "replied" /\ ~ReadCut =>
       /\ completed <= Good
       /\ ReplyAt(rsp, completed, rpos)
       /\ ~result => completed = Good /\ LastFailed

-----------------------------------------------------------------------------
(* Types *)

\* Queueing a command: all of it, or what the buffer still holds of it.
LEMMA IssueTyped ==
  ASSUME TypeInv, NEW kind \in Kinds, Issue(kind)
  PROVE  /\ cmd' \in Seq(CommandPart) /\ Len(cmd') <= CmdCap
         /\ pending' \in Seq(Kinds) /\ Len(pending') <= MaxOps /\ refused' \in BOOLEAN
<1> DEFINE parts == Parts(kind)
<1>1. /\ pending \in Seq(Kinds) /\ Len(pending) < MaxOps /\ Len(pending) \in Nat
      /\ cmd \in Seq(CommandPart) /\ Len(cmd) <= CmdCap /\ refused \in BOOLEAN
  BY DEF Issue, TypeInv, TypeOK
<1>2. parts \in Seq(CommandPart) /\ Len(parts) = Len(CommandParts(kind))
  BY <1>1, QueuedIs DEF Parts
<1>3. CASE Fits(cmd, kind)
  <2>1. cmd' = cmd \o parts /\ pending' = Append(pending, kind) /\ UNCHANGED refused
    BY <1>3 DEF Issue
  <2> HIDE DEF parts
  <2>2. cmd' \in Seq(CommandPart) /\ Len(cmd') = Len(cmd) + Len(parts)
    BY <1>1, <1>2, <2>1, ConcatProperties
  <2>3. pending' \in Seq(Kinds) /\ Len(pending') = Len(pending) + 1
    BY <1>1, <2>1, AppendProperties
  <2> QED
    BY <1>1, <1>2, <1>3, <2>1, <2>2, <2>3, BatchAssumption DEF Fits
<1>4. CASE ~Fits(cmd, kind)
  <2> DEFINE room == CmdCap - Len(cmd)
             put  == SubSeq(parts, 1, room)
  <2>1. cmd' = cmd \o put /\ refused' = TRUE /\ UNCHANGED pending
    BY <1>4 DEF Issue
  <2>2. room \in Nat /\ room < Len(parts)
    BY <1>1, <1>2, <1>4, CommandPartsAre, BatchAssumption DEF Fits
  <2> HIDE DEF parts, room
  <2>3. put \in Seq(CommandPart) /\ Len(put) = room
    <3>1. \A i \in 1 .. room : parts[i] \in CommandPart
      BY <1>2, <2>2
    <3> QED
      BY <2>2, <3>1, SubSeqProperties
  <2> HIDE DEF put
  <2>4. cmd' \in Seq(CommandPart) /\ Len(cmd') = Len(cmd) + room
    BY <1>1, <2>1, <2>3, ConcatProperties
  <2> QED
    BY <1>1, <2>1, <2>4, BatchAssumption DEF room
<1> QED
  BY <1>3, <1>4

LEMMA TypeStep == TypeInv /\ [Next]_vars => TypeInv'
<1> SUFFICES ASSUME TypeInv, [Next]_vars PROVE TypeInv'
  OBVIOUS
<1> USE BatchAssumption
<1>1. ASSUME NEW abortOnError \in BOOLEAN, BatchBegin(abortOnError)
      PROVE  TypeInv'
  <2>1. /\ phase' = "collecting" /\ mode' \in Modes /\ refused' \in BOOLEAN
        /\ UNCHANGED <<completed, result, request, pos, ran, rsp, rpos>>
    BY <1>1 DEF BatchBegin, Modes, serverVars
  <2>2. cmd' \in Seq(CommandPart) /\ Len(cmd') = 0 /\ pending' \in Seq(Kinds) /\ Len(pending') = 0
    BY <1>1 DEF BatchBegin
  <2> QED
    BY <2>1, <2>2 DEF TypeInv, TypeOK
<1>2. ASSUME NEW m \in Modes, NEW kinds \in Seq(Kinds), Len(kinds) <= MaxOps, Transact(m, kinds)
      PROVE  /\ phase' \in {"idle", "collecting", "sent", "replied", "crashed"}
             /\ completed' \in 0 .. MaxOps /\ result' \in BOOLEAN
             /\ request' \in [num : 0 .. MaxOps, errorMode : 0 .. 2]
             /\ pos' \in Nat \ {0} /\ rpos' \in Nat \ {0}
             /\ ran' \in Seq(BOOLEAN) /\ Len(ran') <= MaxOps /\ Len(ran') <= request'.num
             /\ rsp' \in Seq(ReplyPart) /\ Len(rsp') <= RspCap
  <2>1. ErrorMode(m) \in 0 .. 2
    BY DEF ErrorMode, Modes
  <2>2. Len(kinds) \in 0 .. MaxOps
    BY <1>2
  <2> QED
    BY <1>2, <2>1, <2>2 DEF Transact
<1>3. ASSUME NEW kind \in Kinds, Single(kind)
      PROVE  TypeInv'
  <2>1. /\ cmd' \in Seq(CommandPart) /\ Len(cmd') = Len(CommandParts(kind))
    <3> DEFINE parts == Tagged(1, kind, CommandParts(kind))
    <3>1. parts \in Seq(CommandPart) /\ Len(parts) = Len(CommandParts(kind))
      BY QueuedIs
    <3> QED
      BY <1>3, <3>1 DEF Single
  <2>2. Len(cmd') <= CmdCap
    BY <1>3, <2>1, CommandPartsAre DEF Single, Fits
  <2>3. /\ pending' = <<kind>> /\ <<kind>> \in Seq(Kinds)
        /\ Len(<<kind>>) = 1 /\ Len(<<kind>>) <= MaxOps
    BY <1>3 DEF Single
  <2>4. /\ phase' \in {"idle", "collecting", "sent", "replied", "crashed"}
        /\ completed' \in 0 .. MaxOps /\ result' \in BOOLEAN
        /\ request' \in [num : 0 .. MaxOps, errorMode : 0 .. 2]
        /\ pos' \in Nat \ {0} /\ rpos' \in Nat \ {0}
        /\ ran' \in Seq(BOOLEAN) /\ Len(ran') <= MaxOps /\ Len(ran') <= request'.num
        /\ rsp' \in Seq(ReplyPart) /\ Len(rsp') <= RspCap
    BY <1>2, <1>3, <2>3 DEF Single, Modes
  <2>5. mode' \in Modes /\ refused' \in BOOLEAN
    BY <1>3 DEF Single, TypeInv, TypeOK
  <2> QED
    BY <2>1, <2>2, <2>3, <2>4, <2>5 DEF TypeInv, TypeOK
<1>4. ASSUME NEW kind \in Kinds, Issue(kind)
      PROVE  TypeInv'
  <2>1. /\ cmd' \in Seq(CommandPart) /\ Len(cmd') <= CmdCap
        /\ pending' \in Seq(Kinds) /\ Len(pending') <= MaxOps /\ refused' \in BOOLEAN
    BY <1>4, IssueTyped
  <2>2. UNCHANGED <<phase, mode, completed, result, request, pos, ran, rsp, rpos>>
    BY <1>4 DEF Issue, serverVars
  <2> QED
    BY <2>1, <2>2 DEF TypeInv, TypeOK
<1>5. CASE BatchEnd
  <2>1. CASE pending = <<>>
    BY <1>5, <2>1 DEF BatchEnd, TypeInv, TypeOK, Modes, serverVars
  <2>2. CASE pending # <<>>
    <3>1. mode \in Modes /\ pending \in Seq(Kinds) /\ Len(pending) <= MaxOps
      BY DEF TypeInv, TypeOK
    <3>2. Transact(mode, pending) /\ UNCHANGED <<mode, cmd, pending, refused>>
      BY <1>5, <2>2 DEF BatchEnd
    <3>3. /\ phase' \in {"idle", "collecting", "sent", "replied", "crashed"}
          /\ completed' \in 0 .. MaxOps /\ result' \in BOOLEAN
          /\ request' \in [num : 0 .. MaxOps, errorMode : 0 .. 2]
          /\ pos' \in Nat \ {0} /\ rpos' \in Nat \ {0}
          /\ ran' \in Seq(BOOLEAN) /\ Len(ran') <= MaxOps /\ Len(ran') <= request'.num
          /\ rsp' \in Seq(ReplyPart) /\ Len(rsp') <= RspCap
      BY <1>2, <3>1, <3>2
    <3> QED
      BY <3>2, <3>3 DEF TypeInv, TypeOK
  <2> QED
    BY <2>1, <2>2
<1>6. CASE HandleCommand
  <2>1. PICK op \in Nat \ {0}, kind \in Kinds, ok \in BOOLEAN : Ran(op, kind, ok)
    BY <1>6, CommandRuns
  <2>2. ran \in Seq(BOOLEAN) /\ Len(ran) < request.num /\ request.num \in 0 .. MaxOps
    BY <1>6 DEF HandleCommand, LoopGoesOn, TypeInv, TypeOK
  <2>3. ran' \in Seq(BOOLEAN) /\ Len(ran') <= MaxOps /\ Len(ran') <= request.num
    BY <2>1, <2>2, AppendProperties DEF Ran
  <2>4. rsp' \in Seq(ReplyPart) /\ Len(rsp') <= RspCap /\ pos' \in Nat \ {0}
    BY <2>1 DEF Ran, Extends
  <2>5. UNCHANGED <<clientVars, request, rpos>>
    BY <1>6 DEF HandleCommand
  <2> QED
    BY <2>3, <2>4, <2>5 DEF TypeInv, TypeOK, clientVars
<1>7. CASE SendReply
  <2>1. rsp' = rsp \o Cancelled /\ phase = "sent" /\ phase' = "replied"
    BY <1>7 DEF SendReply
  <2>2. /\ Cancelled \in Seq(ReplyPart) /\ Len(rsp) + Len(Cancelled) <= RspCap
        /\ rsp \in Seq(ReplyPart)
    BY <2>1, CancelledIs DEF TypeInv
  <2>3. rsp' \in Seq(ReplyPart) /\ Len(rsp') <= RspCap
    BY <2>1, <2>2, ConcatProperties
  <2> QED
    BY <1>7, <2>1, <2>3 DEF SendReply, TypeInv, TypeOK
<1>8. CASE ProcessResponse
  <2> DEFINE kind == pending[completed + 1]
  <2>1. /\ kind \in Kinds /\ completed + 1 \in 0 .. MaxOps /\ rpos \in Nat \ {0}
    BY <1>8 DEF ProcessResponse, TypeInv, TypeOK
  <2>2. UNCHANGED <<mode, cmd, pending, refused, request, pos, ran, rsp>> /\ phase = "replied"
    BY <1>8 DEF ProcessResponse, serverVars
  <2>3. \/ ResponseFails
        \/ Decoded(Len(ReplyParts(kind)))
        \/ Decoded(1)
        \/ phase' = "crashed" /\ UNCHANGED <<completed, result, rpos>>
    BY <1>8 DEF ProcessResponse
  <2> HIDE DEF kind
  <2>4. /\ phase' \in {"replied", "crashed"}
        /\ completed' \in 0 .. MaxOps /\ result' \in BOOLEAN
        /\ rpos' \in Nat \ {0}
    <3>1. CASE ResponseFails
      BY <2>1, <2>2, <3>1 DEF ResponseFails, TypeInv, TypeOK
    <3>2. ASSUME NEW n \in 1 .. 3, Decoded(n)
          PROVE  /\ phase' = "replied" /\ completed' \in 0 .. MaxOps /\ result' \in BOOLEAN
                 /\ rpos' \in Nat \ {0}
      BY <2>1, <2>2, <3>2 DEF Decoded, TypeInv, TypeOK
    <3>3. CASE phase' = "crashed" /\ UNCHANGED <<completed, result, rpos>>
      BY <3>3 DEF TypeInv, TypeOK
    <3>4. Len(ReplyParts(kind)) \in 1 .. 3 /\ 1 \in 1 .. 3
      BY <2>1, ReplyPartsAre
    <3> QED
      BY <2>3, <3>1, <3>2, <3>3, <3>4
  <2> QED
    BY <2>2, <2>4 DEF TypeInv, TypeOK
<1>9. CASE Return
  BY <1>9 DEF Return, TypeInv, TypeOK, Modes, serverVars
<1>10. CASE ConnectionFails
  <2>1. /\ phase' = "idle" /\ mode' \in Modes /\ result' \in BOOLEAN
        /\ UNCHANGED <<cmd, refused, completed, request, pos, ran, rsp, rpos>>
    BY <1>10 DEF ConnectionFails, Modes, serverVars
  <2>2. pending' \in Seq(Kinds) /\ Len(pending') = 0
    BY <1>10 DEF ConnectionFails
  <2> QED
    BY <2>1, <2>2 DEF TypeInv, TypeOK
<1>11. CASE UNCHANGED vars
  BY <1>11 DEF vars, clientVars, serverVars, TypeInv, TypeOK
<1> QED
  BY <1>1, <1>3, <1>4, <1>5, <1>6, <1>7, <1>8, <1>9, <1>10, <1>11 DEF Next

LEMMA InitTyped == Init => TypeInv
<1> SUFFICES ASSUME Init PROVE TypeInv
  OBVIOUS
<1>1. /\ phase = "idle" /\ mode \in Modes /\ refused \in BOOLEAN /\ result \in BOOLEAN
      /\ completed = 0 /\ pos = 1 /\ rpos = 1
      /\ request = [num |-> 0, errorMode |-> 0]
  BY DEF Init, Modes
<1>2. /\ cmd \in Seq(CommandPart) /\ Len(cmd) = 0 /\ pending \in Seq(Kinds) /\ Len(pending) = 0
      /\ ran \in Seq(BOOLEAN) /\ Len(ran) = 0 /\ rsp \in Seq(ReplyPart) /\ Len(rsp) = 0
  BY DEF Init
<1> QED
  BY <1>1, <1>2, BatchAssumption DEF TypeInv, TypeOK

\* Both ends keep the two buffers within their capacity and everything in type.
THEOREM BatchTypeCorrect == Spec => []TypeOK
<1>1. TypeInv => TypeOK
  BY DEF TypeInv
<1> QED
  BY <1>1, InitTyped, TypeStep, PTL DEF Spec

-----------------------------------------------------------------------------
(* The server reads where the client wrote *)

LEMMA PartIs ==
  ASSUME NEW buf \in Seq(CommandPart), NEW i \in DOMAIN buf
  PROVE  buf[i].op \in Nat /\ buf[i].op > 0 /\ buf[i].kind \in Kinds
<1>1. buf[i] \in CommandPart
  OBVIOUS
<1> QED
  BY <1>1 DEF CommandPart

LEMMA LayoutKept ==
  ASSUME LaidOut, UNCHANGED <<cmd, pending>>
  PROVE  LaidOut' /\ Heads' = Heads
BY DEF LaidOut, Heads, EndOf

LEMMA NothingQueued ==
  ASSUME cmd' \in Seq(CommandPart), pending' = <<>>
  PROVE  LaidOut' /\ Heads' = {}
<1>1. \A i \in DOMAIN cmd' : cmd'[i].op > 0 /\ cmd'[i].op \in Nat
  BY PartIs
<1>2. Heads' = {}
  BY <1>1 DEF Heads
<1> QED
  BY <1>2 DEF LaidOut

\* A command that fits goes behind the others; the last of them ended there.
LEMMA IssueFits ==
  ASSUME TypeInv, LaidOut, EndsWithBuffer, NEW kind \in Kinds, Issue(kind), Fits(cmd, kind)
  PROVE  LaidOut' /\ EndsWithBuffer'
<1> DEFINE parts == Parts(kind)
           k     == Len(pending) + 1
           n     == Len(cmd)
<1>1. /\ cmd \in Seq(CommandPart) /\ pending \in Seq(Kinds)
      /\ n \in Nat /\ k \in Nat \ {0} /\ Len(pending) \in Nat
      /\ phase = "collecting" /\ ~refused
  BY DEF TypeInv, TypeOK, Issue
<1>2. cmd' = cmd \o parts /\ pending' = Append(pending, kind)
  BY DEF Issue
<1>3. /\ parts \in Seq(CommandPart)
      /\ Len(parts) = Len(CommandParts(kind)) /\ Len(parts) \in 2 .. 3
      /\ parts[1].part = "head"
      /\ \A i \in 2 .. Len(parts) : parts[i].part # "head"
      /\ \A i \in 1 .. Len(parts) : parts[i].op = k /\ parts[i].kind = kind
  BY <1>1, QueuedIs DEF Parts
<1> HIDE DEF parts
<1>4. /\ cmd' \in Seq(CommandPart) /\ Len(cmd') = n + Len(parts)
      /\ \A i \in 1 .. n + Len(parts) : cmd'[i] = IF i <= n THEN cmd[i] ELSE parts[i - n]
  <2>1. cmd \in Seq(CommandPart) /\ parts \in Seq(CommandPart)
    BY <1>1, <1>3
  <2> QED
    BY <1>2, <2>1, ConcatProperties
<1>5. /\ Len(pending') = k
      /\ \A i \in 1 .. Len(pending) : pending'[i] = pending[i]
      /\ pending'[k] = kind
  BY <1>1, <1>2, AppendProperties
<1>6. /\ cmd'[n + 1].part = "head" /\ cmd'[n + 1].op = k /\ cmd'[n + 1].kind = kind
      /\ n + 1 \in DOMAIN cmd'
  <2>1. n + 1 \in 1 .. n + Len(parts) /\ n + 1 - n = 1 /\ ~(n + 1 <= n)
    BY <1>1, <1>3
  <2>2. cmd'[n + 1] = parts[1]
    BY <1>4, <2>1
  <2> QED
    BY <1>3, <1>4, <2>1, <2>2
<1>7. ASSUME NEW i \in n + 2 .. n + Len(parts)
      PROVE  cmd'[i].part # "head"
  <2>1. i - n \in 2 .. Len(parts) /\ i \in 1 .. n + Len(parts) /\ ~(i <= n)
    BY <1>1, <1>3
  <2> QED
    BY <1>3, <1>4, <2>1
<1>8. \A i \in Heads : i \in 1 .. n /\ cmd'[i] = cmd[i] /\ cmd[i].op \in 1 .. Len(pending)
  <2>1. ASSUME NEW i \in Heads
        PROVE  i \in 1 .. n /\ i \in DOMAIN cmd /\ cmd[i].op <= Len(pending)
    BY <1>1 DEF Heads
  <2>2. ASSUME NEW i \in Heads
        PROVE  cmd'[i] = cmd[i] /\ cmd[i].op \in 1 .. Len(pending)
    BY <1>1, <1>3, <1>4, <2>1, PartIs
  <2> QED
    BY <2>1, <2>2
<1>9. Heads' = Heads \cup {n + 1}
  <2>1. ASSUME NEW i \in Heads'
        PROVE  i \in Heads \cup {n + 1}
    <3>1. i \in 1 .. n + Len(parts) /\ cmd'[i].part = "head"
      BY <1>4 DEF Heads
    <3>2. CASE i <= n
      <4>1. i \in 1 .. n /\ cmd[i] = cmd'[i] /\ cmd[i].part = "head"
        BY <1>1, <1>4, <3>1, <3>2
      <4>2. cmd[i].kind \in Kinds /\ cmd[i].op \in Nat
        BY <1>1, <4>1, PartIs
      <4>3. cmd[i].op <= Len(pending)
        BY <1>1, <4>1 DEF EndsWithBuffer
      <4> QED
        BY <1>1, <4>1, <4>3 DEF Heads
    <3>3. CASE i > n
      BY <1>1, <1>7, <3>1, <3>3
    <3> QED
      BY <1>1, <3>1, <3>2, <3>3
  <2>2. ASSUME NEW i \in Heads
        PROVE  i \in Heads'
    BY <1>1, <1>3, <1>4, <1>5, <1>8 DEF Heads
  <2>3. n + 1 \in Heads'
    BY <1>1, <1>5, <1>6 DEF Heads
  <2> QED
    BY <2>1, <2>2, <2>3
<1>10. ASSUME NEW i \in Heads
       PROVE  /\ cmd'[i].kind = pending'[cmd'[i].op]
              /\ cmd'[i].op < k
              /\ EndOf(i)' \in Heads' /\ cmd'[EndOf(i)'].op = cmd'[i].op + 1
  <2>1. /\ cmd'[i] = cmd[i] /\ cmd[i].op \in 1 .. Len(pending)
        /\ cmd[i].kind = pending[cmd[i].op] /\ EndOf(i)' = EndOf(i)
    BY <1>8 DEF LaidOut, EndOf
  <2>2. cmd[i].op < k /\ cmd'[i].kind = pending'[cmd'[i].op]
    BY <1>1, <1>5, <2>1
  <2>3. CASE cmd[i].op < Len(pending)
    <3>1. EndOf(i) \in Heads /\ cmd[EndOf(i)].op = cmd[i].op + 1
      BY <2>3 DEF LaidOut
    <3> QED
      BY <1>8, <1>9, <2>1, <2>2, <3>1
  <2>4. CASE cmd[i].op = Len(pending)
    <3>1. EndOf(i) = n + 1
      BY <1>1, <2>4 DEF EndsWithBuffer
    <3> QED
      BY <1>6, <1>9, <2>1, <2>2, <2>4, <3>1
  <2> QED
    BY <1>1, <2>1, <2>3, <2>4
<1>11. 1 \in Heads' /\ cmd'[1].op = 1
  <2>1. CASE pending = <<>>
    <3>1. Len(pending) = 0 /\ k = 1
      BY <2>1
    <3>2. n = 0
      <4>1. \A i \in 1 .. n : cmd[i].op <= 0 /\ cmd[i].op \in Nat \ {0}
        BY <1>1, <3>1, PartIs DEF EndsWithBuffer
      <4> QED
        BY <1>1, <4>1
    <3> QED
      BY <1>6, <1>9, <3>1, <3>2
  <2>2. CASE pending # <<>>
    BY <1>8, <1>9, <2>2 DEF LaidOut
  <2> QED
    BY <2>1, <2>2
<1>12. LaidOut'
  <2>1. ASSUME NEW i \in Heads'
        PROVE  /\ cmd'[i].kind = pending'[cmd'[i].op]
               /\ cmd'[i].op < Len(pending') =>
                    EndOf(i)' \in Heads' /\ cmd'[EndOf(i)'].op = cmd'[i].op + 1
    <3>1. CASE i \in Heads
      BY <1>10, <3>1
    <3>2. CASE i = n + 1
      BY <1>1, <1>5, <1>6, <3>2
    <3> QED
      BY <1>9, <3>1, <3>2
  <2> QED
    BY <1>11, <2>1 DEF LaidOut
<1>13. EndsWithBuffer'
  <2>1. ASSUME NEW i \in DOMAIN cmd'
        PROVE  cmd'[i].op <= Len(pending')
    <3>1. CASE i <= n
      <4>1. i \in DOMAIN cmd /\ cmd'[i] = cmd[i] /\ cmd[i].op \in Nat
        BY <1>1, <1>3, <1>4, <3>1, PartIs
      <4> QED
        BY <1>1, <1>5, <4>1 DEF EndsWithBuffer
    <3>2. CASE i > n
      <4>1. i - n \in 1 .. Len(parts) /\ cmd'[i] = parts[i - n]
        BY <1>1, <1>3, <1>4, <3>2
      <4> QED
        BY <1>1, <1>3, <1>5, <4>1
    <3> QED
      BY <1>1, <1>3, <1>4, <3>1, <3>2
  <2>2. ASSUME NEW i \in Heads', cmd'[i].op = Len(pending')
        PROVE  EndOf(i)' = Len(cmd') + 1
    <3>1. i = n + 1
      BY <1>1, <1>5, <1>9, <1>10, <2>2
    <3> QED
      BY <1>1, <1>3, <1>4, <1>6, <3>1 DEF EndOf
  <2> QED
    BY <2>1, <2>2 DEF EndsWithBuffer
<1> QED
  BY <1>12, <1>13

\* What is left of a command that does not fit is numbered behind the queue.
LEMMA IssueRefused ==
  ASSUME TypeInv, LaidOut, NEW kind \in Kinds, Issue(kind), ~Fits(cmd, kind)
  PROVE  LaidOut' /\ EndsWithBuffer'
<1> DEFINE parts == Parts(kind)
           k     == Len(pending) + 1
           n     == Len(cmd)
           room  == CmdCap - Len(cmd)
           put   == SubSeq(parts, 1, room)
<1>1. /\ cmd \in Seq(CommandPart) /\ pending \in Seq(Kinds)
      /\ n \in Nat /\ k \in Nat \ {0} /\ Len(pending) \in Nat /\ n <= CmdCap
      /\ room \in Nat
  BY BatchAssumption DEF TypeInv, TypeOK, Issue
<1>2. cmd' = cmd \o put /\ refused' = TRUE /\ UNCHANGED pending
  BY DEF Issue
<1>3. /\ parts \in Seq(CommandPart) /\ Len(parts) = Len(CommandParts(kind))
      /\ \A i \in 1 .. Len(parts) : parts[i].op = k
  BY <1>1, QueuedIs DEF Parts
<1>4. room < Len(parts)
  BY <1>1, <1>3, CommandPartsAre, BatchAssumption DEF Fits
<1> HIDE DEF parts, room
<1>5. /\ put \in Seq(CommandPart) /\ Len(put) = room
      /\ \A i \in 1 .. room : put[i].op = k
  <2>1. \A i \in 1 .. room : parts[i] \in CommandPart
    BY <1>1, <1>3, <1>4
  <2>2. /\ put \in Seq(CommandPart) /\ Len(put) = room
        /\ \A i \in 1 .. room - 1 + 1 : put[i] = parts[1 + i - 1]
    BY <1>1, <2>1, SubSeqProperties
  <2> HIDE DEF put
  <2>3. \A i \in 1 .. room : put[i] = parts[i]
    BY <1>1, <2>2
  <2>4. \A i \in 1 .. room : i \in 1 .. Len(parts)
    BY <1>1, <1>3, <1>4
  <2>5. \A i \in 1 .. Len(parts) : parts[i].op = k
    BY <1>3
  <2> QED
    BY <2>2, <2>3, <2>4, <2>5
<1> HIDE DEF put
<1>6. /\ Len(cmd') = n + room /\ DOMAIN cmd' = 1 .. n + room
      /\ \A i \in 1 .. n + room : cmd'[i] = IF i <= n THEN cmd[i] ELSE put[i - n]
  <2>1. cmd \in Seq(CommandPart) /\ put \in Seq(CommandPart) /\ Len(put) = room
    BY <1>1, <1>5
  <2>2. cmd \o put \in Seq(CommandPart) /\ Len(cmd \o put) = Len(cmd) + Len(put)
    BY <2>1, ConcatProperties
  <2>3. \A i \in 1 .. Len(cmd) + Len(put) :
          (cmd \o put)[i] = IF i <= Len(cmd) THEN cmd[i] ELSE put[i - Len(cmd)]
    BY <2>1, ConcatProperties
  <2>4. DOMAIN (cmd \o put) = 1 .. Len(cmd) + Len(put)
    BY <2>2
  <2> QED
    BY <1>2, <2>1, <2>2, <2>3, <2>4
<1>7. \A i \in Heads : i \in 1 .. n /\ cmd'[i] = cmd[i]
  BY <1>1, <1>6 DEF Heads
<1>8. Heads' = Heads
  <2>1. ASSUME NEW i \in Heads'
        PROVE  i \in Heads
    <3>1. i \in 1 .. n + room /\ cmd'[i].part = "head" /\ cmd'[i].op <= Len(pending)
      BY <1>2, <1>6 DEF Heads
    <3>2. CASE i <= n
      BY <1>1, <1>6, <3>1, <3>2 DEF Heads
    <3>3. CASE i > n
      <4>1. i - n \in 1 .. room /\ cmd'[i] = put[i - n]
        BY <1>1, <1>6, <3>1, <3>3
      <4> QED
        BY <1>1, <1>5, <3>1, <4>1
    <3> QED
      BY <1>1, <3>1, <3>2, <3>3
  <2>2. ASSUME NEW i \in Heads
        PROVE  i \in Heads'
    BY <1>1, <1>2, <1>6, <1>7 DEF Heads
  <2> QED
    BY <2>1, <2>2
<1>9. \A i \in Heads : EndOf(i)' = EndOf(i)
  BY <1>7 DEF EndOf
<1>10. LaidOut'
  BY <1>2, <1>7, <1>8, <1>9 DEF LaidOut
<1> QED
  BY <1>2, <1>10 DEF EndsWithBuffer

\* While the loop goes on no command has failed, and the next one is the one
\* that was queued next.
LEMMA NothingFailed ==
  ASSUME TypeInv, InStep, phase = "sent", LoopGoesOn
  PROVE  /\ ~LastFailed /\ Len(ran) < request.num
         /\ pos \in Heads /\ cmd[pos].op = Len(ran) + 1 /\ cmd[pos].part = "head"
<1>1. Len(ran) \in Nat /\ request.num \in Nat /\ ran \in Seq(BOOLEAN)
  BY DEF TypeInv, TypeOK
<1>2. ~LastFailed
  <2>1. CASE request.errorMode # 0
    BY <2>1 DEF LoopGoesOn, Aborted
  <2>2. CASE request.errorMode = 0
    <3>1. Len(ran) = 0
      BY <1>1, <2>2 DEF LoopGoesOn, InStep
    <3> QED
      BY <1>1, <3>1 DEF LastFailed
  <2> QED
    BY <2>1, <2>2
<1> QED
  BY <1>2 DEF InStep, LoopGoesOn, Heads

\* The loop ends with a failure or with everything run, never for want of a
\* command in the buffer.
LEMMA AnsweredWhole ==
  ASSUME TypeInv, LaidOut, InStep, phase = "sent", ~LoopGoesOn, ~Aborted
  PROVE  Len(ran) = request.num
<1>1. /\ Len(ran) \in Nat /\ request.num \in Nat /\ ran \in Seq(BOOLEAN)
      /\ Len(ran) <= request.num
  BY DEF TypeInv, TypeOK
<1>2. SUFFICES ASSUME Len(ran) < request.num PROVE FALSE
  BY <1>1
<1>3. pos \in Nat /\ pos > Len(cmd) /\ Len(cmd) \in Nat /\ cmd \in Seq(CommandPart)
  BY <1>2 DEF LoopGoesOn, TypeInv, TypeOK
<1>4. CASE LastFailed
  <2>1. request.num = 1 /\ Len(ran) # 0
    BY <1>1, <1>4 DEF InStep, Aborted, LastFailed
  <2> QED
    BY <1>1, <1>2, <2>1
<1>5. CASE ~LastFailed
  <2>1. pos \in DOMAIN cmd
    BY <1>2, <1>5 DEF InStep, Heads
  <2> QED
    BY <1>3, <2>1
<1> QED
  BY <1>4, <1>5

LEMMA BatchStep == TypeInv /\ BatchInv /\ [Next]_vars => BatchInv'
<1> SUFFICES ASSUME TypeInv, BatchInv, TypeInv', [Next]_vars PROVE BatchInv'
  BY TypeStep
<1> USE DEF BatchInv
\* A request that goes out with all that is queued.
<1>1. ASSUME NEW m \in Modes, Transact(m, pending'), pending' # <<>>, LaidOut',
             m = "NONE" => Len(pending') = 1
      PROVE  EndsWithBuffer' /\ InStep'
  <2>1. /\ phase' = "sent" /\ request'.num = Len(pending') /\ request'.errorMode = ErrorMode(m)
        /\ ran' = <<>> /\ pos' = 1
    BY <1>1 DEF Transact
  <2>2. ErrorMode(m) = 0 => m = "NONE"
    BY DEF ErrorMode, Modes
  <2>3. ~LastFailed' /\ Len(ran') = 0
    BY <2>1 DEF LastFailed
  <2>4. 1 \in Heads' /\ cmd'[1].op = 1
    BY <1>1 DEF LaidOut
  <2>5. EndsWithBuffer'
    BY <2>1 DEF EndsWithBuffer
  <2>6. InStep'
    BY <1>1, <2>1, <2>2, <2>3, <2>4 DEF InStep
  <2> QED
    BY <2>5, <2>6
<1>2. ASSUME NEW abortOnError \in BOOLEAN, BatchBegin(abortOnError)
      PROVE  BatchInv'
  <2>1. phase' = "collecting" /\ mode' # "NONE" /\ cmd' = <<>> /\ pending' = <<>>
    BY <1>2 DEF BatchBegin
  <2>2. LaidOut' /\ Heads' = {} /\ DOMAIN cmd' = {}
    BY <2>1, NothingQueued DEF TypeInv
  <2> QED
    BY <2>1, <2>2 DEF EndsWithBuffer, InStep
<1>3. ASSUME NEW kind \in Kinds, Single(kind)
      PROVE  BatchInv'
  <2> DEFINE parts == Tagged(1, kind, CommandParts(kind))
  <2>1. /\ parts \in Seq(CommandPart) /\ Len(parts) \in 2 .. 3
        /\ parts[1].part = "head"
        /\ \A i \in 2 .. Len(parts) : parts[i].part # "head"
        /\ \A i \in 1 .. Len(parts) : parts[i].op = 1 /\ parts[i].kind = kind
    <3>1. 1 \in Nat \ {0}
      OBVIOUS
    <3> HIDE DEF parts
    <3>2. parts = Tagged(1, kind, CommandParts(kind))
      BY DEF parts
    <3> QED
      BY <1>3, <3>1, <3>2, QueuedIs
  <2>2. cmd' = parts /\ pending' = <<kind>> /\ Transact("NONE", pending')
    BY <1>3 DEF Single
  <2> HIDE DEF parts
  <2>3. Len(pending') = 1 /\ pending'[1] = kind /\ pending' # <<>>
    BY <2>2
  <2>4. Heads' = {1}
    BY <2>1, <2>2, <2>3 DEF Heads
  <2>5. LaidOut'
    BY <2>1, <2>2, <2>3, <2>4 DEF LaidOut
  <2> QED
    BY <1>1, <2>2, <2>3, <2>5 DEF Modes
<1>4. ASSUME NEW kind \in Kinds, Issue(kind)
      PROVE  BatchInv'
  <2>1. LaidOut' /\ EndsWithBuffer'
    BY <1>4, IssueFits, IssueRefused
  <2>2. phase = "collecting" /\ UNCHANGED <<phase, mode>>
    BY <1>4 DEF Issue
  <2> QED
    BY <2>1, <2>2 DEF InStep
<1>5. CASE BatchEnd
  <2>1. CASE pending = <<>>
    <3>1. phase' = "idle" /\ UNCHANGED <<cmd, pending>>
      BY <1>5, <2>1 DEF BatchEnd
    <3> QED
      BY <3>1, LayoutKept DEF EndsWithBuffer, InStep
  <2>2. CASE pending # <<>>
    <3>1. Transact(mode, pending') /\ UNCHANGED <<cmd, pending>> /\ mode # "NONE" /\ mode \in Modes
      BY <1>5, <2>2 DEF BatchEnd, InStep, TypeInv, TypeOK
    <3> QED
      BY <1>1, <2>2, <3>1, LayoutKept
  <2> QED
    BY <2>1, <2>2
<1>6. CASE HandleCommand
  <2>1. phase = "sent" /\ LoopGoesOn /\ UNCHANGED <<phase, mode, cmd, pending, refused, request>>
    BY <1>6 DEF HandleCommand, clientVars
  <2>2. /\ ~LastFailed /\ Len(ran) < request.num
        /\ pos \in Heads /\ cmd[pos].op = Len(ran) + 1 /\ cmd[pos].part = "head"
    BY <2>1, NothingFailed
  <2>3. LaidOut' /\ Heads' = Heads
    BY <2>1, LayoutKept
  <2>4. PICK op \in Nat \ {0}, kind \in Kinds, ok \in BOOLEAN :
          Ran(op, kind, ok) /\ op = cmd[pos].op /\ kind = cmd[pos].kind
    BY <1>6, <2>2, CommandRuns
  <2>5. /\ ran \in Seq(BOOLEAN) /\ Len(ran') = Len(ran) + 1 /\ Len(ran) \in Nat
        /\ \A i \in 1 .. Len(ran) : ran'[i] = ran[i]
        /\ ran'[Len(ran) + 1] = ok
    <3>1. ran \in Seq(BOOLEAN) /\ ran' = Append(ran, ok)
      BY <2>4 DEF TypeInv, TypeOK, Ran
    <3> QED
      BY <3>1, AppendProperties
  <2>6. ASSUME NEW i \in 1 .. Len(ran') - 1
        PROVE  ran'[i]
    <3>1. ran'[i] = ran[i] /\ i \in 1 .. Len(ran)
      BY <2>5
    <3>2. CASE i < Len(ran)
      <4>1. i \in 1 .. Len(ran) - 1
        BY <2>5, <3>1, <3>2
      <4> QED
        BY <2>1, <3>1, <4>1 DEF InStep
    <3>3. CASE i = Len(ran)
      <4>1. ran[i]
        BY <2>2, <2>5, <3>1, <3>3 DEF LastFailed, Last
      <4> QED
        BY <3>1, <4>1
    <3> QED
      BY <2>5, <3>1, <3>2, <3>3
  <2>7. ASSUME ~LastFailed', Len(ran') < request.num
        PROVE  pos' \in Heads /\ cmd[pos'].op = Len(ran') + 1
    <3>1. ok
      BY <2>5, <2>7 DEF LastFailed, Last
    <3>2. pos' = EndOf(pos)
      BY <2>4, <3>1 DEF Ran, EndOf
    <3>3. cmd[pos].op < Len(pending)
      BY <2>1, <2>2, <2>5, <2>7 DEF InStep
    <3> QED
      BY <2>2, <2>5, <3>2, <3>3 DEF LaidOut
  <2>8. InStep'
    BY <2>1, <2>3, <2>6, <2>7 DEF InStep
  <2> QED
    BY <2>1, <2>3, <2>8 DEF EndsWithBuffer
<1>7. ASSUME UNCHANGED <<mode, cmd, pending, request, ran>>, phase \in {"sent", "replied"},
             phase' \in {"replied", "crashed"}
      PROVE  BatchInv'
  BY <1>7, LayoutKept DEF EndsWithBuffer, InStep
<1>8. CASE SendReply
  BY <1>7, <1>8 DEF SendReply
<1>9. CASE ProcessResponse
  BY <1>7, <1>9 DEF ProcessResponse, ResponseFails, Decoded, serverVars
<1>10. CASE Return \/ ConnectionFails
  <2>1. phase' = "idle" /\ pending' = <<>>
    BY <1>10 DEF Return, ConnectionFails
  <2> QED
    BY <2>1, NothingQueued DEF TypeInv, EndsWithBuffer, InStep
<1>11. CASE UNCHANGED vars
  <2>1. UNCHANGED <<phase, mode, cmd, pending, refused, request, pos, ran>>
    BY <1>11 DEF vars, clientVars, serverVars
  <2>2. LaidOut' /\ Heads' = Heads /\ (\A i \in Heads : EndOf(i)' = EndOf(i))
    BY <2>1, LayoutKept DEF EndOf
  <2>3. LastFailed' = LastFailed
    BY <2>1 DEF LastFailed
  <2> QED
    BY <2>1, <2>2, <2>3 DEF EndsWithBuffer, InStep
<1> QED
  BY <1>2, <1>3, <1>4, <1>5, <1>6, <1>8, <1>9, <1>10, <1>11 DEF Next

LEMMA BatchInitially == Init => TypeInv /\ BatchInv
<1> SUFFICES ASSUME Init PROVE BatchInv
  BY InitTyped
<1>1. cmd = <<>> /\ pending = <<>> /\ phase = "idle"
  BY DEF Init
<1>2. DOMAIN cmd = {} /\ Heads = {}
  BY <1>1 DEF Heads
<1> QED
  BY <1>1, <1>2 DEF BatchInv, LaidOut, EndsWithBuffer, InStep

\* The server never reads a command from anywhere but where the client began
\* to encode it.
THEOREM AlignedAlways == Spec => []Aligned
<1>1. TypeInv /\ BatchInv => Aligned
  <2> SUFFICES ASSUME TypeInv, BatchInv, phase = "sent", LoopGoesOn
               PROVE  /\ cmd[pos].part = "head"
                      /\ cmd[pos].op = Len(ran) + 1
                      /\ cmd[pos].kind = pending[Len(ran) + 1]
    BY DEF Aligned
  <2>1. pos \in Heads /\ cmd[pos].op = Len(ran) + 1 /\ cmd[pos].part = "head"
    BY NothingFailed DEF BatchInv
  <2> QED
    BY <2>1 DEF BatchInv, LaidOut
<1> QED
  BY <1>1, BatchInitially, TypeStep, BatchStep, PTL DEF Spec

-----------------------------------------------------------------------------
(* The promise *)

LEMMA PromiseStep ==
  TypeInv /\ BatchInv /\ TypeInv' /\ BatchInv' /\ [Next]_vars => [Promise!Next]_(Promise!vars)
<1> SUFFICES ASSUME TypeInv, BatchInv, TypeInv', BatchInv', [Next]_vars
             PROVE  [Promise!Next]_(Promise!vars)
  OBVIOUS
<1> DEFINE Stutter == UNCHANGED <<request, ran>> /\ (phase' = "sent" <=> phase = "sent")
<1>1. ASSUME Stutter PROVE UNCHANGED Promise!vars
  BY <1>1 DEF Promise!vars
<1>2. /\ ran \in Seq(BOOLEAN) /\ Len(ran) \in Nat /\ DOMAIN ran = 1 .. Len(ran)
      /\ request.num \in Nat
  BY DEF TypeInv, TypeOK
<1>3. ASSUME NEW m \in Modes, NEW kinds, Transact(m, kinds), phase # "sent"
      PROVE  Promise!Next
  <2>1. /\ phase' = "sent" /\ ran' = <<>> /\ request'.num = Len(pending') /\ pending' # <<>>
        /\ pending' \in Seq(Kinds) /\ Len(pending') <= MaxOps
    BY <1>3 DEF Transact, BatchInv, InStep, TypeInv, TypeOK
  <2>2. request'.num \in 1 .. MaxOps
    <3>1. Len(pending') \in Nat /\ Len(pending') # 0
      BY <2>1
    <3> QED
      BY <2>1, <3>1, BatchAssumption
  <2>3. (request.errorMode # 0)' \in BOOLEAN
    OBVIOUS
  <2>4. Promise!Submit
    BY <1>3, <2>1, <2>2, <2>3 DEF Promise!Submit
  <2> QED
    BY <2>4 DEF Promise!Next
<1>4. ASSUME NEW abortOnError \in BOOLEAN, BatchBegin(abortOnError)
      PROVE  Stutter
  BY <1>4 DEF BatchBegin, serverVars
<1>5. ASSUME NEW kind \in Kinds, Single(kind)
      PROVE  Promise!Next
  BY <1>3, <1>5 DEF Single, Modes
<1>6. ASSUME NEW kind \in Kinds, Issue(kind)
      PROVE  Stutter
  BY <1>6 DEF Issue, serverVars
<1>7. CASE BatchEnd
  <2>1. CASE pending = <<>>
    BY <1>1, <1>7, <2>1 DEF BatchEnd, serverVars
  <2>2. CASE pending # <<>>
    BY <1>3, <1>7, <2>2 DEF BatchEnd, TypeInv, TypeOK
  <2> QED
    BY <2>1, <2>2
<1>8. CASE HandleCommand
  <2>1. phase = "sent" /\ LoopGoesOn /\ UNCHANGED <<phase, request>>
    BY <1>8 DEF HandleCommand, clientVars
  <2>2. ~LastFailed /\ Len(ran) < request.num
    BY <2>1, NothingFailed DEF BatchInv
  <2>3. ASSUME NEW i \in DOMAIN ran
        PROVE  ran[i]
    <3>1. CASE i < Len(ran)
      BY <1>2, <2>1, <3>1 DEF BatchInv, InStep
    <3>2. CASE i = Len(ran)
      BY <1>2, <2>2, <3>2 DEF LastFailed, Last
    <3> QED
      BY <1>2, <3>1, <3>2
  <2>4. \E ok \in BOOLEAN : ran' = Append(ran, ok)
    BY <1>8, CommandRuns DEF Ran
  <2>5. Promise!RunNext
    BY <2>1, <2>2, <2>3, <2>4 DEF Promise!RunNext, Promise!SomeFailed
  <2> QED
    BY <2>5 DEF Promise!Next
<1>9. CASE SendReply
  <2>1. phase = "sent" /\ ~LoopGoesOn /\ phase' # "sent" /\ UNCHANGED <<request, ran>>
    BY <1>9 DEF SendReply
  <2>2. Len(ran) <= request.num
    BY <2>1 DEF TypeInv
  <2>3. CASE Aborted
    <3>1. Len(ran) \in DOMAIN ran /\ ~ran[Len(ran)]
      BY <1>2, <2>3 DEF Aborted, LastFailed, Last
    <3>2. Promise!Answer
      BY <2>1, <2>3, <3>1 DEF Promise!Answer, Promise!SomeFailed, Aborted
    <3> QED
      BY <3>2 DEF Promise!Next
  <2>4. CASE ~Aborted
    <3>1. Len(ran) = request.num
      BY <1>2, <2>1, <2>4, AnsweredWhole DEF BatchInv
    <3>2. Promise!Answer
      BY <2>1, <3>1 DEF Promise!Answer
    <3> QED
      BY <3>2 DEF Promise!Next
  <2> QED
    BY <2>3, <2>4
<1>10. ASSUME ProcessResponse
       PROVE  Stutter
  BY <1>10 DEF ProcessResponse, ResponseFails, Decoded, serverVars
<1>11. ASSUME Return
       PROVE  Stutter
  BY <1>11 DEF Return, AllProcessed, serverVars
<1>12. CASE ConnectionFails
  <2>1. Promise!Lose
    BY <1>12 DEF ConnectionFails, Promise!Lose, serverVars
  <2> QED
    BY <2>1 DEF Promise!Next
<1>13. ASSUME UNCHANGED vars
       PROVE  Stutter
  BY <1>13 DEF vars, clientVars, serverVars
<1> QED
  <2> HIDE DEF Stutter
  <2> QED
    BY <1>1, <1>4, <1>5, <1>6, <1>7, <1>8, <1>9, <1>10, <1>11, <1>12, <1>13 DEF Next

\* Client, server and connection together keep the promise: the commands run in
\* order, each at most once, nothing runs behind one that failed, and the answer
\* comes when nothing is left to run.
THEOREM BatchKeepsPromise == Spec => KeepsPromise
<1>1. Init => Promise!Init
  BY DEF Init, Promise!Init
<1> QED
  BY <1>1, BatchInitially, TypeStep, BatchStep, PromiseStep, PTL
  DEF Spec, KeepsPromise, Promise!Spec

-----------------------------------------------------------------------------
(* The client counts what succeeded *)

LEMMA ReplyOp ==
  ASSUME NEW buf \in Seq(ReplyPart), NEW i \in DOMAIN buf
  PROVE  buf[i].op \in Int
<1>1. buf[i] \in ReplyPart
  OBVIOUS
<1> QED
  BY <1>1 DEF ReplyPart

LEMMA GoodIs ==
  ASSUME TypeInv
  PROVE  /\ Good \in Nat /\ Len(ran) \in Nat /\ ran \in Seq(BOOLEAN)
         /\ LastFailed => Len(ran) # 0
         /\ Good = IF LastFailed THEN Len(ran) - 1 ELSE Len(ran)
<1>1. Len(ran) \in Nat /\ ran \in Seq(BOOLEAN)
  BY DEF TypeInv, TypeOK
<1>2. LastFailed => Len(ran) # 0
  BY <1>1 DEF LastFailed
<1> QED
  BY <1>1, <1>2 DEF Good

\* A whole reply is to a command of a kind there is.
LEMMA OkKind ==
  ASSUME TypeInv, BatchInv, phase \in {"sent", "replied"},
         NEW c \in 1 .. Good, NEW p \in Nat \ {0}, WholeReply(rsp, c, pending[c], p)
  PROVE  rsp[p].kind \in Kinds
<1>1. c \in 1 .. Len(pending) /\ pending \in Seq(Kinds)
  BY GoodIs DEF BatchInv, InStep, TypeInv, TypeOK
<1> QED
  BY <1>1 DEF WholeReply

\* The server's turn: the reply goes behind the others.
LEMMA RepliesRun ==
  ASSUME TypeInv, TypeInv', BatchInv, RepliesInv, HandleCommand
  PROVE  RepliesInv'
<1> DEFINE n == Len(ran) + 1
           q == Len(rsp) + 1
<1>1. phase = "sent" /\ LoopGoesOn /\ UNCHANGED <<phase, cmd, pending, request>>
  BY DEF HandleCommand, clientVars
<1>2. /\ ~LastFailed
      /\ pos \in Heads /\ cmd[pos].op = n /\ cmd[pos].part = "head"
  BY <1>1, NothingFailed DEF BatchInv
<1>3. PICK op \in Nat \ {0}, kind \in Kinds, ok \in BOOLEAN :
        Ran(op, kind, ok) /\ op = cmd[pos].op /\ kind = cmd[pos].kind
  BY <1>2, CommandRuns
<1>4. op = n /\ kind = pending[n]
  BY <1>2, <1>3 DEF BatchInv, LaidOut
<1>5. Good = Len(ran) /\ Len(ran) \in Nat /\ ran \in Seq(BOOLEAN)
  BY <1>2, GoodIs
<1>6. Len(ran') = n /\ ran'[n] = ok
  <2>1. ran' = Append(ran, ok)
    BY <1>3 DEF Ran
  <2> QED
    BY <1>5, <2>1, AppendProperties
<1>7. /\ LastFailed' <=> ~ok
      /\ Good' = IF ok THEN n ELSE Len(ran)
  BY <1>5, <1>6 DEF LastFailed, Last, Good
<1>8. /\ rsp \in Seq(ReplyPart) /\ rsp' \in Seq(ReplyPart)
      /\ Len(rsp) \in Nat /\ Len(rsp') \in Nat /\ Len(rsp) <= Len(rsp')
      /\ DOMAIN rsp = 1 .. Len(rsp) /\ DOMAIN rsp' = 1 .. Len(rsp')
      /\ \A i \in 1 .. Len(rsp) : rsp'[i] = rsp[i]
      /\ \A i \in q .. Len(rsp') : rsp'[i].op = n
  BY <1>3, <1>4 DEF Ran, Extends, TypeInv
<1>9. \A i \in DOMAIN rsp : rsp[i].op <= Len(ran)
  BY <1>1 DEF RepliesInv
\* The replies to the commands before are where they were.
<1>10. ASSUME NEW c \in 0 .. Len(ran), NEW p \in Nat \ {0}, ReplyAt(rsp', c, p)
       PROVE  ReplyAt(rsp, c, p)
  <2>1. CASE c = 0 /\ p = 1
    BY <2>1 DEF ReplyAt
  <2>2. ASSUME NEW i \in DOMAIN rsp', rsp'[i].part = "ok", rsp'[i].op = c,
               p = i + Len(ReplyParts(rsp'[i].kind))
        PROVE  ReplyAt(rsp, c, p)
    <3>1. i \in 1 .. Len(rsp)
      BY <1>5, <1>8, <2>2
    <3>2. rsp'[i] = rsp[i] /\ i \in DOMAIN rsp
      BY <1>8, <3>1
    <3> QED
      BY <2>2, <3>2 DEF ReplyAt
  <2> QED
    BY <1>10, <2>1, <2>2 DEF ReplyAt
<1>11. ASSUME NEW c \in 1 .. Good, NEW p \in Nat \ {0}, WholeReply(rsp, c, pending[c], p)
       PROVE  WholeReply(rsp', c, pending[c], p)
  <2>1. p \in 1 .. Len(rsp) /\ rsp'[p] = rsp[p] /\ p \in DOMAIN rsp'
    BY <1>8, <1>11 DEF WholeReply
  <2>2. rsp[p].kind \in Kinds
    BY <1>1, <1>11, OkKind
  <2>3. Len(ReplyParts(rsp[p].kind)) \in 1 .. 3
    BY <2>2, ReplyPartsAre
  <2> QED
    BY <1>1, <1>8, <1>11, <2>1, <2>3 DEF WholeReply
<1>12. \A p \in Nat \ {0} : ReplyAt(rsp, Len(ran), p) => p = q
  BY <1>1, <1>2, <1>5 DEF RepliesInv
<1>13. \A i \in DOMAIN rsp' : rsp'[i].op <= Len(ran')
  <2>1. ASSUME NEW i \in DOMAIN rsp'
        PROVE  rsp'[i].op <= Len(ran')
    <3>1. CASE i \in 1 .. Len(rsp)
      <4>1. rsp'[i] = rsp[i] /\ rsp[i].op <= Len(ran) /\ rsp[i].op \in Int
        BY <1>8, <1>9, <3>1, ReplyOp
      <4> QED
        BY <1>5, <1>6, <4>1
    <3>2. CASE i \in q .. Len(rsp')
      BY <1>5, <1>6, <1>8, <3>2
    <3> QED
      BY <1>8, <3>1, <3>2
  <2> QED
    BY <2>1
<1>14. CASE ok
  <2>1. /\ Len(rsp') = Len(rsp) + Len(ReplyParts(kind))
        /\ rsp'[q].part = "ok" /\ rsp'[q].kind = kind
        /\ \A i \in q + 1 .. Len(rsp') : rsp'[i].part # "ok"
        /\ Len(ReplyParts(kind)) \in 1 .. 3
    BY <1>3, <1>8, <1>14, ReplyPartsAre DEF Ran
  <2>2. q \in DOMAIN rsp' /\ rsp'[q].op = n
    <3> DEFINE m == Len(ReplyParts(kind))
    <3>1. m \in 1 .. 3 /\ Len(rsp') = Len(rsp) + m
      BY <2>1
    <3> HIDE DEF m
    <3>2. q \in q .. Len(rsp') /\ q \in 1 .. Len(rsp')
      BY <1>8, <3>1
    <3> QED
      BY <1>8, <3>2
  <2>3. WholeReply(rsp', n, pending[n], q)
    BY <1>1, <1>4, <1>8, <2>1, <2>2 DEF WholeReply
  <2>4. ASSUME NEW p \in Nat \ {0}, ReplyAt(rsp', n, p)
        PROVE  p = Len(rsp') + 1
    <3>1. PICK i \in DOMAIN rsp' :
            rsp'[i].part = "ok" /\ rsp'[i].op = n /\ p = i + Len(ReplyParts(rsp'[i].kind))
      BY <1>5, <2>4 DEF ReplyAt
    <3>2. ~(i \in 1 .. Len(rsp))
      BY <1>5, <1>8, <1>9, <3>1
    <3>3. i = q
      BY <1>8, <2>1, <3>1, <3>2
    <3>4. p = q + Len(ReplyParts(kind))
      BY <2>1, <3>1, <3>3
    <3> QED
      BY <1>8, <2>1, <3>4
  <2>5. ASSUME NEW c \in 1 .. n, NEW p \in Nat \ {0}, ReplyAt(rsp', c - 1, p)
        PROVE  WholeReply(rsp', c, pending[c], p)
    <3>1. c - 1 \in 0 .. Len(ran)
      BY <1>5
    <3>2. ReplyAt(rsp, c - 1, p)
      BY <1>10, <2>5, <3>1
    <3>3. CASE c = n
      <4>1. p = q
        BY <1>5, <1>12, <3>2, <3>3
      <4> QED
        BY <2>3, <3>3, <4>1
    <3>4. CASE c # n
      <4>1. c \in 1 .. Good
        BY <1>5, <3>4
      <4> QED
        BY <1>1, <1>11, <3>2, <4>1 DEF RepliesInv
    <3> QED
      BY <3>3, <3>4
  <2> QED
    BY <1>1, <1>7, <1>13, <1>14, <2>4, <2>5 DEF RepliesInv
<1>15. CASE ~ok
  <2>1. NoReply(rsp', q)
    BY <1>3, <1>15 DEF Ran
  <2>2. ASSUME NEW c \in 1 .. Good, NEW p \in Nat \ {0}, ReplyAt(rsp', c - 1, p)
        PROVE  WholeReply(rsp', c, pending[c], p)
    <3>1. c - 1 \in 0 .. Len(ran)
      BY <1>5
    <3>2. WholeReply(rsp, c, pending[c], p)
      BY <1>1, <1>10, <2>2, <3>1 DEF RepliesInv
    <3> QED
      BY <1>11, <3>2
  <2>3. ASSUME NEW p \in Nat \ {0}, ReplyAt(rsp', Len(ran), p)
        PROVE  NoReply(rsp', p)
    <3>1. Len(ran) \in 0 .. Len(ran)
      BY <1>5
    <3>2. p = q
      BY <1>10, <1>12, <2>3, <3>1
    <3> QED
      BY <2>1, <3>2
  <2> QED
    BY <1>1, <1>5, <1>7, <1>13, <1>15, <2>2, <2>3 DEF RepliesInv
<1> QED
  BY <1>14, <1>15

\* The cancelled replies go behind the others too.
LEMMA RepliesSent ==
  ASSUME TypeInv, TypeInv', BatchInv, RepliesInv, SendReply
  PROVE  RepliesInv'
<1>1. /\ phase = "sent" /\ phase' = "replied" /\ ~LoopGoesOn
      /\ UNCHANGED <<pending, request, ran>> /\ rsp' = rsp \o Cancelled
  BY DEF SendReply
<1>2. /\ Cancelled \in Seq(ReplyPart) /\ Len(Cancelled) \in Nat
      /\ Len(rsp) + Len(Cancelled) <= RspCap
      /\ \A i \in 1 .. Len(Cancelled) : Cancelled[i].part = "cancelled"
  BY <1>1, CancelledIs
<1>3. /\ rsp \in Seq(ReplyPart) /\ Len(rsp) \in Nat /\ DOMAIN rsp = 1 .. Len(rsp)
      /\ Len(rsp') = Len(rsp) + Len(Cancelled)
      /\ DOMAIN rsp' = 1 .. Len(rsp) + Len(Cancelled)
      /\ \A i \in 1 .. Len(rsp) + Len(Cancelled) :
           rsp'[i] = IF i <= Len(rsp) THEN rsp[i] ELSE Cancelled[i - Len(rsp)]
  <2>1. rsp \in Seq(ReplyPart)
    BY DEF TypeInv
  <2> QED
    BY <1>1, <1>2, <2>1, ConcatProperties
<1>4. ASSUME NEW i \in DOMAIN rsp', ~(i \in DOMAIN rsp)
      PROVE  rsp'[i].part = "cancelled"
  <2>1. i - Len(rsp) \in 1 .. Len(Cancelled) /\ ~(i <= Len(rsp))
    BY <1>2, <1>3, <1>4
  <2> QED
    BY <1>2, <1>3, <2>1
<1>5. \A i \in DOMAIN rsp : i \in DOMAIN rsp' /\ rsp'[i] = rsp[i]
  BY <1>2, <1>3
<1>6. ASSUME NEW c, NEW p, ReplyAt(rsp', c, p)
      PROVE  ReplyAt(rsp, c, p)
  <2>1. ASSUME NEW i \in DOMAIN rsp', rsp'[i].part = "ok", rsp'[i].op = c,
               p = i + Len(ReplyParts(rsp'[i].kind))
        PROVE  ReplyAt(rsp, c, p)
    BY <1>4, <1>5, <2>1 DEF ReplyAt
  <2> QED
    BY <1>6, <2>1 DEF ReplyAt
<1>7. ASSUME NEW c \in 1 .. Good, NEW p \in Nat \ {0}, WholeReply(rsp, c, pending[c], p)
      PROVE  WholeReply(rsp', c, pending[c], p)
  <2>1. pending[c] \in Kinds
    <3>1. pending \in Seq(Kinds) /\ c \in 1 .. Good
      BY <1>7 DEF TypeInv, TypeOK
    <3>2. Good \in Int /\ Good <= Len(pending)
      <4>1. Len(ran) <= request.num
        BY <1>1 DEF TypeInv
      <4>2. request.num = Len(pending)
        BY <1>1 DEF BatchInv, InStep
      <4>3. /\ Good \in Nat /\ Len(ran) \in Nat
            /\ Good = IF LastFailed THEN Len(ran) - 1 ELSE Len(ran)
        BY GoodIs
      <4>4. request.num \in Nat
        BY DEF TypeInv, TypeOK
      <4> QED
        BY <4>1, <4>2, <4>3, <4>4
    <3>3. c \in 1 .. Len(pending)
      BY <3>1, <3>2
    <3> QED
      BY <3>1, <3>3
  <2>2. Len(ReplyParts(pending[c])) \in 1 .. 3
    BY <2>1, ReplyPartsAre
  <2> QED
    BY <1>2, <1>3, <1>5, <1>7, <2>2 DEF WholeReply
<1>8. ASSUME NEW p \in Nat \ {0}, NoReply(rsp, p)
      PROVE  NoReply(rsp', p)
  <2>1. CASE p \in DOMAIN rsp
    <3>1. rsp'[p] = rsp[p] /\ ~(p > Len(rsp))
      BY <1>3, <1>5, <2>1
    <3>2. CASE /\ rsp[p].part = "ok" /\ rsp[p].kind = "data"
               /\ (p = Len(rsp) \/ rsp[p + 1].part # "data")
      <4>1. CASE p = Len(rsp)
        <5>1. CASE p = Len(rsp')
          BY <3>1, <3>2, <5>1 DEF NoReply
        <5>2. CASE p # Len(rsp')
          <6>1. p + 1 \in DOMAIN rsp' /\ ~(p + 1 \in DOMAIN rsp)
            <7> DEFINE m == Len(rsp)
                       n == Len(Cancelled)
            <7>1. m \in Nat /\ n \in Nat /\ p = m
              BY <1>2, <1>3, <4>1
            <7>2. DOMAIN rsp = 1 .. m /\ DOMAIN rsp' = 1 .. m + n /\ p # m + n
              BY <1>3, <5>2
            <7> HIDE DEF m, n
            <7> QED
              BY <7>1, <7>2
          <6>2. rsp'[p + 1].part = "cancelled"
            BY <1>4, <6>1
          <6> QED
            BY <3>1, <3>2, <6>2 DEF NoReply
        <5> QED
          BY <5>1, <5>2
      <4>2. CASE p # Len(rsp)
        <5>1. rsp'[p + 1] = rsp[p + 1]
          <6>1. p + 1 \in 1 .. Len(rsp)
            BY <1>3, <2>1, <4>2
          <6> QED
            BY <1>3, <1>5, <6>1
        <5> QED
          BY <3>1, <3>2, <4>2, <5>1 DEF NoReply
      <4> QED
        BY <4>1, <4>2
    <3> QED
      BY <1>8, <3>1, <3>2 DEF NoReply
  <2>2. CASE p \in DOMAIN rsp' /\ ~(p \in DOMAIN rsp)
    BY <1>4, <2>2 DEF NoReply
  <2>3. CASE ~(p \in DOMAIN rsp')
    <3>1. p > Len(rsp')
      BY <1>2, <1>3, <2>3
    <3> QED
      BY <3>1 DEF NoReply
  <2> QED
    BY <2>1, <2>2, <2>3
<1>9. LastFailed' = LastFailed /\ Good' = Good
  BY <1>1 DEF LastFailed, Good
<1>10. LastFailed \/ Len(ran) = request.num
  BY <1>1, AnsweredWhole DEF Aborted, BatchInv
<1>11. ASSUME NEW c \in 1 .. Good, NEW p \in Nat \ {0}, ReplyAt(rsp', c - 1, p)
       PROVE  WholeReply(rsp', c, pending[c], p)
  BY <1>1, <1>6, <1>7, <1>11 DEF RepliesInv
<1>12. ASSUME LastFailed, NEW p \in Nat \ {0}, ReplyAt(rsp', Good, p)
       PROVE  NoReply(rsp', p)
  BY <1>1, <1>6, <1>8, <1>12 DEF RepliesInv
<1> QED
  BY <1>1, <1>9, <1>10, <1>11, <1>12 DEF RepliesInv

LEMMA RepliesStep ==
  ASSUME TypeInv, TypeInv', BatchInv, RepliesInv, [Next]_vars
  PROVE  RepliesInv'
\* The request goes out: no reply yet.
<1>1. ASSUME NEW m, NEW kinds, Transact(m, kinds)
      PROVE  RepliesInv'
  <2>1. phase' = "sent" /\ ran' = <<>> /\ rsp' = <<>>
    BY <1>1 DEF Transact
  <2>2. ~LastFailed' /\ Good' = 0 /\ DOMAIN rsp' = {} /\ Len(rsp') = 0
    BY <2>1 DEF LastFailed, Good
  <2>3. ASSUME NEW p, ReplyAt(rsp', 0, p)
        PROVE  p = 1
    BY <2>2, <2>3 DEF ReplyAt
  <2> QED
    BY <2>1, <2>2, <2>3 DEF RepliesInv
<1>2. ASSUME phase' \notin {"sent", "replied"}
      PROVE  RepliesInv'
  BY <1>2 DEF RepliesInv
<1>3. ASSUME UNCHANGED <<phase, pending, request, ran, rsp>>
      PROVE  RepliesInv'
  <2>1. LastFailed' = LastFailed /\ Good' = Good
    BY <1>3 DEF LastFailed, Good
  <2> QED
    BY <1>3, <2>1 DEF RepliesInv
<1>4. ASSUME NEW abortOnError \in BOOLEAN, BatchBegin(abortOnError)
      PROVE  RepliesInv'
  BY <1>2, <1>4 DEF BatchBegin
<1>5. ASSUME NEW kind \in Kinds, Single(kind)
      PROVE  RepliesInv'
  BY <1>1, <1>5 DEF Single
<1>6. ASSUME NEW kind \in Kinds, Issue(kind)
      PROVE  RepliesInv'
  BY <1>2, <1>6 DEF Issue
<1>7. CASE BatchEnd
  BY <1>1, <1>2, <1>7 DEF BatchEnd
<1>8. CASE ProcessResponse
  <2>1. UNCHANGED <<phase, pending, request, ran, rsp>> \/ phase' = "crashed"
    BY <1>8 DEF ProcessResponse, ResponseFails, Decoded, serverVars
  <2> QED
    BY <1>2, <1>3, <2>1
<1>9. CASE Return \/ ConnectionFails
  BY <1>2, <1>9 DEF Return, ConnectionFails
<1>10. CASE UNCHANGED vars
  BY <1>3, <1>10 DEF vars, clientVars, serverVars
<1> QED
  BY <1>4, <1>5, <1>6, <1>7, <1>8, <1>9, <1>10, RepliesRun, RepliesSent DEF Next

\* The client's turn: the reply it decodes is the one to the command it counts.
LEMMA DecodeStep ==
  ASSUME TypeInv, BatchInv, RepliesInv, DecodeInv, [Next]_vars
  PROVE  DecodeInv'
<1>1. ASSUME NEW m, NEW kinds, Transact(m, kinds)
      PROVE  DecodeInv'
  BY <1>1 DEF Transact, DecodeInv
<1>2. ASSUME phase' \notin {"sent", "replied"}
      PROVE  DecodeInv'
  BY <1>2 DEF DecodeInv
<1>3. CASE \E abortOnError \in BOOLEAN : BatchBegin(abortOnError)
  BY <1>2, <1>3 DEF BatchBegin
<1>4. CASE \E kind \in Kinds : Single(kind) \/ Issue(kind)
  BY <1>1, <1>2, <1>4 DEF Single, Issue
<1>5. CASE BatchEnd
  BY <1>1, <1>2, <1>5 DEF BatchEnd
<1>6. CASE HandleCommand
  BY <1>6 DEF HandleCommand, clientVars, DecodeInv
<1>7. CASE SendReply
  <2>1. phase' = "replied" /\ completed' = 0 /\ rpos' = 1 /\ result' /\ UNCHANGED ran
    BY <1>7 DEF SendReply, DecodeInv
  <2>2. Good' = Good /\ Good \in Nat
    BY <2>1, GoodIs DEF Good, LastFailed
  <2>3. ReplyAt(rsp', completed', rpos')
    BY <2>1 DEF ReplyAt
  <2> QED
    BY <2>1, <2>2, <2>3 DEF DecodeInv
<1>8. ASSUME ProcessResponse, phase' = "replied", ~ReadCut'
      PROVE  /\ completed' <= Good'
             /\ ReplyAt(rsp', completed', rpos')
             /\ ~result' => completed' = Good' /\ LastFailed'
  <2> DEFINE kind == pending[completed + 1]
  <2>1. /\ phase = "replied" /\ result /\ completed < Len(pending)
        /\ UNCHANGED <<pending, request, ran, rsp>>
    BY <1>8 DEF ProcessResponse, serverVars
  <2>2. /\ ~ReadCut /\ LastFailed' = LastFailed /\ Good' = Good
    BY <1>8, <2>1 DEF ReadCut, LastFailed, Good
  <2>3. completed <= Good /\ ReplyAt(rsp, completed, rpos)
    BY <2>1, <2>2 DEF DecodeInv
  <2>4. /\ Good \in Nat /\ Len(ran) \in Nat /\ completed \in Nat /\ rpos \in Nat \ {0}
        /\ rsp \in Seq(ReplyPart) /\ Len(rsp) \in Nat /\ Len(rsp) <= RspCap
        /\ DOMAIN rsp = 1 .. Len(rsp)
        /\ kind \in Kinds
    BY <2>1, GoodIs DEF TypeInv, TypeOK
  <2>5. Len(ReplyParts(kind)) = CASE kind = "plain" -> 1 [] kind = "regs" -> 2 [] kind = "data" -> 3
    BY <2>4, ReplyPartsAre
  <2>6. CASE completed < Good
    <3>1. /\ completed + 1 \in 1 .. Good /\ completed + 1 - 1 = completed
      BY <2>4, <2>6
    <3>2. WholeReply(rsp, completed + 1, kind, rpos)
      BY <2>1, <2>3, <2>4, <3>1 DEF RepliesInv
    <3>3. /\ rsp[rpos].part = "ok" /\ rsp[rpos].kind = kind /\ rsp[rpos].op = completed + 1
          /\ BodyPresent(kind) /\ rpos \in DOMAIN rsp
      BY <3>2 DEF WholeReply, BodyPresent
    <3>4. Decoded(Len(ReplyParts(kind)))
      <4> HIDE DEF kind
      <4> QED
        BY <1>8, <2>4, <3>3 DEF ProcessResponse, kind
    <3>5. /\ completed' = completed + 1 /\ rpos' = rpos + Len(ReplyParts(kind)) /\ result'
      BY <2>1, <3>4 DEF Decoded
    <3>6. ReplyAt(rsp', completed', rpos')
      BY <2>1, <3>3, <3>5 DEF ReplyAt
    <3> QED
      BY <2>2, <2>4, <2>6, <3>5, <3>6
  <2>7. CASE completed = Good
    <3>1. LastFailed
      BY <2>1, <2>4, <2>7, GoodIs DEF RepliesInv, BatchInv, InStep
    <3>2. NoReply(rsp, rpos)
      BY <2>1, <2>3, <2>4, <2>7, <3>1 DEF RepliesInv
    <3>3. ~(rpos > Len(rsp)) /\ rsp[rpos].part = "ok" => rsp[rpos].kind = "regs" /\ rpos = RspCap
      BY <2>2, <2>4, <3>2 DEF NoReply, ReadCut
    <3>4. ResponseFails
      <4>1. CASE rpos > Len(rsp) \/ rsp[rpos].part # "ok" \/ rsp[rpos].kind # kind
        BY <1>8, <4>1 DEF ProcessResponse
      <4>2. CASE ~(rpos > Len(rsp) \/ rsp[rpos].part # "ok" \/ rsp[rpos].kind # kind)
        <5>1. kind = "regs" /\ ~BodyPresent(kind)
          BY <2>4, <2>5, <3>3, <4>2, BatchAssumption DEF BodyPresent
        <5> QED
          BY <1>8, <4>2, <5>1 DEF ProcessResponse
      <4> QED
        BY <4>1, <4>2
    <3> QED
      BY <2>1, <2>2, <2>3, <2>7, <3>1, <3>4 DEF ResponseFails
  <2> QED
    BY <2>3, <2>4, <2>6, <2>7
<1>9. CASE ProcessResponse
  <2>1. phase' \in {"replied", "crashed"}
    BY <1>9 DEF ProcessResponse, ResponseFails, Decoded
  <2> QED
    BY <1>8, <1>9, <2>1 DEF DecodeInv
<1>10. CASE Return \/ ConnectionFails
  BY <1>2, <1>10 DEF Return, ConnectionFails
<1>11. CASE UNCHANGED vars
  <2>1. UNCHANGED <<phase, completed, rpos, result, ran, rsp>>
    BY <1>11 DEF vars, clientVars, serverVars
  <2>2. LastFailed' = LastFailed /\ Good' = Good /\ ReadCut' = ReadCut
    BY <2>1 DEF LastFailed, Good, ReadCut
  <2> QED
    BY <2>1, <2>2 DEF DecodeInv
<1> QED
  BY <1>3, <1>4, <1>5, <1>6, <1>7, <1>9, <1>10, <1>11 DEF Next

LEMMA SucceededFirstIs ==
  ASSUME TypeInv, BatchInv, phase = "replied"
  PROVE  SucceededFirst = Good
<1> DEFINE failures == {i \in DOMAIN ran : ~ran[i]}
<1>1. /\ Len(ran) \in Nat /\ DOMAIN ran = 1 .. Len(ran)
      /\ Good = IF LastFailed THEN Len(ran) - 1 ELSE Len(ran)
      /\ \A i \in 1 .. Len(ran) - 1 : ran[i]
  BY GoodIs DEF BatchInv, InStep
<1>2. ASSUME NEW i \in failures
      PROVE  i = Len(ran) /\ LastFailed
  <2>1. i \in 1 .. Len(ran) /\ ~ran[i]
    BY <1>1
  <2>2. ~(i \in 1 .. Len(ran) - 1)
    BY <1>1, <2>1
  <2>3. i = Len(ran) /\ Len(ran) # 0
    <3> DEFINE n == Len(ran)
    <3>1. n \in Nat /\ i \in 1 .. n /\ ~(i \in 1 .. n - 1)
      BY <1>1, <2>1, <2>2
    <3> HIDE DEF n
    <3>2. i = n /\ n # 0
      BY <3>1
    <3> QED
      BY <3>2 DEF n
  <2>4. ran # <<>>
    BY <2>3
  <2> QED
    BY <2>1, <2>3, <2>4 DEF LastFailed, Last
<1>3. CASE LastFailed
  <2>1. Len(ran) \in 1 .. Len(ran) /\ ~ran[Len(ran)]
    BY <1>1, <1>3, GoodIs DEF LastFailed, Last
  <2>2. Len(ran) \in failures
    BY <1>1, <2>1
  <2> HIDE DEF failures
  <2>3. failures = {Len(ran)}
    BY <1>2, <2>2
  <2>4. (CHOOSE i \in failures : \A j \in failures : i <= j) = Len(ran)
    <3>1. \E i \in failures : \A j \in failures : i <= j
      <4>1. Len(ran) \in Nat
        BY GoodIs
      <4> QED
        BY <2>3, <4>1
    <3>2. (CHOOSE i \in failures : \A j \in failures : i <= j) \in failures
      BY <3>1
    <3> QED
      BY <2>3, <3>2
  <2> QED
    BY <1>1, <1>3, <2>3, <2>4 DEF SucceededFirst, failures
<1>4. CASE ~LastFailed
  <2> HIDE DEF failures
  <2>1. failures = {}
    BY <1>2, <1>4
  <2> QED
    BY <1>1, <1>4, <2>1 DEF SucceededFirst, failures
<1> QED
  BY <1>3, <1>4

\* The caller is told what happened: opsCompleted is the number of commands that
\* succeeded before the first failure, and the call succeeds when all did.
THEOREM CompletedExactAlways == Spec => []CompletedExact
<1>1. Init => RepliesInv /\ DecodeInv
  BY DEF Init, RepliesInv, DecodeInv
<1>2. TypeInv /\ BatchInv /\ RepliesInv /\ DecodeInv => CompletedExact
  <2> SUFFICES ASSUME TypeInv, BatchInv, RepliesInv, DecodeInv, AllProcessed, ~ReadCut
               PROVE  completed = Good /\ (result <=> completed = request.num)
    BY SucceededFirstIs DEF CompletedExact, AllProcessed, TypeInv, TypeOK
  <2>1. /\ phase = "replied" /\ (~result \/ completed = request.num)
        /\ completed <= Good /\ (~result => completed = Good /\ LastFailed)
        /\ Len(ran) <= request.num
    BY DEF AllProcessed, DecodeInv, BatchInv, InStep, TypeInv
  <2>2. /\ Good \in Nat /\ Len(ran) \in Nat /\ completed \in Nat /\ request.num \in Nat
        /\ Good = IF LastFailed THEN Len(ran) - 1 ELSE Len(ran)
    BY GoodIs DEF TypeInv, TypeOK
  <2> QED
    BY <2>1, <2>2
<1>3. TypeInv /\ TypeInv' /\ BatchInv /\ RepliesInv /\ DecodeInv /\ [Next]_vars
        => RepliesInv' /\ DecodeInv'
  BY RepliesStep, DecodeStep
<1> QED
  BY <1>1, <1>2, <1>3, BatchInitially, TypeStep, BatchStep, PTL DEF Spec
=============================================================================
