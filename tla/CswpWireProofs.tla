-------------------------- MODULE CswpWireProofs ----------------------------
(***************************************************************************)
(* Theorems about messages, for every command, all values a message can    *)
(* have, requests and replies of any length, every size of the buffers and *)
(* every way a stream cuts them: a message arrives whole, and what one     *)
(* side decodes is what the other encoded.                                 *)
(*                                                                         *)
(* What is computed byte by byte or field by field is proved by induction  *)
(* over sets of numbers (Induction), from the well-foundedness of Nat.     *)
(***************************************************************************)
EXTENDS CswpWire, WellFoundedInduction, TLAPS

-----------------------------------------------------------------------------
(* The requests a client may make, and the answers it may get *)

\* Any commands, with any values their fields can have.
IsRequest(request) ==
  /\ request \in Seq(Range(request))
  /\ \A k \in DOMAIN request :
       /\ request[k] = [name |-> request[k].name, vals |-> request[k].vals]
       /\ request[k].name \in Commands
       /\ WellFormed(ClientLayout[request[k].name].cmd, request[k].vals)

\* The name of the command whose turn it is.
NextName == CommandOf(GetVarint(cmd, cmdPos).val)

\* Any client, any target, and writes and reads of any number of bytes.
WireNext ==
  \/ \E request : \E m \in BatchModes : IsRequest(request) /\ ClientSends(request, m)
  \/ \E n \in Nat \ {0} : WriteSome(n)
  \/ \E n \in Nat \ {0} : ReadSome(n)
  \/ ReceiveTransfer
  \/ PeerCloses
  \/ EndOfFile
  \/ ServerReads
  \/ \E error \in 0 .. VarintMax : \E vals :
       /\ error = NONE => WellFormed(ServerLayout[NextName].rsp, vals)
       /\ HandleCommand(error, vals)
  \/ ServerReplies
  \/ ClientReads
  \/ ProcessResponse

WireSpec == WireInit /\ [][WireNext]_wireVars

-----------------------------------------------------------------------------
(* Induction over numbers *)

\* A set of numbers that is not empty has a least one.
LEMMA Least ==
  ASSUME NEW T, T \subseteq Nat, T # {}
  PROVE  \E m \in T : \A n \in T : m <= n
<1>1. PICK x \in T : \A y \in T : ~(<<y, x>> \in OpToRel(<, Nat))
  BY NatLessThanWellFounded, WFMin
<1>2. \A y \in T : ~(y < x)
  <2>1. TAKE y \in T
  <2>2. y \in Nat /\ x \in Nat
    OBVIOUS
  <2>3. y < x => <<y, x>> \in OpToRel(<, Nat)
    BY <2>2 DEF OpToRel
  <2>. QED  BY <2>3, <1>1
<1>. QED  BY <1>2

\* Induction, for a set of numbers.
LEMMA Induction ==
  ASSUME NEW T, 0 \in T, \A n \in Nat : n \in T => n + 1 \in T
  PROVE  \A n \in Nat : n \in T
<1>. DEFINE U == Nat \ T
<1>. SUFFICES ASSUME U # {} PROVE FALSE
  OBVIOUS
<1>1. PICK m \in U : \A n \in U : m <= n
  BY Least
<1>2. m # 0 /\ m - 1 \in Nat /\ m - 1 \notin U
  BY <1>1
<1>. QED  BY <1>2

\* As Induction, from all smaller numbers.
LEMMA StrongInduction ==
  ASSUME NEW T, \A n \in Nat : (\A m \in 0 .. n - 1 : m \in T) => n \in T
  PROVE  \A n \in Nat : n \in T
<1>. DEFINE U == Nat \ T
<1>. SUFFICES ASSUME U # {} PROVE FALSE
  OBVIOUS
<1>1. PICK m \in U : \A n \in U : m <= n
  BY Least
<1>2. \A k \in 0 .. m - 1 : k \in T
  BY <1>1
<1>. QED  BY <1>1, <1>2

\* A function defined by recursion on the natural numbers, the step being a function.
IsStep(T, base, step) == base \in T /\ step \in [Nat \X T -> T]
IsRecursive(T, base, step, f) ==
  /\ f \in [Nat -> T]
  /\ f[0] = base
  /\ \A n \in Nat : f[n + 1] = step[<<n, f[n]>>]

\* Such a function exists: the tables up to each number, put together.
LEMMA Recursion ==
  ASSUME NEW T, NEW base, NEW step, IsStep(T, base, step)
  PROVE  \E f : IsRecursive(T, base, step, f)
<1>. USE DEF IsStep
<1>. DEFINE Upto(m, f) == /\ f \in [0 .. m -> T]
                          /\ f[0] = base
                          /\ \A n \in 0 .. m - 1 : f[n + 1] = step[<<n, f[n]>>]
            Has == {m \in Nat : \E f \in [0 .. m -> T] : Upto(m, f)}
<1>1. \A m \in Nat : m \in Has
  <2>1. 0 \in Has
    <3>1. Upto(0, [n \in 0 .. 0 |-> base])
      OBVIOUS
    <3>. QED  BY <3>1
  <2>2. ASSUME NEW m \in Nat, m \in Has
        PROVE  m + 1 \in Has
    <3>1. PICK f \in [0 .. m -> T] : Upto(m, f)
      BY <2>2
    <3>. DEFINE g == [n \in 0 .. m + 1 |-> IF n = m + 1 THEN step[<<m, f[m]>>] ELSE f[n]]
    <3>2. f[m] \in T /\ step[<<m, f[m]>>] \in T
      BY <3>1
    <3>3. g \in [0 .. m + 1 -> T] /\ g[0] = base
      BY <3>1, <3>2
    <3>4. ASSUME NEW n \in 0 .. m
          PROVE  g[n + 1] = step[<<n, g[n]>>]
      <4>1. CASE n = m
        <5>1. m \in 0 .. m + 1 /\ m + 1 \in 0 .. m + 1 /\ m # m + 1
          OBVIOUS
        <5>2. g[m + 1] = step[<<m, f[m]>>] /\ g[m] = f[m]
          BY <5>1
        <5>. HIDE DEF g
        <5>. QED  BY <5>2, <4>1
      <4>2. CASE n # m
        <5>1. n \in 0 .. m - 1 /\ n \in 0 .. m + 1 /\ n + 1 \in 0 .. m + 1 /\ n + 1 # m + 1
              /\ n # m + 1
          BY <4>2
        <5>2. g[n + 1] = f[n + 1] /\ g[n] = f[n]
          BY <5>1
        <5>3. f[n + 1] = step[<<n, f[n]>>]
          BY <5>1, <3>1
        <5>. QED  BY <5>2, <5>3
      <4>. QED  BY <4>1, <4>2
    <3>5. Upto(m + 1, g)
      <4>1. 0 .. (m + 1) - 1 = 0 .. m
        BY <2>2
      <4>. QED  BY <3>3, <3>4, <4>1
    <3>. HIDE DEF g, Upto
    <3>. QED  BY <3>3, <3>5
  <2>. HIDE DEF Has
  <2>. QED  BY <2>1, <2>2, Induction
<1>2. ASSUME NEW m \in Nat, NEW k \in Nat, k >= m, NEW f, NEW g, Upto(m, f), Upto(k, g)
      PROVE  \A n \in 0 .. m : f[n] = g[n]
  <2>. DEFINE Q == {n \in Nat : n <= m => f[n] = g[n]}
  <2>1. 0 \in Q
    BY <1>2
  <2>2. ASSUME NEW n \in Nat, n \in Q
        PROVE  n + 1 \in Q
    <3>. SUFFICES ASSUME n + 1 <= m PROVE f[n + 1] = g[n + 1]
      OBVIOUS
    <3>1. n \in 0 .. m - 1 /\ n \in 0 .. k - 1
      BY <1>2
    <3>2. f[n + 1] = step[<<n, f[n]>>]
      BY <3>1, <1>2
    <3>3. g[n + 1] = step[<<n, g[n]>>]
      BY <3>1, <1>2
    <3>4. f[n] = g[n]
      BY <2>2, <3>1
    <3>. QED  BY <3>2, <3>3, <3>4
  <2>. HIDE DEF Q
  <2>3. \A n \in Nat : n \in Q
    BY <2>1, <2>2, Induction
  <2>. QED  BY <2>3 DEF Q
<1>. DEFINE h == [m \in Nat |-> CHOOSE f \in [0 .. m -> T] : Upto(m, f)]
            r == [m \in Nat |-> h[m][m]]
<1>3. ASSUME NEW m \in Nat
      PROVE  Upto(m, h[m])
  <2>1. \E f \in [0 .. m -> T] : Upto(m, f)
    BY <1>1
  <2>. QED  BY <2>1
<1>. HIDE DEF h
<1>4. r \in [Nat -> T] /\ r[0] = base
  BY <1>3
<1>5. ASSUME NEW n \in Nat
      PROVE  r[n + 1] = step[<<n, r[n]>>]
  <2>1. Upto(n, h[n]) /\ Upto(n + 1, h[n + 1])
    BY <1>3
  <2>2. h[n][n] = h[n + 1][n]
    <3>1. n \in 0 .. n /\ n + 1 >= n /\ n + 1 \in Nat
      OBVIOUS
    <3>. HIDE DEF Upto
    <3>. QED  BY <2>1, <1>2, <3>1
  <2>3. n \in 0 .. (n + 1) - 1
    OBVIOUS
  <2>4. h[n + 1][n + 1] = step[<<n, h[n + 1][n]>>]
    BY <2>1, <2>3
  <2>. QED  BY <2>2, <2>4
<1>. QED  BY <1>4, <1>5 DEF IsRecursive

-----------------------------------------------------------------------------
(* Sequences put one after another *)

\* What FlattenSeq is given.
Pieces(T) == Seq(Seq(T))

\* What FlattenSeq computes, as a function on all numbers.
LEMMA Flattening ==
  ASSUME NEW T, NEW s \in Pieces(T), s # <<>>
  PROVE  \E f \in [1 .. Len(s) -> Seq(T)] :
           /\ f[1] = s[1]
           /\ \A i \in 2 .. Len(s) : f[i] = f[i - 1] \o s[i]
           /\ FlattenSeq(s) = f[Len(s)]
<1>. DEFINE step == [p \in Nat \X Seq(T) |->
                       IF p[1] + 2 \in 1 .. Len(s) THEN p[2] \o s[p[1] + 2] ELSE p[2]]
            Body(f) == [i \in 1 .. Len(s) |-> IF i = 1 THEN s[i] ELSE f[i - 1] \o s[i]]
<1>1. /\ Len(s) \in Nat /\ Len(s) > 0 /\ Len(s) # 0 /\ 1 \in 1 .. Len(s)
      /\ \A i \in 1 .. Len(s) : s[i] \in Seq(T)
  BY DEF Pieces
<1>2. step \in [Nat \X Seq(T) -> Seq(T)]
  <2>1. ASSUME NEW p \in Nat \X Seq(T)
        PROVE  step[p] \in Seq(T)
    BY <1>1
  <2>. QED  BY <2>1
<1>3. PICK r : IsRecursive(Seq(T), s[1], step, r)
  <2>1. IsStep(Seq(T), s[1], step)
    BY <1>1, <1>2 DEF IsStep
  <2>. QED  BY <2>1, Recursion
<1>. DEFINE g == [i \in 1 .. Len(s) |-> r[i - 1]]
<1>4. r \in [Nat -> Seq(T)] /\ g[1] = s[1]
  <2>1. 1 - 1 = 0 /\ \A i \in 1 .. Len(s) : i - 1 \in Nat
    BY <1>1
  <2>. HIDE DEF step
  <2>. QED  BY <2>1, <1>1, <1>3 DEF IsRecursive
<1>5. ASSUME NEW i \in 2 .. Len(s)
      PROVE  g[i] = g[i - 1] \o s[i]
  <2>1. i - 2 \in Nat /\ (i - 2) + 1 = i - 1 /\ (i - 2) + 2 = i /\ i \in 1 .. Len(s)
        /\ i - 1 \in 1 .. Len(s) /\ (i - 1) - 1 = i - 2
    BY <1>1
  <2>2. r[i - 1] = step[<<i - 2, r[i - 2]>>]
    BY <2>1, <1>3 DEF IsRecursive
  <2>3. <<i - 2, r[i - 2]>> \in Nat \X Seq(T)
    BY <2>1, <1>4
  <2>4. step[<<i - 2, r[i - 2]>>] = r[i - 2] \o s[i]
    BY <2>1, <2>3
  <2>5. g[i] = r[i - 1] /\ g[i - 1] = r[i - 2]
    BY <2>1
  <2>. QED  BY <2>2, <2>4, <2>5
<1>6. g = Body(g)
  <2>1. ASSUME NEW i \in 1 .. Len(s)
        PROVE  g[i] = IF i = 1 THEN s[i] ELSE g[i - 1] \o s[i]
    <3>1. CASE i = 1
      BY <3>1, <1>4
    <3>2. CASE i # 1
      <4>1. i \in 2 .. Len(s)
        BY <3>2, <1>1
      <4>. QED  BY <4>1, <3>2, <1>5
    <3>. QED  BY <3>1, <3>2
  <2>2. DOMAIN g = 1 .. Len(s)
    OBVIOUS
  <2>. QED  BY <2>1, <2>2
<1>. DEFINE F == CHOOSE f : f = Body(f)
<1>. HIDE DEF g, step
<1>7. F = Body(F)
  BY <1>6, Zenon
<1>8. FlattenSeq(s) = F[Len(s)]
  BY <1>1, Zenon DEF FlattenSeq
<1>. HIDE DEF F
<1>9. F[1] = s[1] /\ \A i \in 2 .. Len(s) : F[i] = F[i - 1] \o s[i]
  <2>1. 1 \in 1 .. Len(s) /\ \A i \in 2 .. Len(s) : i \in 1 .. Len(s) /\ i # 1
    BY <1>1
  <2>. QED  BY <2>1, <1>7
<1>10. F \in [1 .. Len(s) -> Seq(T)]
  <2>. DEFINE Q == {n \in Nat : n + 1 \in 1 .. Len(s) => F[n + 1] \in Seq(T)}
  <2>1. 0 \in Q
    BY <1>9, <1>1
  <2>2. ASSUME NEW n \in Nat, n \in Q
        PROVE  n + 1 \in Q
    <3>. SUFFICES ASSUME (n + 1) + 1 \in 1 .. Len(s) PROVE F[(n + 1) + 1] \in Seq(T)
      OBVIOUS
    <3>1. (n + 1) + 1 \in 2 .. Len(s) /\ n + 1 \in 1 .. Len(s) /\ ((n + 1) + 1) - 1 = n + 1
      BY <1>1
    <3>2. F[n + 1] \in Seq(T) /\ s[(n + 1) + 1] \in Seq(T)
      BY <2>2, <3>1, <1>1
    <3>3. F[(n + 1) + 1] = F[n + 1] \o s[(n + 1) + 1]
      BY <3>1, <1>9
    <3>. QED  BY <3>2, <3>3
  <2>. HIDE DEF Q
  <2>3. \A n \in Nat : n \in Q
    BY <2>1, <2>2, Induction
  <2>4. ASSUME NEW i \in 1 .. Len(s)
        PROVE  F[i] \in Seq(T)
    <3>1. i - 1 \in Nat /\ (i - 1) + 1 = i
      BY <1>1
    <3>2. i - 1 \in Q
      BY <3>1, <2>3
    <3>. QED  BY <3>1, <3>2 DEF Q
  <2>5. F = [i \in 1 .. Len(s) |-> F[i]]
    BY <1>7
  <2>. QED  BY <2>4, <2>5
<1>. QED  BY <1>8, <1>9, <1>10

LEMMA FlattenEmpty ==
  FlattenSeq(<<>>) = <<>>
<1>1. Len(<<>>) = 0
  OBVIOUS
<1>. QED  BY <1>1, Zenon DEF FlattenSeq

LEMMA FlattenIsSeq ==
  ASSUME NEW T, NEW s \in Pieces(T)
  PROVE  FlattenSeq(s) \in Seq(T)
<1>1. CASE s = <<>>
  <2>1. FlattenSeq(s) = <<>>
    BY <1>1, FlattenEmpty, Zenon
  <2>. QED  BY <2>1
<1>2. CASE s # <<>>
  <2>1. PICK f \in [1 .. Len(s) -> Seq(T)] : FlattenSeq(s) = f[Len(s)]
    BY <1>2, Flattening
  <2>2. Len(s) \in 1 .. Len(s)
    BY <1>2 DEF Pieces
  <2>. QED  BY <2>1, <2>2
<1>. QED  BY <1>1, <1>2

\* FlattenSeq of one piece more.
LEMMA FlattenAppend ==
  ASSUME NEW T, NEW s \in Pieces(T), NEW x \in Seq(T)
  PROVE  FlattenSeq(Append(s, x)) = FlattenSeq(s) \o x
<1>. DEFINE t == Append(s, x)
<1>1. /\ t \in Pieces(T) /\ t # <<>> /\ Len(t) = Len(s) + 1 /\ Len(s) \in Nat /\ t[Len(t)] = x
      /\ \A i \in 1 .. Len(s) : t[i] = s[i]
  <2>1. s \in Seq(Seq(T)) /\ Len(s) \in Nat
    BY DEF Pieces
  <2>2. t \in Seq(Seq(T)) /\ Len(t) = Len(s) + 1 /\ t[Len(s) + 1] = x
    BY <2>1
  <2>3. \A i \in 1 .. Len(s) : t[i] = s[i]
    BY <2>1
  <2>4. t # <<>>
    <3>. HIDE DEF t
    <3>1. Len(<<>>) = 0 /\ Len(s) + 1 # 0
      BY <2>1
    <3>. QED  BY <2>2, <3>1
  <2>. QED  BY <2>1, <2>2, <2>3, <2>4 DEF Pieces
<1>. HIDE DEF t
<1>2. PICK g \in [1 .. Len(t) -> Seq(T)] :
        /\ g[1] = t[1]
        /\ \A i \in 2 .. Len(t) : g[i] = g[i - 1] \o t[i]
        /\ FlattenSeq(t) = g[Len(t)]
  BY <1>1, Flattening
<1>3. CASE s = <<>>
  <2>1. Len(t) = 1
    BY <1>1, <1>3
  <2>2. FlattenSeq(t) = x
    BY <1>1, <1>2, <2>1
  <2>. QED  BY <2>2, <1>3, FlattenEmpty DEF t
<1>4. CASE s # <<>>
  <2>1. PICK f \in [1 .. Len(s) -> Seq(T)] :
          /\ f[1] = s[1]
          /\ \A i \in 2 .. Len(s) : f[i] = f[i - 1] \o s[i]
          /\ FlattenSeq(s) = f[Len(s)]
    BY <1>4, Flattening
  <2>2. Len(s) > 0
    BY <1>4 DEF Pieces
  <2>. DEFINE Q == {n \in Nat : n + 1 \in 1 .. Len(s) => g[n + 1] = f[n + 1]}
  <2>3. 0 \in Q
    BY <2>1, <2>2, <1>1, <1>2
  <2>4. ASSUME NEW n \in Nat, n \in Q
        PROVE  n + 1 \in Q
    <3>. SUFFICES ASSUME (n + 1) + 1 \in 1 .. Len(s) PROVE g[(n + 1) + 1] = f[(n + 1) + 1]
      OBVIOUS
    <3>1. /\ (n + 1) + 1 \in 2 .. Len(s) /\ (n + 1) + 1 \in 2 .. Len(t)
          /\ n + 1 \in 1 .. Len(s) /\ ((n + 1) + 1) - 1 = n + 1
      BY <1>1
    <3>2. g[n + 1] = f[n + 1] /\ t[(n + 1) + 1] = s[(n + 1) + 1]
      BY <2>4, <3>1, <1>1
    <3>3. g[(n + 1) + 1] = g[n + 1] \o t[(n + 1) + 1]
      BY <3>1, <1>2
    <3>4. f[(n + 1) + 1] = f[n + 1] \o s[(n + 1) + 1]
      BY <3>1, <2>1
    <3>. QED  BY <3>2, <3>3, <3>4
  <2>. HIDE DEF Q
  <2>5. \A n \in Nat : n \in Q
    BY <2>3, <2>4, Induction
  <2>6. g[Len(s)] = f[Len(s)]
    <3>1. Len(s) - 1 \in Nat /\ (Len(s) - 1) + 1 = Len(s) /\ Len(s) \in 1 .. Len(s)
      BY <2>2, <1>1
    <3>2. Len(s) - 1 \in Q
      BY <3>1, <2>5
    <3>. QED  BY <3>1, <3>2 DEF Q
  <2>7. g[Len(t)] = g[Len(s)] \o x
    <3>1. Len(t) \in 2 .. Len(t) /\ Len(t) - 1 = Len(s)
      BY <1>1, <2>2
    <3>. QED  BY <3>1, <1>1, <1>2
  <2>. QED  BY <2>1, <2>6, <2>7, <1>2 DEF t
<1>. QED  BY <1>3, <1>4

\* The pieces up to one are the pieces before it and that one.
LEMMA FlattenUpto ==
  ASSUME NEW T, NEW s \in Pieces(T), NEW k \in 1 .. Len(s)
  PROVE  /\ SubSeq(s, 1, k - 1) \in Pieces(T) /\ s[k] \in Seq(T)
         /\ FlattenSeq(SubSeq(s, 1, k)) = FlattenSeq(SubSeq(s, 1, k - 1)) \o s[k]
<1>1. /\ SubSeq(s, 1, k - 1) \in Pieces(T) /\ s[k] \in Seq(T)
      /\ SubSeq(s, 1, k) = Append(SubSeq(s, 1, k - 1), s[k])
  BY DEF Pieces
<1>. QED  BY <1>1, FlattenAppend

-----------------------------------------------------------------------------
(* Where a buffer holds what *)

\* The buffer holds the piece from pos on.
HasAt(buf, pos, piece) ==
  /\ pos + Len(piece) - 1 <= Len(buf)
  /\ \A j \in 1 .. Len(piece) : buf[pos + j - 1] = piece[j]

\* A buffer that holds two pieces holds each at its place.
LEMMA HasBoth ==
  ASSUME NEW T, NEW buf \in Seq(T), NEW pos \in Nat \ {0}, NEW x \in Seq(T), NEW y \in Seq(T),
         HasAt(buf, pos, x \o y)
  PROVE  HasAt(buf, pos, x) /\ HasAt(buf, pos + Len(x), y)
<1>. DEFINE z == x \o y
<1>1. /\ Len(z) = Len(x) + Len(y) /\ Len(x) \in Nat /\ Len(y) \in Nat
      /\ \A j \in 1 .. Len(x) : j \in 1 .. Len(z) /\ z[j] = x[j]
      /\ \A j \in 1 .. Len(y) : Len(x) + j \in 1 .. Len(z) /\ z[Len(x) + j] = y[j]
  OBVIOUS
<1>. HIDE DEF z
<1>2. /\ pos + Len(z) - 1 <= Len(buf)
      /\ \A j \in 1 .. Len(z) : buf[pos + j - 1] = z[j]
  BY DEF HasAt, z
<1>3. HasAt(buf, pos, x)
  BY <1>1, <1>2 DEF HasAt
<1>4. ASSUME NEW j \in 1 .. Len(y)
      PROVE  buf[(pos + Len(x)) + j - 1] = y[j]
  <2>1. Len(x) + j \in 1 .. Len(z) /\ z[Len(x) + j] = y[j]
    BY <1>1
  <2>2. buf[pos + (Len(x) + j) - 1] = z[Len(x) + j]
    BY <1>2, <2>1
  <2>3. pos + (Len(x) + j) - 1 = (pos + Len(x)) + j - 1
    BY <1>1
  <2>. QED  BY <2>1, <2>2, <2>3
<1>5. (pos + Len(x)) + Len(y) - 1 <= Len(buf)
  BY <1>1, <1>2
<1>. QED  BY <1>3, <1>4, <1>5 DEF HasAt

\* A buffer that holds many pieces holds each behind those before it.
LEMMA HasPiece ==
  ASSUME NEW T, NEW buf \in Seq(T), NEW pos \in Nat \ {0}, NEW s \in Pieces(T),
         HasAt(buf, pos, FlattenSeq(s)), NEW k \in 1 .. Len(s)
  PROVE  HasAt(buf, pos + Len(FlattenSeq(SubSeq(s, 1, k - 1))), s[k])
<1>. DEFINE F(n) == FlattenSeq(SubSeq(s, 1, n))
            Q == {n \in Nat : n <= Len(s) /\ HasAt(buf, pos, F(n)) =>
                                \A j \in 1 .. n : HasAt(buf, pos + Len(F(j - 1)), s[j])}
<1>1. 0 \in Q
  OBVIOUS
<1>2. ASSUME NEW n \in Nat, n \in Q
      PROVE  n + 1 \in Q
  <2>. SUFFICES ASSUME n + 1 <= Len(s), HasAt(buf, pos, F(n + 1)), NEW j \in 1 .. n + 1
                PROVE  HasAt(buf, pos + Len(F(j - 1)), s[j])
    OBVIOUS
  <2>1. Len(s) \in Nat /\ n + 1 \in 1 .. Len(s) /\ (n + 1) - 1 = n
    BY DEF Pieces
  <2>2. SubSeq(s, 1, n) \in Pieces(T) /\ s[n + 1] \in Seq(T) /\ F(n + 1) = F(n) \o s[n + 1]
    BY <2>1, FlattenUpto
  <2>3. F(n) \in Seq(T)
    BY <2>2, FlattenIsSeq
  <2>. HIDE DEF F
  <2>4. HasAt(buf, pos, F(n)) /\ HasAt(buf, pos + Len(F(n)), s[n + 1])
    BY <2>2, <2>3, HasBoth
  <2>5. CASE j = n + 1
    BY <2>4, <2>5, <2>1
  <2>6. CASE j # n + 1
    BY <2>4, <2>6, <2>1, <1>2
  <2>. QED  BY <2>5, <2>6
<1>. HIDE DEF Q
<1>3. \A n \in Nat : n \in Q
  BY <1>1, <1>2, Induction
<1>4. F(Len(s)) = FlattenSeq(s) /\ Len(s) \in Nat
  <2>1. Len(s) \in Nat /\ SubSeq(s, 1, Len(s)) = s
    BY DEF Pieces
  <2>. QED  BY <2>1
<1>. HIDE DEF F
<1>5. \A j \in 1 .. Len(s) : HasAt(buf, pos + Len(F(j - 1)), s[j])
  BY <1>3, <1>4 DEF Q
<1>. QED  BY <1>5 DEF F

-----------------------------------------------------------------------------
(* Varints *)

\* The seven bits of a digit and the rest, which is smaller.
LEMMA DividedIsLess ==
  ASSUME NEW n \in Nat
  PROVE  /\ n \div 128 \in Nat /\ n % 128 \in 0 .. 127
         /\ n > 127 => n \div 128 < n
         /\ n = (n % 128) + 128 * (n \div 128)
OBVIOUS

\* The recursion of cswp_buffer_put_varint ends.
LEMMA VarintUnfold ==
  VarintBytes = [n \in Nat |-> IF n > 127 THEN <<128 + (n % 128)>> \o VarintBytes[n \div 128]
                               ELSE <<n>>]
<1>. DEFINE Tables == [Nat -> Seq(Nat)]
            Body(h) == [n \in Nat |-> IF n > 127 THEN <<128 + (n % 128)>> \o h[n \div 128]
                                      ELSE <<n>>]
            base == [n \in Nat |-> <<n>>]
            step == [p \in Nat \X Tables |-> Body(p[2])]
<1>1. ASSUME NEW h \in Tables
      PROVE  Body(h) \in Tables
  <2>1. ASSUME NEW n \in Nat
        PROVE  (IF n > 127 THEN <<128 + (n % 128)>> \o h[n \div 128] ELSE <<n>>) \in Seq(Nat)
    <3>1. n \div 128 \in Nat /\ 128 + (n % 128) \in Nat
      BY DividedIsLess
    <3>2. h[n \div 128] \in Seq(Nat) /\ <<128 + (n % 128)>> \in Seq(Nat) /\ <<n>> \in Seq(Nat)
      BY <3>1
    <3>. QED  BY <3>2
  <2>. QED  BY <2>1
<1>. HIDE DEF Body
<1>2. IsStep(Tables, base, step)
  <2>1. step \in [Nat \X Tables -> Tables]
    <3>1. \A p \in Nat \X Tables : p[2] \in Tables
      OBVIOUS
    <3>. HIDE DEF Tables
    <3>. QED  BY <3>1, <1>1
  <2>2. base \in Tables
    <3>1. \A n \in Nat : <<n>> \in Seq(Nat)
      OBVIOUS
    <3>. QED  BY <3>1
  <2>. QED  BY <2>1, <2>2 DEF IsStep
<1>3. PICK r : IsRecursive(Tables, base, step, r)
  <2>. HIDE DEF Tables, base, step
  <2>. QED  BY <1>2, Recursion
<1>4. r \in [Nat -> Tables] /\ r[0] = base
  BY <1>3 DEF IsRecursive
<1>5. ASSUME NEW m \in Nat
      PROVE  r[m + 1] = Body(r[m])
  <2>. HIDE DEF Tables
  <2>1. <<m, r[m]>> \in Nat \X Tables
    BY <1>4
  <2>2. r[m + 1] = step[<<m, r[m]>>]
    BY <1>3 DEF IsRecursive
  <2>. HIDE DEF Body
  <2>. QED  BY <2>1, <2>2
<1>. HIDE DEF step, Tables
\* One more step of the recursion changes nothing for small numbers.
<1>. DEFINE Stable == {m \in Nat : \A n \in 0 .. m : r[m + 1][n] = r[m][n]}
<1>6. \A m \in Nat : m \in Stable
  <2>1. 0 \in Stable
    <3>1. r[0][0] = <<0>>
      BY <1>4
    <3>2. r[0 + 1] = Body(r[0])
      BY <1>5
    <3>3. Body(r[0])[0] = <<0>>
      BY DEF Body
    <3>. QED  BY <3>1, <3>2, <3>3
  <2>2. ASSUME NEW m \in Nat, m \in Stable
        PROVE  m + 1 \in Stable
    <3>. SUFFICES ASSUME NEW n \in 0 .. m + 1
                  PROVE  r[(m + 1) + 1][n] = r[m + 1][n]
      OBVIOUS
    <3>1. n \in Nat /\ m + 1 \in Nat
      OBVIOUS
    <3>2. r[(m + 1) + 1] = Body(r[m + 1]) /\ r[m + 1] = Body(r[m])
      BY <3>1, <1>5
    <3>3. CASE n > 127
      <4>1. n \div 128 \in 0 .. m
        BY <3>1, <3>3, DividedIsLess
      <4>2. r[m + 1][n \div 128] = r[m][n \div 128]
        BY <4>1, <2>2
      <4>3. Body(r[m + 1])[n] = <<128 + (n % 128)>> \o r[m + 1][n \div 128]
        BY <3>1, <3>3 DEF Body
      <4>4. Body(r[m])[n] = <<128 + (n % 128)>> \o r[m][n \div 128]
        BY <3>1, <3>3 DEF Body
      <4>. QED  BY <3>2, <4>2, <4>3, <4>4
    <3>4. CASE ~(n > 127)
      BY <3>1, <3>2, <3>4 DEF Body
    <3>. QED  BY <3>3, <3>4
  <2>. HIDE DEF Stable
  <2>. QED  BY <2>1, <2>2, Induction
<1>7. ASSUME NEW k \in Nat
      PROVE  \A j \in Nat : r[k + j][k] = r[k][k]
  <2>. DEFINE Q == {j \in Nat : r[k + j][k] = r[k][k]}
  <2>1. 0 \in Q
    OBVIOUS
  <2>2. ASSUME NEW j \in Nat, j \in Q
        PROVE  j + 1 \in Q
    <3>1. k + j \in Stable /\ k \in 0 .. k + j /\ k + (j + 1) = (k + j) + 1
      BY <1>6
    <3>2. r[(k + j) + 1][k] = r[k + j][k]
      BY <3>1
    <3>. QED  BY <3>1, <3>2, <2>2
  <2>. HIDE DEF Q
  <2>3. \A j \in Nat : j \in Q
    BY <2>1, <2>2, Induction
  <2>. QED  BY <2>3 DEF Q
<1>. DEFINE f == [n \in Nat |-> r[n][n]]
<1>8. ASSUME NEW n \in Nat
      PROVE  f[n] = IF n > 127 THEN <<128 + (n % 128)>> \o f[n \div 128] ELSE <<n>>
  <2>1. CASE n > 127
    <3>. DEFINE k == n \div 128
    <3>1. k \in Nat /\ (n - 1) - k \in Nat /\ n - 1 \in Nat
      BY <2>1, DividedIsLess
    <3>2. r[(n - 1) + 1] = Body(r[n - 1]) /\ (n - 1) + 1 = n
      BY <3>1, <1>5
    <3>3. r[n][n] = <<128 + (n % 128)>> \o r[n - 1][k]
      BY <3>2, <2>1 DEF Body
    <3>. HIDE DEF k
    <3>4. r[k + ((n - 1) - k)][k] = r[k][k] /\ k + ((n - 1) - k) = n - 1
      BY <3>1, <1>7
    <3>5. f[n] = r[n][n] /\ f[k] = r[k][k]
      BY <3>1
    <3>6. f[n] = <<128 + (n % 128)>> \o f[k]
      BY <3>3, <3>4, <3>5
    <3>. QED  BY <2>1, <3>6 DEF k
  <2>2. CASE ~(n > 127)
    <3>1. CASE n = 0
      BY <3>1, <1>4
    <3>2. CASE n # 0
      <4>1. n - 1 \in Nat /\ (n - 1) + 1 = n
        BY <3>2
      <4>2. r[n] = Body(r[n - 1])
        BY <4>1, <1>5
      <4>. QED  BY <4>2, <2>2 DEF Body
    <3>. QED  BY <3>1, <3>2
  <2>. QED  BY <2>1, <2>2
<1>9. f = [n \in Nat |-> IF n > 127 THEN <<128 + (n % 128)>> \o f[n \div 128] ELSE <<n>>]
  <2>1. DOMAIN f = Nat /\ f = [n \in Nat |-> f[n]]
    OBVIOUS
  <2>. HIDE DEF f
  <2>. QED  BY <2>1, <1>8
<1>. HIDE DEF f
<1>. QED  BY <1>9, Zenon DEF VarintBytes

LEMMA VarintCases ==
  ASSUME NEW n \in Nat
  PROVE  /\ n > 127 => VarintBytes[n] = <<128 + (n % 128)>> \o VarintBytes[n \div 128]
         /\ ~(n > 127) => VarintBytes[n] = <<n>>
BY VarintUnfold

\* A varint is one byte at least, each below 256.
LEMMA VarintIsBytes ==
  \A n \in Nat : VarintBytes[n] \in Seq(Byte) /\ Len(VarintBytes[n]) > 0
<1>. DEFINE Q == {n \in Nat : VarintBytes[n] \in Seq(Byte) /\ Len(VarintBytes[n]) > 0}
<1>1. ASSUME NEW n \in Nat, \A m \in 0 .. n - 1 : m \in Q
      PROVE  n \in Q
  <2>1. CASE n > 127
    <3>1. n \div 128 \in 0 .. n - 1 /\ 128 + (n % 128) \in Byte
      BY <2>1, DividedIsLess DEF Byte
    <3>2. VarintBytes[n \div 128] \in Seq(Byte)
      BY <3>1, <1>1
    <3>3. <<128 + (n % 128)>> \in Seq(Byte)
      BY <3>1
    <3>4. VarintBytes[n] = <<128 + (n % 128)>> \o VarintBytes[n \div 128]
      BY <2>1, VarintCases
    <3>. DEFINE rest == VarintBytes[n \div 128]
    <3>. HIDE DEF rest
    <3>5. <<128 + (n % 128)>> \o rest \in Seq(Byte) /\ Len(<<128 + (n % 128)>> \o rest) > 0
      BY <3>2, <3>3 DEF rest
    <3>. QED  BY <3>4, <3>5 DEF rest
  <2>2. CASE ~(n > 127)
    <3>1. n \in Byte
      BY <2>2 DEF Byte
    <3>2. <<n>> \in Seq(Byte) /\ Len(<<n>>) > 0
      BY <3>1
    <3>3. VarintBytes[n] = <<n>>
      BY <2>2, VarintCases
    <3>. QED  BY <3>2, <3>3
  <2>. QED  BY <2>1, <2>2
<1>. HIDE DEF Q
<1>2. \A n \in Nat : n \in Q
  BY <1>1, StrongInduction
<1>. QED  BY <1>2 DEF Q

\* g gives the value of the digits from each byte of a varint on.
IsReading(buf, pos, end, g) ==
  g = [p \in pos .. end |-> (buf[p] % 128) + (IF p = end THEN 0 ELSE 128 * g[p + 1])]

\* The bytes from pos to end are a varint of value n.
IsVarint(buf, pos, end, n) ==
  /\ \A p \in pos .. end - 1 : Continues(buf[p])
  /\ ~Continues(buf[end])
  /\ \E g \in [pos .. end -> Nat] : IsReading(buf, pos, end, g) /\ g[pos] = n

\* The bytes of a varint all say that more follow but the last, and give its value.
LEMMA VarintIsRead ==
  ASSUME NEW buf \in Seq(Byte)
  PROVE  \A n \in Nat : \A pos \in Nat \ {0} :
           HasAt(buf, pos, VarintBytes[n]) =>
             IsVarint(buf, pos, pos + Len(VarintBytes[n]) - 1, n)
<1>. DEFINE Q == {n \in Nat : \A pos \in Nat \ {0} :
                    HasAt(buf, pos, VarintBytes[n]) =>
                      IsVarint(buf, pos, pos + Len(VarintBytes[n]) - 1, n)}
<1>1. ASSUME NEW n \in Nat, \A m \in 0 .. n - 1 : m \in Q
      PROVE  n \in Q
  <2>. SUFFICES ASSUME NEW pos \in Nat \ {0}, HasAt(buf, pos, VarintBytes[n])
                PROVE  IsVarint(buf, pos, pos + Len(VarintBytes[n]) - 1, n)
    OBVIOUS
  <2>1. CASE n > 127
    <3>. DEFINE k == n \div 128
                d == 128 + (n % 128)
                rest == VarintBytes[k]
                end == pos + Len(rest)
    <3>1. /\ k \in 0 .. n - 1 /\ k \in Nat /\ d \in Nat /\ d \in Byte /\ Continues(d)
          /\ n = (d % 128) + 128 * k
      BY <2>1, DividedIsLess DEF Byte, Continues
    <3>2. VarintBytes[n] = <<d>> \o rest
      BY <2>1, VarintCases
    <3>3. rest \in Seq(Byte) /\ Len(rest) > 0 /\ Len(rest) \in Nat
      <4>1. k \in Nat
        BY <3>1
      <4>. HIDE DEF k
      <4>2. rest \in Seq(Byte) /\ Len(rest) > 0
        BY <4>1, VarintIsBytes
      <4>. QED  BY <4>2
    <3>. HIDE DEF k, d
    <3>4. k \in Q
      BY <3>1, <1>1
    <3>. HIDE DEF rest
    <3>5. <<d>> \in Seq(Byte) /\ Len(<<d>>) = 1
      BY <3>1
    <3>6. HasAt(buf, pos, <<d>>) /\ HasAt(buf, pos + 1, rest)
      BY <3>2, <3>3, <3>5, HasBoth
    <3>7. buf[pos] = d
      BY <3>6 DEF HasAt
    <3>8. IsVarint(buf, pos + 1, (pos + 1) + Len(rest) - 1, k)
      <4>1. pos + 1 \in Nat \ {0}
        OBVIOUS
      <4>. QED  BY <3>4, <3>6, <4>1 DEF rest
    <3>9. end \in Nat /\ (pos + 1) + Len(rest) - 1 = end /\ pos < end
          /\ pos + Len(VarintBytes[n]) - 1 = end
      <4>1. Len(<<d>> \o rest) = Len(rest) + 1
        BY <3>3
      <4>. QED  BY <4>1, <3>2, <3>3
    <3>. HIDE DEF end
    <3>10. PICK g \in [pos + 1 .. end -> Nat] :
             IsReading(buf, pos + 1, end, g) /\ g[pos + 1] = k
      BY <3>8, <3>9 DEF IsVarint
    <3>. DEFINE h == [p \in pos .. end |-> IF p = pos THEN n ELSE g[p]]
    <3>11. h \in [pos .. end -> Nat] /\ h[pos] = n
      BY <3>9
    <3>12. ASSUME NEW p \in pos .. end
           PROVE  h[p] = (buf[p] % 128) + (IF p = end THEN 0 ELSE 128 * h[p + 1])
      <4>1. CASE p = pos
        <5>1. h[p] = n /\ h[p + 1] = k /\ p # end
          BY <4>1, <3>9, <3>10
        <5>. QED  BY <5>1, <4>1, <3>1, <3>7
      <4>2. CASE p # pos
        <5>1. p \in pos + 1 .. end /\ h[p] = g[p]
          BY <4>2
        <5>2. p # end => h[p + 1] = g[p + 1]
          BY <5>1, <3>9
        <5>3. g[p] = (buf[p] % 128) + (IF p = end THEN 0 ELSE 128 * g[p + 1])
          BY <5>1, <3>10 DEF IsReading
        <5>. QED  BY <5>1, <5>2, <5>3
      <4>. QED  BY <4>1, <4>2
    <3>13. IsReading(buf, pos, end, h)
      <4>1. h = [p \in pos .. end |-> h[p]]
        OBVIOUS
      <4>. HIDE DEF h
      <4>. QED  BY <4>1, <3>12 DEF IsReading
    <3>. HIDE DEF h
    <3>14. ASSUME NEW p \in pos .. end - 1
           PROVE  Continues(buf[p])
      <4>1. CASE p = pos
        BY <4>1, <3>7, <3>1
      <4>2. CASE p # pos
        <5>1. p \in pos + 1 .. end - 1
          BY <4>2, <3>9
        <5>. QED  BY <5>1, <3>8, <3>9 DEF IsVarint
      <4>. QED  BY <4>1, <4>2
    <3>15. ~Continues(buf[end])
      BY <3>8, <3>9 DEF IsVarint
    <3>16. IsVarint(buf, pos, end, n)
      BY <3>11, <3>13, <3>14, <3>15 DEF IsVarint
    <3>. QED  BY <3>16, <3>9
  <2>2. CASE ~(n > 127)
    <3>1. VarintBytes[n] = <<n>>
      BY <2>2, VarintCases
    <3>2. Len(<<n>>) = 1 /\ <<n>>[1] = n /\ pos + Len(<<n>>) - 1 = pos
      OBVIOUS
    <3>3. HasAt(buf, pos, <<n>>)
      BY <3>1
    <3>4. buf[pos] = n
      BY <3>3, <3>2 DEF HasAt
    <3>. DEFINE g == [p \in pos .. pos |-> n]
    <3>5. g \in [pos .. pos -> Nat] /\ g[pos] = n
      OBVIOUS
    <3>6. IsReading(buf, pos, pos, g)
      <4>1. ASSUME NEW p \in pos .. pos
            PROVE  n = (buf[p] % 128) + (IF p = pos THEN 0 ELSE 128 * g[p + 1])
        <5>1. p = pos /\ n % 128 = n
          BY <2>2
        <5>. QED  BY <5>1, <3>4
      <4>2. g = [p \in pos .. pos |-> (buf[p] % 128) + (IF p = pos THEN 0 ELSE 128 * g[p + 1])]
        BY <4>1
      <4>. QED  BY <4>2 DEF IsReading
    <3>7. ~Continues(buf[pos]) /\ pos .. pos - 1 = {}
      BY <3>4, <2>2 DEF Continues
    <3>. HIDE DEF g
    <3>8. IsVarint(buf, pos, pos, n)
      BY <3>5, <3>6, <3>7 DEF IsVarint
    <3>. QED  BY <3>1, <3>2, <3>8
  <2>. QED  BY <2>1, <2>2
<1>. HIDE DEF Q
<1>2. \A n \in Nat : n \in Q
  BY <1>1, StrongInduction
<1>. QED  BY <1>2 DEF Q

\* A varint has one value.
LEMMA OneReading ==
  ASSUME NEW buf, NEW pos \in Nat, NEW end \in Nat, pos <= end, NEW g, NEW h,
         IsReading(buf, pos, end, g), IsReading(buf, pos, end, h)
  PROVE  g[pos] = h[pos]
<1>. DEFINE Q == {j \in Nat : j <= end - pos => g[end - j] = h[end - j]}
<1>1. ASSUME NEW p \in pos .. end
      PROVE  /\ g[p] = (buf[p] % 128) + (IF p = end THEN 0 ELSE 128 * g[p + 1])
             /\ h[p] = (buf[p] % 128) + (IF p = end THEN 0 ELSE 128 * h[p + 1])
  BY DEF IsReading
<1>2. 0 \in Q
  BY <1>1
<1>3. ASSUME NEW j \in Nat, j \in Q
      PROVE  j + 1 \in Q
  <2>. SUFFICES ASSUME j + 1 <= end - pos PROVE g[end - (j + 1)] = h[end - (j + 1)]
    OBVIOUS
  <2>1. /\ end - (j + 1) \in pos .. end /\ (end - (j + 1)) + 1 = end - j
        /\ end - (j + 1) # end
    OBVIOUS
  <2>2. g[end - j] = h[end - j]
    BY <1>3, <2>1
  <2>. QED  BY <2>1, <2>2, <1>1
<1>. HIDE DEF Q
<1>4. \A j \in Nat : j \in Q
  BY <1>2, <1>3, Induction
<1>5. end - pos \in Q
  BY <1>4
<1>. QED  BY <1>5 DEF Q

\* cswp_buffer_get_varint gets what cswp_buffer_put_varint put, wherever it lies.
LEMMA VarintDecodes ==
  ASSUME NEW n \in Nat, NEW buf \in Seq(Byte), NEW pos \in Nat \ {0},
         HasAt(buf, pos, VarintBytes[n])
  PROVE  GetVarint(buf, pos) = Got(n, pos + Len(VarintBytes[n]))
<1>. DEFINE end == pos + Len(VarintBytes[n]) - 1
            last == {p \in pos .. Len(buf) : ~Continues(buf[p])}
<1>1. end \in Nat /\ pos <= end /\ end <= Len(buf) /\ end + 1 = pos + Len(VarintBytes[n])
  <2>. DEFINE bytes == VarintBytes[n]
  <2>1. bytes \in Seq(Byte) /\ Len(bytes) > 0 /\ HasAt(buf, pos, bytes)
    BY VarintIsBytes
  <2>. HIDE DEF bytes
  <2>2. Len(bytes) \in Nat /\ pos + Len(bytes) - 1 <= Len(buf)
    BY <2>1 DEF HasAt
  <2>. QED  BY <2>1, <2>2 DEF bytes
<1>2. IsVarint(buf, pos, end, n)
  BY VarintIsRead
<1>. HIDE DEF end
<1>3. end \in last /\ \A p \in last : end <= p
  <2>1. end \in pos .. Len(buf) /\ ~Continues(buf[end])
    BY <1>1, <1>2 DEF IsVarint
  <2>2. ASSUME NEW p \in last
        PROVE  end <= p
    <3>1. p \in pos .. end - 1 => Continues(buf[p])
      BY <1>2 DEF IsVarint
    <3>. QED  BY <3>1, <1>1
  <2>. QED  BY <2>1, <2>2
<1>4. Min(last) = end
  <2>1. last \subseteq Nat
    OBVIOUS
  <2>. HIDE DEF last
  <2>2. \A x \in last : (\A y \in last : x <= y) => x = end
    BY <1>1, <1>3, <2>1
  <2>. QED  BY <1>3, <2>2 DEF Min
<1>. DEFINE e == Min(last)
            value == CHOOSE v : v = [p \in pos .. e |->
                       (buf[p] % 128) + (IF p = e THEN 0 ELSE 128 * v[p + 1])]
<1>5. e = end
  BY <1>4
<1>6. GetVarint(buf, pos) = Got(value[pos], e + 1)
  <2>1. last # {}
    BY <1>3
  <2>. QED  BY <2>1, Zenon DEF GetVarint
<1>. HIDE DEF e
<1>7. PICK g \in [pos .. e -> Nat] : IsReading(buf, pos, e, g) /\ g[pos] = n
  BY <1>2, <1>5 DEF IsVarint
<1>8. IsReading(buf, pos, e, value)
  BY <1>7, Zenon DEF IsReading
<1>. HIDE DEF value
<1>9. value[pos] = n
  BY <1>1, <1>5, <1>7, <1>8, OneReading
<1>. QED  BY <1>1, <1>5, <1>6, <1>9

-----------------------------------------------------------------------------
(* Fields *)

LEMMA PutsFourBytes ==
  ASSUME NEW n \in Nat
  PROVE  PutUint32(n) \in Seq(Byte) /\ Len(PutUint32(n)) = 4
<1>1. \A k \in Nat : k % 256 \in Byte
  BY DEF Byte
<1>2. n \div 256 \in Nat /\ n \div 65536 \in Nat /\ n \div 16777216 \in Nat
  OBVIOUS
<1>3. /\ n % 256 \in Byte /\ (n \div 256) % 256 \in Byte
      /\ (n \div 65536) % 256 \in Byte /\ (n \div 16777216) % 256 \in Byte
  BY <1>1, <1>2
<1>. QED  BY <1>3 DEF PutUint32

LEMMA Uint32IsBytes ==
  ASSUME NEW n, Uint32(n)
  PROVE  PutUint32(n) \in Seq(Byte) /\ Len(PutUint32(n)) = 4
BY PutsFourBytes DEF Uint32

\* cswp_buffer_get_uint32 gets what cswp_buffer_put_uint32 put.
LEMMA Uint32Decodes ==
  ASSUME NEW n, Uint32(n), NEW buf \in Seq(Byte), NEW pos \in Nat \ {0},
         HasAt(buf, pos, PutUint32(n))
  PROVE  GetUint32(buf, pos) = Got(n, pos + 4) /\ FromLowFirst(buf, pos) = n /\ Holds(buf, pos, 4)
<1>1. Len(PutUint32(n)) = 4
  BY Uint32IsBytes
<1>2. pos + 4 - 1 <= Len(buf) /\ \A j \in 1 .. 4 : buf[pos + j - 1] = PutUint32(n)[j]
  BY <1>1 DEF HasAt
<1>3. /\ PutUint32(n)[1] = n % 256 /\ PutUint32(n)[2] = (n \div 256) % 256
      /\ PutUint32(n)[3] = (n \div 65536) % 256 /\ PutUint32(n)[4] = (n \div 16777216) % 256
  BY DEF PutUint32
<1>4. /\ buf[pos] = n % 256 /\ buf[pos + 1] = (n \div 256) % 256
      /\ buf[pos + 2] = (n \div 65536) % 256 /\ buf[pos + 3] = (n \div 16777216) % 256
  <2>1. /\ pos + 1 - 1 = pos /\ pos + 2 - 1 = pos + 1 /\ pos + 3 - 1 = pos + 2
        /\ pos + 4 - 1 = pos + 3
    OBVIOUS
  <2>2. buf[pos + 1 - 1] = n % 256
    BY <1>2, <1>3
  <2>3. buf[pos + 2 - 1] = (n \div 256) % 256
    BY <1>2, <1>3
  <2>4. buf[pos + 3 - 1] = (n \div 65536) % 256
    BY <1>2, <1>3
  <2>5. buf[pos + 4 - 1] = (n \div 16777216) % 256
    BY <1>2, <1>3
  <2>. QED  BY <2>1, <2>2, <2>3, <2>4, <2>5
<1>5. (n % 256) + 256 * ((n \div 256) % 256) + 65536 * ((n \div 65536) % 256)
        + 16777216 * ((n \div 16777216) % 256) = n
  <2>1. n \in Nat /\ n \div 65536 < 65536
    BY DEF Uint32
  <2>. QED  BY <2>1
<1>6. FromLowFirst(buf, pos) = n
  BY <1>4, <1>5 DEF FromLowFirst
<1>7. Holds(buf, pos, 4)
  BY <1>2 DEF Holds
<1>. QED  BY <1>6, <1>7 DEF GetUint32

\* cswp_buffer_get_uint64 gets what cswp_buffer_put_uint64 put.
LEMMA Uint64Decodes ==
  ASSUME NEW n, NEW m, Uint32(n), Uint32(m), NEW buf \in Seq(Byte), NEW pos \in Nat \ {0},
         HasAt(buf, pos, PutUint64(<<n, m>>))
  PROVE  /\ PutUint64(<<n, m>>) \in Seq(Byte)
         /\ GetUint64(buf, pos) = Got(<<n, m>>, pos + Len(PutUint64(<<n, m>>)))
<1>. DEFINE x == PutUint32(n)
            y == PutUint32(m)
<1>1. x \in Seq(Byte) /\ Len(x) = 4 /\ y \in Seq(Byte) /\ Len(y) = 4
  BY Uint32IsBytes
<1>2. PutUint64(<<n, m>>) = x \o y
  BY DEF PutUint64
<1>. HIDE DEF x, y
<1>3. HasAt(buf, pos, x) /\ HasAt(buf, pos + 4, y)
  BY <1>1, <1>2, HasBoth
<1>4. FromLowFirst(buf, pos) = n
  BY <1>3, Uint32Decodes DEF x
<1>5. FromLowFirst(buf, pos + 4) = m /\ Holds(buf, pos + 4, 4)
  <2>1. pos + 4 \in Nat \ {0}
    OBVIOUS
  <2>. QED  BY <2>1, <1>3, Uint32Decodes DEF y
<1>6. Holds(buf, pos, 8)
  BY <1>5 DEF Holds
<1>7. x \o y \in Seq(Byte) /\ Len(x \o y) = 8
  <2>1. x \o y \in Seq(Byte)
    BY <1>1
  <2>2. Len(x \o y) = Len(x) + Len(y)
    <3>1. x \in Seq(Byte) /\ y \in Seq(Byte)
      BY <1>1
    <3>. QED  BY <3>1
  <2>. QED  BY <1>1, <2>1, <2>2
<1>. QED  BY <1>2, <1>4, <1>5, <1>6, <1>7 DEF GetUint64

\* cswp_buffer_get_data gets what was put.
LEMMA DataDecodes ==
  ASSUME NEW s \in Seq(Byte), NEW buf \in Seq(Byte), NEW pos \in Nat \ {0}, HasAt(buf, pos, s)
  PROVE  GetData(buf, pos, Len(s)) = Got(s, pos + Len(s))
<1>1. Len(s) \in Nat /\ pos + Len(s) - 1 <= Len(buf) /\ Len(buf) \in Nat
  BY DEF HasAt
<1>. DEFINE t == SubSeq(buf, pos, pos + Len(s) - 1)
<1>2. t = s
  <2>1. t \in Seq(Byte) /\ Len(t) = Len(s)
    BY <1>1
  <2>2. ASSUME NEW j \in 1 .. Len(s)
        PROVE  t[j] = s[j]
    <3>1. t[j] = buf[pos + j - 1]
      BY <1>1
    <3>. QED  BY <3>1 DEF HasAt
  <2>. HIDE DEF t
  <2>. QED  BY <2>1, <2>2
<1>3. Holds(buf, pos, Len(s))
  BY <1>1 DEF Holds
<1>. HIDE DEF t
<1>. QED  BY <1>2, <1>3 DEF GetData, t

\* cswp_buffer_get_string gets what cswp_buffer_put_string put.
LEMMA StringDecodes ==
  ASSUME NEW s \in Seq(Byte), NEW buf \in Seq(Byte), NEW pos \in Nat \ {0},
         HasAt(buf, pos, PutString(s))
  PROVE  /\ PutString(s) \in Seq(Byte)
         /\ GetString(buf, pos) = Got(s, pos + Len(PutString(s)))
<1>. DEFINE len == VarintBytes[Len(s)]
            next == pos + Len(len)
<1>1. len \in Seq(Byte) /\ PutString(s) = len \o s /\ Len(s) \in Nat
  BY VarintIsBytes DEF PutString
<1>. HIDE DEF len
<1>2. HasAt(buf, pos, len) /\ HasAt(buf, pos + Len(len), s)
  BY <1>1, HasBoth
<1>3. GetVarint(buf, pos) = Got(Len(s), next)
  BY <1>1, <1>2, VarintDecodes DEF len
<1>4. next \in Nat \ {0} /\ pos + Len(len \o s) = next + Len(s) /\ len \o s \in Seq(Byte)
  BY <1>1
<1>. HIDE DEF next
<1>5. HasAt(buf, next, s)
  BY <1>2 DEF next
<1>6. GetData(buf, next, Len(s)) = Got(s, next + Len(s))
  BY <1>4, <1>5, DataDecodes
<1>7. GetString(buf, pos) = GetData(buf, next, Len(s))
  BY <1>3 DEF GetString, Got
<1>. QED  BY <1>1, <1>4, <1>6, <1>7

FieldTypes == {"varint", "uint32", "uint64", "string", "data"}

LEMMA FieldIsBytes ==
  ASSUME NEW f, NEW val, NEW vals, f.type \in FieldTypes, IsValue(f, val, vals)
  PROVE  PutField(f.type, val) \in Seq(Byte)
<1>1. CASE f.type = "varint"
  <2>1. val \in Nat
    <3>1. val \in 0 .. VarintMax
      BY <1>1, Zenon DEF IsValue
    <3>. QED  BY <3>1
  <2>2. PutField(f.type, val) = VarintBytes[val]
    BY <1>1 DEF PutField
  <2>. QED  BY <2>1, <2>2, VarintIsBytes
<1>2. CASE f.type = "uint32"
  <2>1. PutField(f.type, val) = PutUint32(val) /\ Uint32(val)
    BY <1>2 DEF PutField, IsValue
  <2>. QED  BY <2>1, Uint32IsBytes
<1>3. CASE f.type = "uint64"
  <2>1. PutField(f.type, val) = PutUint32(val[1]) \o PutUint32(val[2])
    BY <1>3 DEF PutField, PutUint64
  <2>2. Uint32(val[1]) /\ Uint32(val[2])
    BY <1>3 DEF IsValue
  <2>3. PutUint32(val[1]) \in Seq(Byte) /\ PutUint32(val[2]) \in Seq(Byte)
    BY <2>2, Uint32IsBytes
  <2>. QED  BY <2>1, <2>3
<1>4. CASE f.type = "string"
  <2>1. PutField(f.type, val) = VarintBytes[Len(val)] \o val
    BY <1>4 DEF PutField, PutString
  <2>2. val \in Seq(Byte) /\ Len(val) \in Nat
    BY <1>4 DEF IsValue
  <2>3. VarintBytes[Len(val)] \in Seq(Byte)
    BY <2>2, VarintIsBytes
  <2>. QED  BY <2>1, <2>2, <2>3
<1>5. CASE f.type = "data"
  <2>1. PutField(f.type, val) = val /\ val \in Seq(Byte)
    BY <1>5 DEF PutField, IsValue
  <2>. QED  BY <2>1
<1>. QED  BY <1>1, <1>2, <1>3, <1>4, <1>5 DEF FieldTypes

\* A field of any type is got as it was put, if the number of its bytes is known.
LEMMA FieldDecodes ==
  ASSUME NEW f, NEW val, NEW vals, f.type \in FieldTypes, IsValue(f, val, vals),
         NEW buf \in Seq(Byte), NEW pos \in Nat \ {0}, HasAt(buf, pos, PutField(f.type, val)),
         NEW sofar, f.type = "data" => sofar[<<f.n, 0>>] = vals[<<f.n, 0>>]
  PROVE  GetField(f, buf, pos, sofar) = Got(val, pos + Len(PutField(f.type, val)))
<1>1. CASE f.type = "varint"
  <2>1. val \in Nat
    <3>1. val \in 0 .. VarintMax
      BY <1>1, Zenon DEF IsValue
    <3>. QED  BY <3>1
  <2>2. /\ PutField(f.type, val) = VarintBytes[val]
        /\ GetField(f, buf, pos, sofar) = GetVarint(buf, pos)
    BY <1>1 DEF PutField, GetField
  <2>3. HasAt(buf, pos, VarintBytes[val])
    BY <2>2
  <2>4. GetVarint(buf, pos) = Got(val, pos + Len(VarintBytes[val]))
    BY <2>1, <2>3, VarintDecodes
  <2>. QED  BY <2>2, <2>4
<1>2. CASE f.type = "uint32"
  <2>1. /\ PutField(f.type, val) = PutUint32(val) /\ Uint32(val)
        /\ GetField(f, buf, pos, sofar) = GetUint32(buf, pos)
    BY <1>2 DEF PutField, IsValue, GetField
  <2>2. HasAt(buf, pos, PutUint32(val))
    BY <2>1
  <2>3. GetUint32(buf, pos) = Got(val, pos + 4) /\ Len(PutUint32(val)) = 4
    BY <2>1, <2>2, Uint32Decodes, Uint32IsBytes
  <2>. QED  BY <2>1, <2>3
<1>3. CASE f.type = "uint64"
  <2>1. PutField(f.type, val) = PutUint64(val) /\ GetField(f, buf, pos, sofar) = GetUint64(buf, pos)
    BY <1>3 DEF PutField, GetField
  <2>2. val = <<val[1], val[2]>> /\ Uint32(val[1]) /\ Uint32(val[2])
    BY <1>3 DEF IsValue
  <2>3. HasAt(buf, pos, PutUint64(<<val[1], val[2]>>))
    BY <2>1, <2>2
  <2>4. GetUint64(buf, pos)
          = Got(<<val[1], val[2]>>, pos + Len(PutUint64(<<val[1], val[2]>>)))
    BY <2>2, <2>3, Uint64Decodes
  <2>. QED  BY <2>1, <2>2, <2>4
<1>4. CASE f.type = "string"
  <2>1. PutField(f.type, val) = PutString(val) /\ GetField(f, buf, pos, sofar) = GetString(buf, pos)
    BY <1>4 DEF PutField, GetField
  <2>2. val \in Seq(Byte)
    BY <1>4 DEF IsValue
  <2>3. HasAt(buf, pos, PutString(val))
    BY <2>1
  <2>4. GetString(buf, pos) = Got(val, pos + Len(PutString(val)))
    BY <2>2, <2>3, StringDecodes
  <2>. QED  BY <2>1, <2>4
<1>5. CASE f.type = "data"
  <2>1. /\ PutField(f.type, val) = val
        /\ GetField(f, buf, pos, sofar) = GetData(buf, pos, sofar[<<f.n, 0>>])
    BY <1>5 DEF PutField, GetField
  <2>2. val \in Seq(Byte) /\ Len(val) = sofar[<<f.n, 0>>]
    BY <1>5 DEF IsValue
  <2>3. HasAt(buf, pos, val)
    BY <2>1
  <2>4. GetData(buf, pos, Len(val)) = Got(val, pos + Len(val))
    BY <2>2, <2>3, DataDecodes
  <2>. QED  BY <2>1, <2>2, <2>4
<1>. QED  BY <1>1, <1>2, <1>3, <1>4, <1>5 DEF FieldTypes

-----------------------------------------------------------------------------
(* Fields one after the other *)

KeysUpto(units, m) == {Key(units[k]) : k \in 1 .. m}
PutPieces(units, vals) ==
  [k \in DOMAIN units |-> PutField(units[k][1].type, vals[Key(units[k])])]

\* The values of the units are values of their fields, and what says how many
\* bytes of data there are comes before the data.
HasValues(units, vals) ==
  \A k \in DOMAIN units : /\ units[k][1].type \in FieldTypes
                          /\ IsValue(units[k][1], vals[Key(units[k])], vals)
CountsFirst(units, keys) ==
  \A k \in DOMAIN units : units[k][1].type = "data" =>
    <<units[k][1].n, 0>> \in keys \cup KeysUpto(units, k - 1)

\* One value more is decoded.
LEMMA RestrictMore ==
  ASSUME NEW keys, NEW vals, NEW key
  PROVE  Joined(Restrict(vals, keys), [k \in {key} |-> vals[key]]) = Restrict(vals, keys \cup {key})
BY DEF Restrict, Joined

LEMMA PutPiecesType ==
  ASSUME NEW T, NEW units \in Seq(T), NEW vals, HasValues(units, vals)
  PROVE  /\ PutPieces(units, vals) \in Pieces(Byte) /\ Len(PutPieces(units, vals)) = Len(units)
         /\ PutUnits(units, vals) = FlattenSeq(PutPieces(units, vals))
         /\ PutUnits(units, vals) \in Seq(Byte)
<1>1. DOMAIN units = 1 .. Len(units) /\ Len(units) \in Nat
  OBVIOUS
<1>2. ASSUME NEW k \in 1 .. Len(units)
      PROVE  PutField(units[k][1].type, vals[Key(units[k])]) \in Seq(Byte)
  <2>1. /\ units[k][1].type \in FieldTypes
        /\ IsValue(units[k][1], vals[Key(units[k])], vals)
    BY <1>1 DEF HasValues
  <2>. QED  BY <2>1, FieldIsBytes
<1>. DEFINE put(k) == PutField(units[k][1].type, vals[Key(units[k])])
            p == [k \in 1 .. Len(units) |-> put(k)]
<1>3. p \in Seq(Seq(Byte)) /\ Len(p) = Len(units)
  <2>1. \A k \in 1 .. Len(units) : put(k) \in Seq(Byte)
    BY <1>2
  <2>. HIDE DEF put
  <2>. QED  BY <1>1, <2>1
<1>4. PutPieces(units, vals) = p
  BY <1>1 DEF PutPieces
<1>5. PutUnits(units, vals) = FlattenSeq(PutPieces(units, vals))
  BY Zenon DEF PutUnits, PutPieces
<1>6. PutPieces(units, vals) \in Pieces(Byte)
  BY <1>3, <1>4, Zenon DEF Pieces
<1>. QED  BY <1>3, <1>4, <1>5, <1>6, FlattenIsSeq

\* Fields that follow one another are got one after the other, by induction over
\* how many there are.
LEMMA UnitsDecode ==
  ASSUME NEW T, NEW units \in Seq(T), NEW vals, HasValues(units, vals),
         NEW keys, CountsFirst(units, keys),
         NEW buf \in Seq(Byte), NEW pos \in Nat \ {0}, HasAt(buf, pos, PutUnits(units, vals))
  PROVE  GetUnits(units, buf, Decoded(TRUE, Restrict(vals, keys), pos))
           = Decoded(TRUE, Restrict(vals, keys \cup Keys(units)), pos + Len(PutUnits(units, vals)))
<1>. DEFINE p == PutPieces(units, vals)
            upto(k) == FlattenSeq(SubSeq(p, 1, k))
            start == Decoded(TRUE, Restrict(vals, keys), pos)
            state(k) == Decoded(TRUE, Restrict(vals, keys \cup KeysUpto(units, k)),
                                pos + Len(upto(k)))
            N == Len(units)
            Body(f) == [k \in 0 .. N |-> IF k = 0 THEN start ELSE GetUnit(units[k], buf, f[k - 1])]
<1>1. /\ DOMAIN units = 1 .. N /\ N \in Nat /\ p \in Pieces(Byte) /\ Len(p) = N
      /\ PutUnits(units, vals) = FlattenSeq(p)
  BY PutPiecesType
<1>2. upto(N) = FlattenSeq(p) /\ upto(0) = <<>>
  <2>1. SubSeq(p, 1, N) = p /\ SubSeq(p, 1, 0) = <<>>
    BY <1>1 DEF Pieces
  <2>. HIDE DEF p
  <2>2. upto(0) = <<>>
    BY <2>1, FlattenEmpty, Zenon
  <2>. QED  BY <2>1, <2>2
<1>3. ASSUME NEW k \in 1 .. N
      PROVE  /\ upto(k - 1) \in Seq(Byte) /\ p[k] = PutField(units[k][1].type, vals[Key(units[k])])
             /\ p[k] \in Seq(Byte)
             /\ upto(k) = upto(k - 1) \o p[k] /\ HasAt(buf, pos + Len(upto(k - 1)), p[k])
  <2>1. p[k] = PutField(units[k][1].type, vals[Key(units[k])])
    BY <1>1 DEF PutPieces
  <2>. HIDE DEF p
  <2>2. SubSeq(p, 1, k - 1) \in Pieces(Byte) /\ p[k] \in Seq(Byte)
        /\ upto(k) = upto(k - 1) \o p[k]
    BY <1>1, FlattenUpto
  <2>3. HasAt(buf, pos + Len(upto(k - 1)), p[k])
    BY <1>1, HasPiece
  <2>. QED  BY <2>1, <2>2, <2>3, FlattenIsSeq
<1>. HIDE DEF p
<1>4. ASSUME NEW k \in 1 .. N
      PROVE  GetUnit(units[k], buf, state(k - 1)) = state(k)
  <2>. DEFINE f == units[k][1]
              val == vals[Key(units[k])]
              more == keys \cup KeysUpto(units, k - 1)
              sofar == Restrict(vals, more)
              at0 == pos + Len(upto(k - 1))
  <2>1. /\ f.type \in FieldTypes /\ IsValue(f, val, vals)
        /\ f.type = "data" => <<f.n, 0>> \in more
    BY <1>1 DEF HasValues, CountsFirst
  <2>2. f.type = "data" => sofar[<<f.n, 0>>] = vals[<<f.n, 0>>]
    BY <2>1 DEF Restrict
  <2>3. /\ p[k] = PutField(f.type, val) /\ upto(k - 1) \in Seq(Byte) /\ p[k] \in Seq(Byte)
        /\ upto(k) = upto(k - 1) \o p[k] /\ HasAt(buf, at0, p[k])
    BY <1>3
  <2>. HIDE DEF upto
  <2>4. at0 \in Nat \ {0} /\ at0 + Len(p[k]) = pos + Len(upto(k))
    <3>. DEFINE a == upto(k - 1)
                b == p[k]
    <3>1. a \in Seq(Byte) /\ b \in Seq(Byte) /\ upto(k) = a \o b
      BY <2>3
    <3>. HIDE DEF a, b
    <3>2. Len(a) \in Nat /\ Len(a \o b) = Len(a) + Len(b) /\ Len(b) \in Nat
      BY <3>1
    <3>3. Len(upto(k)) = Len(a) + Len(b)
      BY <3>1, <3>2
    <3>4. at0 = pos + Len(a)
      BY DEF a
    <3>5. Len(p[k]) = Len(b)
      BY DEF b
    <3>. QED  BY <3>2, <3>3, <3>4, <3>5
  <2>. HIDE DEF at0, sofar, f, val
  <2>5. GetField(f, buf, at0, sofar) = Got(val, at0 + Len(p[k]))
    BY <2>1, <2>2, <2>3, <2>4, FieldDecodes
  <2>6. Joined(sofar, [key \in {Key(units[k])} |-> val]) = Restrict(vals, more \cup {Key(units[k])})
    BY RestrictMore, Zenon DEF sofar, val
  <2>7. more \cup {Key(units[k])} = keys \cup KeysUpto(units, k)
    <3>1. 1 .. k = (1 .. k - 1) \cup {k}
      BY <1>1
    <3>. QED  BY <3>1 DEF KeysUpto
  <2>8. state(k - 1) = Decoded(TRUE, sofar, at0)
    BY Zenon DEF sofar, at0
  <2>. DEFINE before == Decoded(TRUE, sofar, at0)
  <2>9. before.ok = TRUE /\ before.vals = sofar /\ before.pos = at0
    BY DEF Decoded
  <2>. HIDE DEF before
  <2>10. GetUnit(units[k], buf, before)
          = Decoded(TRUE, Joined(sofar, [key \in {Key(units[k])} |-> val]), at0 + Len(p[k]))
    <3>1. GetField(units[k][1], buf, before.pos, before.vals) = Got(val, at0 + Len(p[k]))
      BY <2>5, <2>9, Zenon DEF f
    <3>. DEFINE field == Got(val, at0 + Len(p[k]))
    <3>2. field.ok = TRUE /\ field.val = val /\ field.pos = at0 + Len(p[k])
      BY DEF Got
    <3>. HIDE DEF field
    <3>3. GetField(units[k][1], buf, before.pos, before.vals) = field
      BY <3>1, Zenon DEF field
    <3>4. GetUnit(units[k], buf, before)
            = IF ~before.ok THEN before
              ELSE IF field.ok
                   THEN Decoded(TRUE, Joined(before.vals, [key \in {Key(units[k])} |-> field.val]),
                                field.pos)
                   ELSE Decoded(FALSE, before.vals, field.pos)
      BY <3>3, Zenon DEF GetUnit
    <3>. QED  BY <2>9, <3>2, <3>4, Zenon
  <2>11. state(k) = Decoded(TRUE, Restrict(vals, more \cup {Key(units[k])}), at0 + Len(p[k]))
    BY <2>4, <2>7, Zenon
  <2>. QED  BY <2>6, <2>8, <2>10, <2>11, Zenon DEF before
<1>5. state(0) = start
  <2>1. KeysUpto(units, 0) = {}
    BY DEF KeysUpto
  <2>2. pos + Len(upto(0)) = pos
    BY <1>2
  <2>3. keys \cup KeysUpto(units, 0) = keys
    BY <2>1
  <2>. QED  BY <2>2, <2>3, Zenon
<1>6. state(N) = Decoded(TRUE, Restrict(vals, keys \cup Keys(units)),
                         pos + Len(PutUnits(units, vals)))
  <2>1. KeysUpto(units, N) = Keys(units)
    BY <1>1 DEF KeysUpto, Keys
  <2>. QED  BY <2>1, <1>1, <1>2, Zenon
<1>. HIDE DEF state, start
<1>. DEFINE g == [k \in 0 .. N |-> state(k)]
<1>7. g = Body(g)
  <2>1. ASSUME NEW k \in 0 .. N
        PROVE  state(k) = IF k = 0 THEN start ELSE GetUnit(units[k], buf, g[k - 1])
    <3>1. CASE k = 0
      BY <3>1, <1>5
    <3>2. CASE k # 0
      <4>1. k \in 1 .. N /\ k - 1 \in 0 .. N
        BY <1>1, <3>2
      <4>2. g[k - 1] = state(k - 1)
        BY <4>1
      <4>. HIDE DEF g
      <4>. QED  BY <4>1, <4>2, <3>2, <1>4
    <3>. QED  BY <3>1, <3>2
  <2>. QED  BY <2>1, Zenon
<1>. DEFINE F == CHOOSE f : f = Body(f)
<1>. HIDE DEF g
<1>8. F = Body(F)
  BY <1>7, Zenon
<1>9. GetUnits(units, buf, start) = F[N]
  BY Zenon DEF GetUnits
<1>. HIDE DEF F
<1>10. F[0] = start /\ \A k \in 1 .. N : F[k] = GetUnit(units[k], buf, F[k - 1])
  <2>1. 0 \in 0 .. N /\ \A k \in 1 .. N : k \in 0 .. N /\ k # 0
    BY <1>1
  <2>. QED  BY <2>1, <1>8, Zenon
<1>. DEFINE Q == {n \in Nat : n <= N => F[n] = state(n)}
<1>. HIDE DEF N
<1>11. 0 \in Q
  BY <1>10, <1>5
<1>12. ASSUME NEW n \in Nat, n \in Q
       PROVE  n + 1 \in Q
  <2>. SUFFICES ASSUME n + 1 <= N PROVE F[n + 1] = state(n + 1)
    OBVIOUS
  <2>1. n + 1 \in 1 .. N /\ (n + 1) - 1 = n /\ F[n] = state(n)
    BY <1>1, <1>12
  <2>2. F[n + 1] = GetUnit(units[n + 1], buf, F[n])
    BY <2>1, <1>10
  <2>3. GetUnit(units[n + 1], buf, state(n)) = state(n + 1)
    BY <2>1, <1>4
  <2>. QED  BY <2>1, <2>2, <2>3
<1>. HIDE DEF Q
<1>13. \A n \in Nat : n \in Q
  BY <1>11, <1>12, Induction
<1>14. F[N] = state(N)
  BY <1>1, <1>13 DEF Q
<1>. QED  BY <1>6, <1>9, <1>14, Zenon DEF start

-----------------------------------------------------------------------------
(* Layouts *)

IsFields(fields) ==
  /\ fields \in Seq(Range(fields))
  /\ \A k \in DOMAIN fields : fields[k].type \in FieldTypes

\* What says how much data or how many entries there are is a number that comes
\* before, and an entry of a list has no data.
WellLaid(layout) ==
  /\ IsFields(layout.fields) /\ IsFields(layout.of)
  /\ \A k \in DOMAIN layout.fields : layout.fields[k].type = "data" =>
       \E j \in 1 .. k - 1 : layout.fields[j].name = layout.fields[k].n
  /\ \A k \in DOMAIN layout.of : layout.of[k].type # "data"
  /\ layout.n # "" => \E j \in DOMAIN layout.fields :
       layout.fields[j].name = layout.n /\ layout.fields[j].type = "varint"

\* The fields of a message have values, and counts come before what they count.
LEMMA HeadUnits ==
  ASSUME NEW layout, WellLaid(layout), NEW vals, WellFormed(layout, vals)
  PROVE  LET head == At(layout.fields, 0) IN
         /\ head \in Seq(Range(layout.fields) \X Nat) /\ HasValues(head, vals)
         /\ CountsFirst(head, {})
         /\ layout.n # "" => <<layout.n, 0>> \in Keys(head)
         /\ CountOf(layout, vals) \in Nat
<1>. DEFINE T == Range(layout.fields)
            fields == layout.fields
            head == At(fields, 0)
            N == Len(fields)
<1>1. /\ fields \in Seq(T) /\ DOMAIN fields = 1 .. N /\ N \in Nat
      /\ \A k \in 1 .. N : fields[k].type \in FieldTypes
  <2>1. fields \in Seq(T) /\ \A k \in DOMAIN fields : fields[k].type \in FieldTypes
    BY DEF WellLaid, IsFields
  <2>. HIDE DEF fields, T
  <2>. QED  BY <2>1
<1>2. head = [k \in 1 .. N |-> <<fields[k], 0>>]
  BY <1>1 DEF At
<1>3. head \in Seq(T \X Nat) /\ DOMAIN head = 1 .. N
  <2>. HIDE DEF fields, T
  <2>. QED  BY <1>1, <1>2
<1>4. \A k \in 1 .. N : /\ head[k][1] = fields[k] /\ head[k][2] = 0
                        /\ Key(head[k]) = <<fields[k].name, 0>>
  <2>. HIDE DEF fields
  <2>. QED  BY <1>1, <1>2 DEF Key
<1>5. \A k \in 1 .. N : /\ fields[k].type \in FieldTypes
                        /\ IsValue(fields[k], vals[Key(head[k])], vals)
  <2>1. \A k \in DOMAIN head : IsValue(head[k][1], vals[Key(head[k])], vals)
    BY Zenon DEF WellFormed
  <2>2. \A k \in 1 .. N : fields[k].type \in FieldTypes
    BY <1>1
  <2>. HIDE DEF head
  <2>. QED  BY <2>1, <2>2, <1>3, <1>4
<1>6. \A k \in 1 .. N : fields[k].type = "data" =>
        \E j \in 1 .. k - 1 : fields[j].name = fields[k].n
  BY <1>1 DEF WellLaid
<1>7. layout.n # "" => \E j \in 1 .. N : fields[j].name = layout.n /\ fields[j].type = "varint"
  BY <1>1 DEF WellLaid
<1>. HIDE DEF fields, head, N
<1>8. HasValues(head, vals)
  BY <1>3, <1>4, <1>5 DEF HasValues
<1>9. CountsFirst(head, {})
  <2>1. ASSUME NEW k \in 1 .. N, head[k][1].type = "data"
        PROVE  <<head[k][1].n, 0>> \in KeysUpto(head, k - 1)
    <3>1. PICK j \in 1 .. k - 1 : fields[j].name = fields[k].n
      BY <2>1, <1>4, <1>6
    <3>2. Key(head[j]) = <<head[k][1].n, 0>>
      BY <3>1, <1>1, <1>4
    <3>. QED  BY <3>2 DEF KeysUpto
  <2>. QED  BY <2>1, <1>3 DEF CountsFirst
<1>10. ASSUME layout.n # ""
       PROVE  <<layout.n, 0>> \in Keys(head) /\ vals[<<layout.n, 0>>] \in Nat
  <2>1. PICK j \in 1 .. N : fields[j].name = layout.n /\ fields[j].type = "varint"
    BY <1>7, <1>10
  <2>2. Key(head[j]) = <<layout.n, 0>> /\ IsValue(fields[j], vals[<<layout.n, 0>>], vals)
    BY <2>1, <1>4, <1>5
  <2>3. vals[<<layout.n, 0>>] \in 0 .. VarintMax
    BY <2>1, <2>2, Zenon DEF IsValue
  <2>4. vals[<<layout.n, 0>>] \in Nat
    BY <2>3
  <2>5. <<layout.n, 0>> \in Keys(head)
    BY <2>2, <1>3 DEF Keys
  <2>. QED  BY <2>4, <2>5
<1>11. CountOf(layout, vals) \in Nat
  BY <1>10 DEF CountOf
<1>. QED  BY <1>3, <1>8, <1>9, <1>10, <1>11 DEF head, fields

\* So have the entries of its list.
LEMMA ListUnits ==
  ASSUME NEW layout, WellLaid(layout), NEW vals, WellFormed(layout, vals)
  PROVE  LET list == Entries(layout, CountOf(layout, vals)) IN
         /\ list \in Seq(Range(layout.of) \X Nat)
         /\ HasValues(list, vals)
         /\ \A keys : CountsFirst(list, keys)
<1>. DEFINE T == Range(layout.of)
            of == layout.of
            list == Entries(layout, CountOf(layout, vals))
            pieces == [i \in 1 .. CountOf(layout, vals) |-> At(of, i)]
<1>1. CountOf(layout, vals) \in Nat
  BY HeadUnits
<1>2. of \in Seq(T)
  BY DEF WellLaid, IsFields
<1>2a. \A f \in T : f.type \in FieldTypes /\ f.type # "data"
  BY DEF WellLaid, IsFields, Range
<1>3. ASSUME NEW i \in Nat
      PROVE  At(of, i) \in Seq(T \X Nat)
  <2>. HIDE DEF of, T
  <2>. DEFINE N == Len(of)
  <2>1. DOMAIN of = 1 .. N /\ N \in Nat /\ \A k \in 1 .. N : of[k] \in T
    BY <1>2
  <2>2. At(of, i) = [k \in 1 .. N |-> <<of[k], i>>]
    BY <2>1 DEF At
  <2>3. \A k \in 1 .. N : <<of[k], i>> \in T \X Nat
    BY <2>1, <1>2
  <2>. HIDE DEF N
  <2>. QED  BY <2>1, <2>2, <2>3
<1>4. pieces \in Pieces(T \X Nat)
  <2>1. \A i \in 1 .. CountOf(layout, vals) : At(of, i) \in Seq(T \X Nat)
    BY <1>3
  <2>. DEFINE U == Seq(T \X Nat)
              C == CountOf(layout, vals)
  <2>. HIDE DEF T, of, U, C
  <2>2. [i \in 1 .. C |-> At(of, i)] \in Seq(U)
    BY <2>1, <1>1 DEF U, C
  <2>. QED  BY <2>2 DEF Pieces, U, C
<1>5. list \in Seq(T \X Nat)
  <2>1. list = FlattenSeq(pieces)
    BY Zenon DEF Entries
  <2>. HIDE DEF list, pieces, T
  <2>. QED  BY <2>1, <1>4, FlattenIsSeq
<1>6. \A k \in DOMAIN list : IsValue(list[k][1], vals[Key(list[k])], vals)
  BY Zenon DEF WellFormed
<1>. HIDE DEF list, T
<1>7. \A k \in DOMAIN list : list[k][1].type \in FieldTypes /\ list[k][1].type # "data"
  BY <1>5, <1>2a
<1>8. HasValues(list, vals) /\ \A keys : CountsFirst(list, keys)
  BY <1>6, <1>7 DEF HasValues, CountsFirst
<1>. QED  BY <1>5, <1>8 DEF list, T

LEMMA EncodeIsBytes ==
  ASSUME NEW layout, WellLaid(layout), NEW vals, WellFormed(layout, vals)
  PROVE  /\ PutUnits(At(layout.fields, 0), vals) \in Seq(Byte)
         /\ PutUnits(Entries(layout, CountOf(layout, vals)), vals) \in Seq(Byte)
         /\ Encode(layout, vals) \in Seq(Byte)
<1>. DEFINE T == Range(layout.of)
            head == At(layout.fields, 0)
            list == Entries(layout, CountOf(layout, vals))
<1>1. head \in Seq(Range(layout.fields) \X Nat) /\ HasValues(head, vals)
  BY HeadUnits
<1>2. list \in Seq(T \X Nat) /\ HasValues(list, vals)
  BY ListUnits
<1>. HIDE DEF T, head, list
<1>3. PutUnits(head, vals) \in Seq(Byte) /\ PutUnits(list, vals) \in Seq(Byte)
  BY <1>1, <1>2, PutPiecesType
<1>. QED  BY <1>3 DEF Encode, head, list

\* What Encode puts, Decode gets.
LEMMA LayoutDecodes ==
  ASSUME NEW layout, WellLaid(layout), NEW vals, WellFormed(layout, vals),
         NEW buf \in Seq(Byte), NEW pos \in Nat \ {0}, HasAt(buf, pos, Encode(layout, vals))
  PROVE  Decode(layout, buf, pos) = Decoded(TRUE, vals, pos + Len(Encode(layout, vals)))
<1>. DEFINE T == Range(layout.of)
            head == At(layout.fields, 0)
            count == CountOf(layout, vals)
            list == Entries(layout, count)
            x == PutUnits(head, vals)
            y == PutUnits(list, vals)
            first == Restrict(vals, Keys(head))
            next == pos + Len(x)
<1>1. /\ head \in Seq(Range(layout.fields) \X Nat) /\ HasValues(head, vals) /\ CountsFirst(head, {})
      /\ layout.n # "" => <<layout.n, 0>> \in Keys(head)
  BY HeadUnits
<1>2. list \in Seq(T \X Nat) /\ HasValues(list, vals) /\ CountsFirst(list, Keys(head))
  BY ListUnits
<1>3. x \in Seq(Byte) /\ y \in Seq(Byte)
  BY EncodeIsBytes
<1>4. Encode(layout, vals) = x \o y
  BY Zenon DEF Encode
<1>5. vals = Restrict(vals, Keys(head) \cup Keys(list))
  BY Zenon DEF WellFormed
<1>. HIDE DEF T, head, list, x, y
<1>6. HasAt(buf, pos, x) /\ HasAt(buf, next, y) /\ next \in Nat \ {0}
      /\ next + Len(y) = pos + Len(x \o y)
  <2>1. HasAt(buf, pos, x) /\ HasAt(buf, pos + Len(x), y)
    BY <1>3, <1>4, HasBoth
  <2>. QED  BY <2>1, <1>3
<1>. HIDE DEF next
<1>7. GetUnits(head, buf, Decoded(TRUE, NoValues, pos)) = Decoded(TRUE, first, next)
  <2>1. HasAt(buf, pos, PutUnits(head, vals))
    BY <1>6 DEF x
  <2>2. GetUnits(head, buf, Decoded(TRUE, Restrict(vals, {}), pos))
          = Decoded(TRUE, Restrict(vals, {} \cup Keys(head)), pos + Len(PutUnits(head, vals)))
    BY <1>1, <2>1, UnitsDecode
  <2>3. Restrict(vals, {}) = NoValues
    BY DEF Restrict, NoValues
  <2>4. {} \cup Keys(head) = Keys(head)
    OBVIOUS
  <2>. QED  BY <2>2, <2>3, <2>4, Zenon DEF x, next
<1>8. GetUnits(list, buf, Decoded(TRUE, first, next)) = Decoded(TRUE, vals, next + Len(y))
  <2>1. HasAt(buf, next, PutUnits(list, vals))
    BY <1>6 DEF y
  <2>2. GetUnits(list, buf, Decoded(TRUE, Restrict(vals, Keys(head)), next))
          = Decoded(TRUE, Restrict(vals, Keys(head) \cup Keys(list)),
                    next + Len(PutUnits(list, vals)))
    BY <1>2, <1>6, <2>1, UnitsDecode
  <2>. QED  BY <2>2, <1>5, Zenon DEF y
<1>9. CountOf(layout, first) = count
  <2>1. layout.n # "" => first[<<layout.n, 0>>] = vals[<<layout.n, 0>>]
    BY <1>1 DEF Restrict
  <2>. QED  BY <2>1 DEF CountOf
<1>. DEFINE after == Decoded(TRUE, first, next)
<1>10. after.ok = TRUE /\ after.vals = first
  BY DEF Decoded
<1>11. Decode(layout, buf, pos) = GetUnits(list, buf, after)
  <2>. HIDE DEF after, first, count
  <2>1. GetUnits(At(layout.fields, 0), buf, Decoded(TRUE, NoValues, pos)) = after
    BY <1>7, Zenon DEF after, head
  <2>2. Decode(layout, buf, pos)
         = IF after.ok THEN GetUnits(Entries(layout, CountOf(layout, after.vals)), buf, after)
                                   ELSE after
    BY <2>1, Zenon DEF Decode
  <2>3. Entries(layout, CountOf(layout, after.vals)) = list
    BY <1>9, <1>10, Zenon DEF list
  <2>. QED  BY <2>2, <2>3, <1>10, Zenon
<1>. QED  BY <1>4, <1>6, <1>8, <1>11, Zenon

-----------------------------------------------------------------------------
(* The tables *)

\* The tables of the client and of the server agree, though each has its own code.
LEMMA ClientIsServer ==
  ClientLayout = ServerLayout
<1>1. ClientSession = ServerSession
  BY DEF ClientSession, ServerSession
<1>2. ClientDevice = ServerDevice
  BY DEF ClientDevice, ServerDevice
<1>3. ClientRegister = ServerRegister
  BY DEF ClientRegister, ServerRegister, RegInfo, ServerRegInfo
<1>4. ClientMemory = ServerMemory
  BY DEF ClientMemory, ServerMemory
<1>. QED  BY <1>1, <1>2, <1>3, <1>4 DEF ClientLayout, ServerLayout

Laid(table) == \A m \in DOMAIN table : WellLaid(table[m].cmd) /\ WellLaid(table[m].rsp)

LEMMA JoinedLaid ==
  ASSUME NEW f, NEW g, Laid(f), Laid(g)
  PROVE  Laid(Joined(f, g))
<1>. DEFINE h == Joined(f, g)
<1>1. DOMAIN h = DOMAIN f \cup DOMAIN g
  BY DEF Joined
<1>2. Laid(h)
  <2>1. ASSUME NEW m \in DOMAIN h
        PROVE  WellLaid(h[m].cmd) /\ WellLaid(h[m].rsp)
    <3>1. CASE m \in DOMAIN f
      <4>1. h[m] = f[m]
        BY <3>1, Zenon DEF Joined
      <4>. HIDE DEF h
      <4>. QED  BY <3>1, <4>1, Zenon DEF Laid
    <3>2. CASE m \notin DOMAIN f
      <4>1. h[m] = g[m] /\ m \in DOMAIN g
        BY <1>1, <3>2 DEF Joined
      <4>. HIDE DEF h
      <4>. QED  BY <4>1, Zenon DEF Laid
    <3>. QED  BY <3>1, <3>2
  <2>. HIDE DEF h
  <2>. QED  BY <2>1, Zenon DEF Laid
<1>. QED  BY <1>2 DEF h

LEMMA Fields0 ==
  IsFields(<<>>) /\ DOMAIN <<>> = {}
<1>1. \A U : <<>> \in Seq(U)
  OBVIOUS
<1>2. DOMAIN <<>> = {}
  OBVIOUS
<1>. DEFINE t == <<>>
<1>3. (\A U : t \in Seq(U)) /\ DOMAIN t = {}
  BY <1>1, <1>2
<1>. HIDE DEF t
<1>4. IsFields(t)
  BY <1>3 DEF IsFields
<1>. QED  BY <1>3, <1>4 DEF t

\* The bytes are as many as an earlier field says.
LEMMA BytesLaid ==
  ASSUME NEW fields, IsFields(fields),
         \A k \in DOMAIN fields : fields[k].type = "data" =>
           \E j \in 1 .. k - 1 : fields[j].name = fields[k].n
  PROVE  WellLaid(Fields(fields))
<1>1. Fields(fields).fields = fields /\ Fields(fields).n = "" /\ Fields(fields).of = <<>>
  BY DEF Fields, Listed
<1>. DEFINE l == Fields(fields)
<1>. HIDE DEF l
<1>2. l.fields = fields /\ l.n = "" /\ l.of = <<>>
  BY <1>1 DEF l
<1>3. WellLaid(l)
  <2>1. IsFields(l.of) /\ DOMAIN l.of = {}
    BY <1>2, Fields0, Zenon
  <2>. QED  BY <1>2, <2>1 DEF WellLaid
<1>. QED  BY <1>3 DEF l

\* A message that ends in a list.
LEMMA ListLaid ==
  ASSUME NEW fields, IsFields(fields), NEW of, IsFields(of), NEW n,
         \A k \in DOMAIN fields : fields[k].type # "data",
         \A k \in DOMAIN of : of[k].type # "data",
         \E j \in DOMAIN fields : fields[j].name = n /\ fields[j].type = "varint"
  PROVE  WellLaid(Listed(fields, n, of))
<1>. DEFINE l == Listed(fields, n, of)
<1>1. l.fields = fields /\ l.n = n /\ l.of = of
  BY DEF Listed
<1>. HIDE DEF l
<1>2. WellLaid(l)
  BY <1>1 DEF WellLaid
<1>. QED  BY <1>2 DEF l

Scalar(f) == f.type \in FieldTypes /\ f.type # "data"

LEMMA FieldFacts ==
  \A x :
    /\ Scalar(V(x)) /\ V(x).type = "varint" /\ V(x).name = x
    /\ Scalar(U32(x)) /\ Scalar(U64(x)) /\ Scalar(S(x))
    /\ \A n : D(x, n).type \in FieldTypes /\ D(x, n).n = n
BY DEF Scalar, FieldTypes, V, U32, U64, S, D, Field

\* Messages of up to five fields that are no data.
LEMMA ScalarsLaid ==
  /\ WellLaid(NoFields)
  /\ \A a : Scalar(a) => WellLaid(Fields(<<a>>))
  /\ \A a, b : Scalar(a) /\ Scalar(b) => WellLaid(Fields(<<a, b>>))
  /\ \A a, b, c : Scalar(a) /\ Scalar(b) /\ Scalar(c) => WellLaid(Fields(<<a, b, c>>))
  /\ \A a, b, c, d, e : Scalar(a) /\ Scalar(b) /\ Scalar(c) /\ Scalar(d) /\ Scalar(e)
       => WellLaid(Fields(<<a, b, c, d, e>>))
<1>1. WellLaid(NoFields)
  BY BytesLaid, Fields0, Zenon DEF NoFields
<1>2. ASSUME NEW t, IsFields(t), \A k \in DOMAIN t : t[k].type # "data"
      PROVE  WellLaid(Fields(t))
  BY <1>2, BytesLaid
<1>3. ASSUME NEW a, Scalar(a)
      PROVE  WellLaid(Fields(<<a>>))
  <2>1. IsFields(<<a>>) /\ \A k \in DOMAIN <<a>> : <<a>>[k].type # "data"
    BY <1>3 DEF IsFields, Range, Scalar
  <2>. QED  BY <2>1, <1>2
<1>4. ASSUME NEW a, NEW b, Scalar(a), Scalar(b)
      PROVE  WellLaid(Fields(<<a, b>>))
  <2>1. IsFields(<<a, b>>) /\ \A k \in DOMAIN <<a, b>> : <<a, b>>[k].type # "data"
    BY <1>4 DEF IsFields, Range, Scalar
  <2>. QED  BY <2>1, <1>2
<1>5. ASSUME NEW a, NEW b, NEW c, Scalar(a), Scalar(b), Scalar(c)
      PROVE  WellLaid(Fields(<<a, b, c>>))
  <2>1. IsFields(<<a, b, c>>) /\ \A k \in DOMAIN <<a, b, c>> : <<a, b, c>>[k].type # "data"
    BY <1>5 DEF IsFields, Range, Scalar
  <2>. QED  BY <2>1, <1>2
<1>6. ASSUME NEW a, NEW b, NEW c, NEW d, NEW e,
             Scalar(a), Scalar(b), Scalar(c), Scalar(d), Scalar(e)
      PROVE  WellLaid(Fields(<<a, b, c, d, e>>))
  <2>1. /\ IsFields(<<a, b, c, d, e>>)
        /\ \A k \in DOMAIN <<a, b, c, d, e>> : <<a, b, c, d, e>>[k].type # "data"
    BY <1>6 DEF IsFields, Range, Scalar
  <2>. QED  BY <2>1, <1>2
<1>. QED  BY <1>1, <1>3, <1>4, <1>5, <1>6

LEMMA SessionLaid ==
  Laid(ClientSession)
<1>1. WellLaid(Fields(<<V("format"), V("size"), D("data", "size")>>))
  <2>. DEFINE f == <<V("format"), V("size"), D("data", "size")>>
  <2>1. IsFields(f)
    BY FieldFacts DEF IsFields, Range, Scalar
  <2>2. \A k \in DOMAIN f : f[k].type = "data" => f[2].name = f[k].n /\ 2 \in 1 .. k - 1
    BY FieldFacts DEF Scalar
  <2>. HIDE DEF f
  <2>. QED  BY <2>1, <2>2, BytesLaid DEF f
<1>2. WellLaid(Listed(<<V("deviceCount")>>, "deviceCount", <<S("device"), S("type")>>))
  <2>. DEFINE f == <<V("deviceCount")>>
              of == <<S("device"), S("type")>>
  <2>1. /\ IsFields(f) /\ IsFields(of) /\ f[1].name = "deviceCount" /\ f[1].type = "varint"
        /\ 1 \in DOMAIN f /\ \A k \in DOMAIN f : f[k].type # "data"
        /\ \A k \in DOMAIN of : of[k].type # "data"
    BY FieldFacts DEF IsFields, Range, Scalar
  <2>. HIDE DEF f, of
  <2>. QED  BY <2>1, ListLaid DEF f, of
<1>3. DOMAIN ClientSession
        = {"INIT", "TERM", "CLIENT_INFO", "SET_DEVICES", "GET_DEVICES", "GET_SYSTEM_DESCRIPTION"}
  BY DEF ClientSession
<1>4. ASSUME NEW m \in DOMAIN ClientSession
      PROVE  WellLaid(ClientSession[m].cmd) /\ WellLaid(ClientSession[m].rsp)
  <2>1. CASE m = "INIT"
    BY <2>1, FieldFacts, ScalarsLaid DEF ClientSession, Layout
  <2>2. CASE m = "TERM"
    BY <2>2, FieldFacts, ScalarsLaid DEF ClientSession, Layout, Bare
  <2>3. CASE m = "CLIENT_INFO"
    BY <2>3, FieldFacts, ScalarsLaid DEF ClientSession, Layout
  <2>4. CASE m = "SET_DEVICES"
    BY <2>4, <1>2, ScalarsLaid DEF ClientSession, Layout
  <2>5. CASE m = "GET_DEVICES"
    BY <2>5, <1>2, ScalarsLaid DEF ClientSession, Layout
  <2>6. CASE m = "GET_SYSTEM_DESCRIPTION"
    BY <2>6, <1>1, ScalarsLaid DEF ClientSession, Layout
  <2>. QED  BY <1>3, <2>1, <2>2, <2>3, <2>4, <2>5, <2>6
<1>. QED  BY <1>4, Zenon DEF Laid

LEMMA DeviceLaid ==
  Laid(ClientDevice)
<1>1. DOMAIN ClientDevice
        = {"DEVICE_OPEN", "DEVICE_CLOSE", "SET_CONFIG", "GET_CONFIG", "GET_DEVICE_CAPABILITIES"}
  BY DEF ClientDevice
<1>2. ASSUME NEW m \in DOMAIN ClientDevice
      PROVE  WellLaid(ClientDevice[m].cmd) /\ WellLaid(ClientDevice[m].rsp)
  <2>1. CASE m = "DEVICE_OPEN"
    BY <2>1, FieldFacts, ScalarsLaid DEF ClientDevice, Layout
  <2>2. CASE m = "DEVICE_CLOSE"
    BY <2>2, FieldFacts, ScalarsLaid DEF ClientDevice, Layout
  <2>3. CASE m = "SET_CONFIG"
    BY <2>3, FieldFacts, ScalarsLaid DEF ClientDevice, Layout
  <2>4. CASE m = "GET_CONFIG"
    BY <2>4, FieldFacts, ScalarsLaid DEF ClientDevice, Layout
  <2>5. CASE m = "GET_DEVICE_CAPABILITIES"
    BY <2>5, FieldFacts, ScalarsLaid DEF ClientDevice, Layout
  <2>. QED  BY <1>1, <2>1, <2>2, <2>3, <2>4, <2>5
<1>. QED  BY <1>2, Zenon DEF Laid

LEMMA RegisterLaid ==
  Laid(ClientRegister)
<1>1. WellLaid(Listed(<<V("count")>>, "count",
                      <<V("id"), S("name"), V("size"), S("displayName"), S("description")>>))
  <2>. DEFINE f == <<V("count")>>
              of == <<V("id"), S("name"), V("size"), S("displayName"), S("description")>>
  <2>1. /\ IsFields(f) /\ IsFields(of) /\ f[1].name = "count" /\ f[1].type = "varint"
        /\ 1 \in DOMAIN f /\ \A k \in DOMAIN f : f[k].type # "data"
        /\ \A k \in DOMAIN of : of[k].type # "data"
    BY FieldFacts DEF IsFields, Range, Scalar
  <2>. HIDE DEF f, of
  <2>. QED  BY <2>1, ListLaid DEF f, of
<1>2. WellLaid(Listed(<<V("deviceNo"), V("count")>>, "count", <<V("id")>>))
  <2>. DEFINE f == <<V("deviceNo"), V("count")>>
              of == <<V("id")>>
  <2>1. /\ IsFields(f) /\ IsFields(of) /\ f[2].name = "count" /\ f[2].type = "varint"
        /\ 2 \in DOMAIN f /\ \A k \in DOMAIN f : f[k].type # "data"
        /\ \A k \in DOMAIN of : of[k].type # "data"
    BY FieldFacts DEF IsFields, Range, Scalar
  <2>. HIDE DEF f, of
  <2>. QED  BY <2>1, ListLaid DEF f, of
<1>3. WellLaid(Listed(<<V("count")>>, "count", <<U32("value")>>))
  <2>. DEFINE f == <<V("count")>>
              of == <<U32("value")>>
  <2>1. /\ IsFields(f) /\ IsFields(of) /\ f[1].name = "count" /\ f[1].type = "varint"
        /\ 1 \in DOMAIN f /\ \A k \in DOMAIN f : f[k].type # "data"
        /\ \A k \in DOMAIN of : of[k].type # "data"
    BY FieldFacts DEF IsFields, Range, Scalar
  <2>. HIDE DEF f, of
  <2>. QED  BY <2>1, ListLaid DEF f, of
<1>4. WellLaid(Listed(<<V("deviceNo"), V("count")>>, "count", <<V("id"), U32("value")>>))
  <2>. DEFINE f == <<V("deviceNo"), V("count")>>
              of == <<V("id"), U32("value")>>
  <2>1. /\ IsFields(f) /\ IsFields(of) /\ f[2].name = "count" /\ f[2].type = "varint"
        /\ 2 \in DOMAIN f /\ \A k \in DOMAIN f : f[k].type # "data"
        /\ \A k \in DOMAIN of : of[k].type # "data"
    BY FieldFacts DEF IsFields, Range, Scalar
  <2>. HIDE DEF f, of
  <2>. QED  BY <2>1, ListLaid DEF f, of
<1>5. DOMAIN ClientRegister = {"REG_LIST", "REG_READ", "REG_WRITE"}
  BY DEF ClientRegister
<1>6. ASSUME NEW m \in DOMAIN ClientRegister
      PROVE  WellLaid(ClientRegister[m].cmd) /\ WellLaid(ClientRegister[m].rsp)
  <2>1. CASE m = "REG_LIST"
    BY <2>1, <1>1, FieldFacts, ScalarsLaid DEF ClientRegister, Layout, RegInfo
  <2>2. CASE m = "REG_READ"
    BY <2>2, <1>2, <1>3, FieldFacts, ScalarsLaid DEF ClientRegister, Layout
  <2>3. CASE m = "REG_WRITE"
    BY <2>3, <1>4, FieldFacts, ScalarsLaid DEF ClientRegister, Layout
  <2>. QED  BY <1>5, <2>1, <2>2, <2>3
<1>. QED  BY <1>6, Zenon DEF Laid

LEMMA MemoryLaid ==
  Laid(ClientMemory)
<1>1. WellLaid(Fields(<<V("size"), D("data", "size")>>))
  <2>. DEFINE f == <<V("size"), D("data", "size")>>
  <2>1. IsFields(f)
    BY FieldFacts DEF IsFields, Range, Scalar
  <2>2. \A k \in DOMAIN f : f[k].type = "data" => f[1].name = f[k].n /\ 1 \in 1 .. k - 1
    BY FieldFacts DEF Scalar
  <2>. HIDE DEF f
  <2>. QED  BY <2>1, <2>2, BytesLaid DEF f
<1>2. WellLaid(Fields(<<V("deviceNo"), U64("address"), V("size"), V("accessSize"), V("flags"),
              D("data", "size")>>))
  <2>. DEFINE f == <<V("deviceNo"), U64("address"), V("size"), V("accessSize"), V("flags"),
              D("data", "size")>>
  <2>1. IsFields(f)
    BY FieldFacts DEF IsFields, Range, Scalar
  <2>2. \A k \in DOMAIN f : f[k].type = "data" => f[3].name = f[k].n /\ 3 \in 1 .. k - 1
    BY FieldFacts DEF Scalar
  <2>. HIDE DEF f
  <2>. QED  BY <2>1, <2>2, BytesLaid DEF f
<1>3. WellLaid(Fields(<<V("deviceNo"), U64("address"), V("size"), V("accessSize"), V("flags"),
              V("tries"), V("interval"), D("mask", "size"), D("value", "size")>>))
  <2>. DEFINE f == <<V("deviceNo"), U64("address"), V("size"), V("accessSize"), V("flags"),
              V("tries"), V("interval"), D("mask", "size"), D("value", "size")>>
  <2>1. IsFields(f)
    BY FieldFacts DEF IsFields, Range, Scalar
  <2>2. \A k \in DOMAIN f : f[k].type = "data" => f[3].name = f[k].n /\ 3 \in 1 .. k - 1
    BY FieldFacts DEF Scalar
  <2>. HIDE DEF f
  <2>. QED  BY <2>1, <2>2, BytesLaid DEF f
<1>4. DOMAIN ClientMemory = {"MEM_READ", "MEM_WRITE", "MEM_POLL"}
  BY DEF ClientMemory
<1>5. ASSUME NEW m \in DOMAIN ClientMemory
      PROVE  WellLaid(ClientMemory[m].cmd) /\ WellLaid(ClientMemory[m].rsp)
  <2>1. CASE m = "MEM_READ"
    BY <2>1, <1>1, FieldFacts, ScalarsLaid DEF ClientMemory, Layout
  <2>2. CASE m = "MEM_WRITE"
    BY <2>2, <1>2, FieldFacts, ScalarsLaid DEF ClientMemory, Layout
  <2>3. CASE m = "MEM_POLL"
    BY <2>3, <1>3, <1>1, FieldFacts, ScalarsLaid DEF ClientMemory, Layout
  <2>. QED  BY <1>4, <2>1, <2>2, <2>3
<1>. QED  BY <1>5, Zenon DEF Laid

LEMMA ClientCommands ==
  DOMAIN ClientLayout = Commands
BY DEF Commands, Codes, ClientLayout, Joined, ClientSession, ClientDevice, ClientRegister,
  ClientMemory

\* Every command and every reply is laid out so.
LEMMA AllLaid ==
  \A m \in Commands : WellLaid(ClientLayout[m].cmd) /\ WellLaid(ClientLayout[m].rsp)
<1>1. Laid(Joined(ClientSession, ClientDevice)) /\ Laid(Joined(ClientRegister, ClientMemory))
  BY SessionLaid, DeviceLaid, RegisterLaid, MemoryLaid, JoinedLaid
<1>2. Laid(ClientLayout)
  BY <1>1, JoinedLaid DEF ClientLayout
<1>. QED  BY <1>2, ClientCommands DEF Laid

\* Each command has its own code.
LEMMA CodesDiffer ==
  \A m \in Commands : Codes[m] \in Nat /\ CommandOf(Codes[m]) = m /\ m # "NONE"
<1>1. \A m \in Commands : Codes[m] \in Nat /\ m # "NONE"
  BY DEF Commands, Codes
<1>2. \A m, n \in Commands : Codes[m] = Codes[n] => m = n
  BY DEF Commands, Codes
<1>. QED  BY <1>1, <1>2 DEF CommandOf

-----------------------------------------------------------------------------
(* One message *)

\* Whatever values a message has, what one side gets from its bytes are these values,
\* wherever in a buffer they lie, and it ends where they end: for every command the
\* client encodes (cswp_client_commands.c) and the server decodes
\* (cswp_server_commands.c), and for every successful reply, the other way round.
THEOREM MessagesDecode ==
  ASSUME NEW m \in Commands, NEW vals, NEW buf \in Seq(Byte), NEW pos \in Nat \ {0}
  PROVE  /\ LET there == ClientLayout[m].cmd IN
            WellFormed(there, vals) /\ HasAt(buf, pos, Encode(there, vals)) =>
              Decode(ServerLayout[m].cmd, buf, pos)
                = Decoded(TRUE, vals, pos + Len(Encode(there, vals)))
         /\ LET back == ServerLayout[m].rsp IN
            WellFormed(back, vals) /\ HasAt(buf, pos, Encode(back, vals)) =>
              Decode(ClientLayout[m].rsp, buf, pos)
                = Decoded(TRUE, vals, pos + Len(Encode(back, vals)))
<1>1. /\ ServerLayout[m].cmd = ClientLayout[m].cmd /\ ServerLayout[m].rsp = ClientLayout[m].rsp
      /\ WellLaid(ClientLayout[m].cmd) /\ WellLaid(ClientLayout[m].rsp)
  BY ClientIsServer, AllLaid
<1>2. \A layout :
        WellLaid(layout) /\ WellFormed(layout, vals) /\ HasAt(buf, pos, Encode(layout, vals)) =>
          Decode(layout, buf, pos) = Decoded(TRUE, vals, pos + Len(Encode(layout, vals)))
  BY LayoutDecodes
<1>. QED  BY <1>1, <1>2

-----------------------------------------------------------------------------
(* Messages with their length *)

LEMMA HasAll ==
  ASSUME NEW T, NEW x \in Seq(T)
  PROVE  HasAt(x, 1, x)
<1>1. \A j \in 1 .. Len(x) : 1 + j - 1 = j
  OBVIOUS
<1>. QED  BY <1>1 DEF HasAt

LEMMA ConcatLen ==
  ASSUME NEW T, NEW x \in Seq(T), NEW y \in Seq(T)
  PROVE  x \o y \in Seq(T) /\ Len(x \o y) = Len(x) + Len(y)
OBVIOUS

\* A message that fits a buffer has a length that fits its header.
LEMMA FitsIsUint32 ==
  ASSUME NEW body \in Seq(Byte), Fits(body)
  PROVE  /\ Len(Framed(body)) \in Nat /\ Len(Framed(body)) = Len(body) + 4
         /\ Len(Framed(body)) <= BUFFER_SIZE
         /\ Uint32(Len(Framed(body))) /\ Framed(body) \in Seq(Byte)
         /\ Framed(body) = PutUint32(Len(Framed(body))) \o body
         /\ HasAt(Framed(body), 1, PutUint32(Len(Framed(body))))
         /\ HasAt(Framed(body), 5, body)
<1>. DEFINE n == Len(body) + 4
            size == PutUint32(n)
<1>1. n \in Nat
  OBVIOUS
<1>2. Len(size) = 4 /\ size \in Seq(Byte)
  <2>. HIDE DEF n
  <2>. QED  BY <1>1, PutsFourBytes
<1>3. Len(Framed(body)) = n
  <2>2. Framed(body) = size \o body
    BY DEF Framed
  <2>. HIDE DEF size
  <2>3. Len(size \o body) = Len(size) + Len(body)
    <3>1. size \in Seq(Byte) /\ body \in Seq(Byte)
      BY <1>2
    <3>. QED  BY <3>1, ConcatLen
  <2>. QED  BY <2>2, <2>3, <1>2
<1>4. n <= BUFFER_SIZE
  BY <1>3 DEF Fits
<1>5. Uint32(n)
  <2>. HIDE DEF n
  <2>1. BUFFER_SIZE \in Int /\ BUFFER_SIZE <= VarintMax
    BY WireAssumption
  <2>. QED  BY <1>1, <1>4, <2>1, SMT DEF Uint32, VarintMax
<1>6. size \in Seq(Byte)
  BY <1>2
<1>7. Framed(body) = size \o body
  BY DEF Framed
<1>. HIDE DEF size, n
<1>8. Framed(body) \in Seq(Byte)
  BY <1>6, <1>7
<1>9. HasAt(size \o body, 1, size) /\ HasAt(size \o body, 5, body)
  <2>1. size \o body \in Seq(Byte)
    BY <1>6
  <2>2. HasAt(size \o body, 1, size \o body)
    BY <2>1, HasAll
  <2>3. 1 \in Nat \ {0} /\ 1 + Len(size) = 5
    BY <1>2
  <2>4. HasAt(size \o body, 1, size) /\ HasAt(size \o body, 1 + Len(size), body)
    BY <1>6, <2>1, <2>2, <2>3, HasBoth
  <2>. QED  BY <2>3, <2>4
<1>10. n = Len(body) + 4
  BY DEF n
<1>. QED  BY <1>1, <1>3, <1>4, <1>5, <1>7, <1>8, <1>9, <1>10 DEF size

\* The bytes of got are the first of the message.
LEMMA LengthKnown ==
  ASSUME NEW body \in Seq(Byte), Fits(body), NEW g \in Seq(Byte), Len(g) >= 4,
         HasAt(Framed(body), 1, g)
  PROVE  GetUint32(g, 1).val = Len(Framed(body))
<1>. DEFINE m == Framed(body)
            size == PutUint32(Len(m))
<1>1. Uint32(Len(m)) /\ HasAt(m, 1, size) /\ Len(size) = 4
  BY FitsIsUint32, Uint32IsBytes
<1>. HIDE DEF size, m
<1>2. HasAt(g, 1, size)
  <2>1. \A j \in 1 .. 4 : m[1 + j - 1] = size[j] /\ m[1 + j - 1] = g[j] /\ 1 + j - 1 = j
    BY <1>1 DEF HasAt, m
  <2>. QED  BY <1>1, <2>1 DEF HasAt
<1>3. GetUint32(g, 1) = Got(Len(m), 1 + 4)
  BY <1>1, <1>2, Uint32Decodes DEF size
<1>. QED  BY <1>3 DEF Got, m

-----------------------------------------------------------------------------
(* Requests *)

\* The bytes of each command, those of the first n, and what is in front of them.
CommandPieces(request) == [k \in DOMAIN request |-> PutCommand(request[k])]
CommandsUpto(request, n) == FlattenSeq(SubSeq(CommandPieces(request), 1, n))
RequestHeader(request, batchMode) == VarintBytes[Len(request)] \o <<batchMode>>

LEMMA CommandIsBytes ==
  ASSUME NEW c, c.name \in Commands, WellFormed(ClientLayout[c.name].cmd, c.vals)
  PROVE  /\ VarintBytes[Codes[c.name]] \in Seq(Byte) /\ Len(VarintBytes[Codes[c.name]]) > 0
         /\ Encode(ClientLayout[c.name].cmd, c.vals) \in Seq(Byte)
         /\ PutCommand(c) \in Seq(Byte) /\ Len(PutCommand(c)) > 0
<1>. DEFINE x == VarintBytes[Codes[c.name]]
            y == Encode(ClientLayout[c.name].cmd, c.vals)
<1>1. x \in Seq(Byte) /\ Len(x) > 0
  <2>1. Codes[c.name] \in Nat
    BY CodesDiffer
  <2>. QED  BY <2>1, VarintIsBytes
<1>2. y \in Seq(Byte)
  <2>1. WellLaid(ClientLayout[c.name].cmd)
    BY AllLaid
  <2>. QED  BY <2>1, EncodeIsBytes
<1>3. PutCommand(c) = x \o y
  BY Zenon DEF PutCommand
<1>. HIDE DEF x, y
<1>4. x \o y \in Seq(Byte) /\ Len(x \o y) > 0
  BY <1>1, <1>2
<1>. QED  BY <1>1, <1>2, <1>3, <1>4 DEF x, y

LEMMA CommandsAreBytes ==
  ASSUME NEW request, IsRequest(request)
  PROVE  /\ CommandPieces(request) \in Pieces(Byte)
         /\ Len(CommandPieces(request)) = Len(request)
         /\ \A k \in 1 .. Len(request) : CommandPieces(request)[k] = PutCommand(request[k])
         /\ FlattenSeq(CommandPieces(request)) \in Seq(Byte)
<1>1. DOMAIN request = 1 .. Len(request) /\ Len(request) \in Nat
  BY DEF IsRequest
<1>2. \A k \in 1 .. Len(request) : PutCommand(request[k]) \in Seq(Byte)
  BY <1>1, CommandIsBytes DEF IsRequest
<1>3. CommandPieces(request) = [k \in 1 .. Len(request) |-> PutCommand(request[k])]
  BY <1>1 DEF CommandPieces
<1>4. CommandPieces(request) \in Pieces(Byte) /\ Len(CommandPieces(request)) = Len(request)
  <2>. DEFINE U == Seq(Byte)
              N == Len(request)
  <2>1. \A k \in 1 .. N : PutCommand(request[k]) \in U
    BY <1>2
  <2>. HIDE DEF U, N
  <2>2. /\ [k \in 1 .. N |-> PutCommand(request[k])] \in Seq(U)
        /\ Len([k \in 1 .. N |-> PutCommand(request[k])]) = N
    BY <2>1, <1>1 DEF N
  <2>. QED  BY <2>2, <1>3 DEF Pieces, U, N
<1>5. \A k \in 1 .. Len(request) : CommandPieces(request)[k] = PutCommand(request[k])
  BY <1>3
<1>. QED  BY <1>4, <1>5, FlattenIsSeq

LEMMA RequestParts ==
  ASSUME NEW request, IsRequest(request), NEW m \in BatchModes
  PROVE  /\ RequestHeader(request, m) \in Seq(Byte)
         /\ Request(request, m) \in Seq(Byte)
         /\ Request(request, m) = RequestHeader(request, m) \o FlattenSeq(CommandPieces(request))
<1>. DEFINE x == VarintBytes[Len(request)]
            y == FlattenSeq(CommandPieces(request))
<1>1. x \in Seq(Byte)
  <2>1. Len(request) \in Nat
    BY DEF IsRequest
  <2>. QED  BY <2>1, VarintIsBytes
<1>2. y \in Seq(Byte)
  BY CommandsAreBytes
<1>3. Request(request, m) = x \o <<m>> \o y
  BY Zenon DEF Request, CommandPieces
<1>4. RequestHeader(request, m) = x \o <<m>>
  BY DEF RequestHeader
<1>5. <<m>> \in Seq(Byte)
  BY DEF BatchModes, Byte
<1>. HIDE DEF x, y
<1>6. x \o <<m>> \in Seq(Byte)
  BY <1>1, <1>5
<1>. QED  BY <1>2, <1>3, <1>4, <1>6 DEF y

\* The server reads from a request how many commands there are and the error mode.
LEMMA RequestDecodes ==
  ASSUME NEW request, IsRequest(request), NEW m \in BatchModes, Fits(Request(request, m)),
         NEW buf, buf = Framed(Request(request, m))
  PROVE  LET start == 5 + Len(RequestHeader(request, m)) IN
         /\ buf \in Seq(Byte) /\ start \in Nat \ {0}
         /\ Header(buf).num = Len(request)
         /\ Header(buf).errorMode = Got(m, start)
         /\ HasAt(buf, start, FlattenSeq(CommandPieces(request)))
         /\ Len(buf) + 1 = start + Len(FlattenSeq(CommandPieces(request)))
<1>. DEFINE x == VarintBytes[Len(request)]
            h == RequestHeader(request, m)
            y == FlattenSeq(CommandPieces(request))
            start == 5 + Len(h)
            body == Request(request, m)
            next == 5 + Len(x)
<1>1. Len(request) \in Nat
  BY DEF IsRequest
<1>2. x \in Seq(Byte) /\ h = x \o <<m>>
  BY <1>1, VarintIsBytes DEF RequestHeader
<1>3. h \in Seq(Byte) /\ y \in Seq(Byte) /\ body = h \o y /\ body \in Seq(Byte)
  BY RequestParts, CommandsAreBytes
<1>4. buf \in Seq(Byte) /\ HasAt(buf, 5, body) /\ Len(buf) = Len(body) + 4
  BY <1>3, FitsIsUint32
<1>. HIDE DEF x, h, y, body
<1>5. HasAt(buf, 5, h) /\ HasAt(buf, start, y)
  BY <1>3, <1>4, HasBoth
<1>6. <<m>> \in Seq(Byte) /\ Len(<<m>>) = 1
  BY DEF BatchModes, Byte
<1>7. HasAt(buf, 5, x) /\ HasAt(buf, next, <<m>>)
  <2>. DEFINE z == <<m>>
  <2>1. z \in Seq(Byte) /\ HasAt(buf, 5, x \o z)
    BY <1>2, <1>5, <1>6
  <2>. HIDE DEF z
  <2>2. HasAt(buf, 5, x) /\ HasAt(buf, next, z)
    BY <1>2, <1>4, <2>1, HasBoth
  <2>. QED  BY <2>2 DEF z
<1>8. GetVarint(buf, 5) = Got(Len(request), next)
  BY <1>1, <1>4, <1>7, VarintDecodes DEF x
<1>9. start = next + 1 /\ next \in Nat \ {0} /\ start \in Nat \ {0}
      /\ Len(buf) + 1 = start + Len(y)
  <2>1. Len(h) = Len(x) + Len(<<m>>) /\ Len(body) = Len(h) + Len(y)
    BY <1>2, <1>3, <1>6, ConcatLen
  <2>. QED  BY <2>1, <1>2, <1>3, <1>4, <1>6
<1>. HIDE DEF next, start
<1>10. GetUint8(buf, next) = Got(m, start)
  <2>1. buf[next] = m /\ next <= Len(buf)
    <3>1. next + 1 - 1 = next /\ next + Len(<<m>>) - 1 = next
      BY <1>9, <1>6
    <3>2. 1 \in 1 .. Len(<<m>>) /\ <<m>>[1] = m
      BY <1>6
    <3>. QED  BY <1>7, <3>1, <3>2 DEF HasAt
  <2>. QED  BY <2>1, <1>9 DEF GetUint8, Holds
<1>11. Header(buf).num = Len(request) /\ Header(buf).errorMode = GetUint8(buf, next)
  BY <1>8 DEF Header, Got
<1>. QED  BY <1>4, <1>5, <1>9, <1>10, <1>11 DEF start, h, y

\* The next command is decoded as it was put, and ends where the one after it begins.
LEMMA CommandDecodes ==
  ASSUME NEW request, IsRequest(request), NEW buf \in Seq(Byte), NEW start \in Nat \ {0},
         HasAt(buf, start, FlattenSeq(CommandPieces(request))), NEW n \in 1 .. Len(request)
  PROVE  LET pos == start + Len(CommandsUpto(request, n - 1))
             name == request[n].name
             type == GetVarint(buf, pos)
         IN  /\ pos \in Nat /\ pos <= Len(buf)
             /\ type.ok /\ type.val = Codes[name]
             /\ Decode(ServerLayout[name].cmd, buf, type.pos)
                  = Decoded(TRUE, request[n].vals, start + Len(CommandsUpto(request, n)))
<1>. DEFINE p == CommandPieces(request)
            before == CommandsUpto(request, n - 1)
            pos == start + Len(before)
            c == request[n]
            layout == ClientLayout[c.name].cmd
            x == VarintBytes[Codes[c.name]]
            y == Encode(layout, c.vals)
            next == pos + Len(x)
<1>1. /\ p \in Pieces(Byte) /\ Len(p) = Len(request) /\ p[n] = PutCommand(c)
      /\ c.name \in Commands /\ WellFormed(layout, c.vals)
  <2>1. DOMAIN request = 1 .. Len(request)
    BY DEF IsRequest
  <2>. QED  BY <2>1, CommandsAreBytes DEF IsRequest
<1>2. p[n] \in Seq(Byte) /\ before \in Seq(Byte) /\ CommandsUpto(request, n) = before \o p[n]
  <2>1. /\ SubSeq(p, 1, n - 1) \in Pieces(Byte) /\ p[n] \in Seq(Byte)
        /\ FlattenSeq(SubSeq(p, 1, n)) = FlattenSeq(SubSeq(p, 1, n - 1)) \o p[n]
    BY <1>1, FlattenUpto
  <2>. HIDE DEF p
  <2>2. FlattenSeq(SubSeq(p, 1, n - 1)) \in Seq(Byte)
    BY <2>1, FlattenIsSeq
  <2>. QED  BY <2>1, <2>2 DEF CommandsUpto, p
<1>3. HasAt(buf, pos, p[n])
  <2>1. HasAt(buf, start, FlattenSeq(p))
    OBVIOUS
  <2>2. HasAt(buf, start + Len(FlattenSeq(SubSeq(p, 1, n - 1))), p[n])
    <3>. HIDE DEF p
    <3>. QED  BY <2>1, <1>1, HasPiece
  <2>. QED  BY <2>2 DEF CommandsUpto
<1>4. x \in Seq(Byte) /\ Len(x) > 0 /\ y \in Seq(Byte) /\ p[n] = x \o y
  <2>1. p[n] = x \o y
    BY <1>1, Zenon DEF PutCommand
  <2>. QED  BY <2>1, <1>1, CommandIsBytes
<1>. HIDE DEF p, before, x, y, c
<1>5. pos \in Nat \ {0} /\ next \in Nat \ {0}
  BY <1>2, <1>4
<1>. HIDE DEF pos, next
<1>6. HasAt(buf, pos, x) /\ HasAt(buf, next, y)
  BY <1>3, <1>4, <1>5, HasBoth DEF next
<1>7. pos <= Len(buf)
  BY <1>4, <1>5, <1>6 DEF HasAt
<1>8. GetVarint(buf, pos) = Got(Codes[c.name], next)
  <2>1. Codes[c.name] \in Nat
    <3>1. c.name \in Commands
      BY <1>1
    <3>. QED  BY <3>1, CodesDiffer
  <2>. QED  BY <2>1, <1>5, <1>6, VarintDecodes DEF x, next
<1>9. Decode(layout, buf, next) = Decoded(TRUE, c.vals, next + Len(y))
  <2>1. WellLaid(layout)
    BY <1>1, AllLaid
  <2>2. HasAt(buf, next, Encode(layout, c.vals))
    BY <1>6 DEF y
  <2>. QED  BY <2>1, <2>2, <1>1, <1>5, LayoutDecodes DEF y
<1>10. next + Len(y) = start + Len(CommandsUpto(request, n))
  <2>1. Len(CommandsUpto(request, n)) = Len(before) + Len(p[n]) /\ Len(p[n]) = Len(x) + Len(y)
    BY <1>2, <1>4, ConcatLen
  <2>. QED  BY <2>1, <1>2, <1>4, <1>5 DEF next, pos
<1>11. ServerLayout = ClientLayout
  BY ClientIsServer
<1>. DEFINE type == GetVarint(buf, pos)
<1>12. type.ok = TRUE /\ type.val = Codes[c.name] /\ type.pos = next
  BY <1>8 DEF Got
<1>. HIDE DEF type
<1>13. Decode(ServerLayout[c.name].cmd, buf, type.pos)
         = Decoded(TRUE, c.vals, start + Len(CommandsUpto(request, n)))
  BY <1>9, <1>10, <1>11, <1>12
<1>. QED  BY <1>5, <1>7, <1>12, <1>13, Zenon DEF pos, before, type, c

-----------------------------------------------------------------------------
(* Replies *)

\* An answer is an error, or values the reply can have.
IsAnswer(a) ==
  /\ a = [name |-> a.name, code |-> a.code, vals |-> a.vals]
  /\ a.name \in Commands
  /\ a.code \in 0 .. VarintMax
  /\ a.code = NONE => WellFormed(ServerLayout[a.name].rsp, a.vals)
IsReplies(answers) ==
  answers \in Seq(Range(answers)) /\ \A k \in DOMAIN answers : IsAnswer(answers[k])

PutAnswer(a) == Answer(a.name, Codes[a.name], a.code, a.vals)
AnswerPieces(answers) == [k \in DOMAIN answers |-> PutAnswer(answers[k])]
AnswersUpto(answers, n) == FlattenSeq(SubSeq(AnswerPieces(answers), 1, n))
Outcome(a) == IF a.code = NONE THEN Encode(ServerLayout[a.name].rsp, a.vals)
              ELSE PutString(ErrorText)

LEMMA IsSeqOfRange ==
  ASSUME NEW T, NEW s \in Seq(T)
  PROVE  s \in Seq(Range(s)) /\ DOMAIN s = 1 .. Len(s) /\ Len(s) \in Nat
<1>. DEFINE U == Range(s)
<1>1. DOMAIN s = 1 .. Len(s) /\ Len(s) \in Nat
  OBVIOUS
<1>2. s = [k \in 1 .. Len(s) |-> s[k]]
  OBVIOUS
<1>3. \A k \in 1 .. Len(s) : s[k] \in U
  BY <1>1 DEF Range
<1>. HIDE DEF U
<1>4. s \in Seq(U)
  BY <1>1, <1>2, <1>3
<1>. QED
  BY <1>1, <1>4 DEF U

LEMMA AppendRange ==
  ASSUME NEW s, s \in Seq(Range(s)), NEW x
  PROVE  LET t == Append(s, x) IN
         /\ t \in Seq(Range(t)) /\ Len(t) = Len(s) + 1 /\ DOMAIN t = 1 .. Len(s) + 1
         /\ \A k \in 1 .. Len(s) : t[k] = s[k]
         /\ t[Len(s) + 1] = x /\ Len(s) \in Nat /\ DOMAIN s = 1 .. Len(s)
<1>. DEFINE T == Range(s) \cup {x}
            t == Append(s, x)
<1>1. s \in Seq(T)
  BY DEF Range
<1>. HIDE DEF T
<1>2. /\ t \in Seq(T \cup {x}) /\ Len(t) = Len(s) + 1 /\ DOMAIN t = 1 .. Len(s) + 1
      /\ t[Len(s) + 1] = x /\ Len(s) \in Nat /\ DOMAIN s = 1 .. Len(s)
  BY <1>1
<1>3. \A k \in 1 .. Len(s) : t[k] = s[k]
  BY <1>1
<1>. HIDE DEF t
<1>4. t \in Seq(Range(t))
  BY <1>2, IsSeqOfRange
<1>. QED  BY <1>2, <1>3, <1>4 DEF t

LEMMA ErrorTextIsBytes ==
  ErrorText \in Seq(Byte)
BY DEF ErrorText, Byte

LEMMA TextDecodes ==
  ASSUME NEW buf \in Seq(Byte), NEW pos \in Nat \ {0}, HasAt(buf, pos, PutString(ErrorText))
  PROVE  GetString(buf, pos).pos \in Nat
<1>. DEFINE s == ErrorText
<1>. HIDE DEF s
<1>1. s \in Seq(Byte) /\ HasAt(buf, pos, PutString(s))
  BY ErrorTextIsBytes DEF s
<1>2. /\ PutString(s) \in Seq(Byte)
      /\ GetString(buf, pos) = Got(s, pos + Len(PutString(s)))
  BY <1>1, StringDecodes
<1>. QED  BY <1>2 DEF Got

LEMMA TextIsBytes ==
  PutString(ErrorText) \in Seq(Byte)
<1>. DEFINE s == ErrorText
<1>. HIDE DEF s
<1>1. s \in Seq(Byte) /\ Len(s) \in Nat
  BY ErrorTextIsBytes DEF s
<1>2. VarintBytes[Len(s)] \in Seq(Byte)
  BY <1>1, VarintIsBytes
<1>3. PutString(s) \in Seq(Byte)
  BY <1>1, <1>2 DEF PutString
<1>. QED  BY <1>3 DEF s

LEMMA AnswerIsBytes ==
  ASSUME NEW a, IsAnswer(a)
  PROVE  /\ VarintBytes[Codes[a.name]] \in Seq(Byte) /\ VarintBytes[a.code] \in Seq(Byte)
         /\ Outcome(a) \in Seq(Byte) /\ PutAnswer(a) \in Seq(Byte)
         /\ PutAnswer(a)
              = (VarintBytes[Codes[a.name]] \o VarintBytes[a.code]) \o Outcome(a)
<1>. DEFINE x == VarintBytes[Codes[a.name]]
            y == VarintBytes[a.code]
            z == Outcome(a)
<1>1. x \in Seq(Byte)
  <2>1. Codes[a.name] \in Nat
    BY CodesDiffer DEF IsAnswer
  <2>. QED  BY <2>1, VarintIsBytes
<1>2. y \in Seq(Byte)
  <2>1. a.code \in Nat
    BY DEF IsAnswer
  <2>. QED  BY <2>1, VarintIsBytes
<1>3. z \in Seq(Byte)
  <2>1. CASE a.code = NONE
    <3>1. WellLaid(ServerLayout[a.name].rsp) /\ WellFormed(ServerLayout[a.name].rsp, a.vals)
      BY <2>1, AllLaid, ClientIsServer DEF IsAnswer
    <3>2. Encode(ServerLayout[a.name].rsp, a.vals) \in Seq(Byte)
      BY <3>1, EncodeIsBytes
    <3>. QED  BY <2>1, <3>2 DEF Outcome
  <2>2. CASE a.code # NONE
    BY <2>2, TextIsBytes DEF Outcome
  <2>. QED  BY <2>1, <2>2
<1>4. PutAnswer(a) = (x \o y) \o z
  BY Zenon DEF PutAnswer, Answer, ResponseHeader, Outcome
<1>. HIDE DEF x, y, z
<1>5. (x \o y) \o z \in Seq(Byte)
  BY <1>1, <1>2, <1>3
<1>. QED  BY <1>1, <1>2, <1>3, <1>4, <1>5 DEF x, y, z

LEMMA AnswersAreBytes ==
  ASSUME NEW answers, IsReplies(answers)
  PROVE  /\ AnswerPieces(answers) \in Pieces(Byte)
         /\ Len(AnswerPieces(answers)) = Len(answers)
         /\ \A k \in 1 .. Len(answers) : AnswerPieces(answers)[k] = PutAnswer(answers[k])
         /\ FlattenSeq(AnswerPieces(answers)) \in Seq(Byte)
<1>1. DOMAIN answers = 1 .. Len(answers) /\ Len(answers) \in Nat
  BY DEF IsReplies
<1>2. \A k \in 1 .. Len(answers) : PutAnswer(answers[k]) \in Seq(Byte)
  BY <1>1, AnswerIsBytes DEF IsReplies
<1>3. AnswerPieces(answers) = [k \in 1 .. Len(answers) |-> PutAnswer(answers[k])]
  BY <1>1 DEF AnswerPieces
<1>4. AnswerPieces(answers) \in Pieces(Byte) /\ Len(AnswerPieces(answers)) = Len(answers)
  <2>. DEFINE U == Seq(Byte)
              N == Len(answers)
  <2>1. \A k \in 1 .. N : PutAnswer(answers[k]) \in U
    BY <1>2
  <2>. HIDE DEF U, N
  <2>2. /\ [k \in 1 .. N |-> PutAnswer(answers[k])] \in Seq(U)
        /\ Len([k \in 1 .. N |-> PutAnswer(answers[k])]) = N
    BY <2>1, <1>1 DEF N
  <2>. QED  BY <2>2, <1>3 DEF Pieces, U, N
<1>5. \A k \in 1 .. Len(answers) : AnswerPieces(answers)[k] = PutAnswer(answers[k])
  BY <1>3
<1>. QED  BY <1>4, <1>5, FlattenIsSeq

\* The bytes of one answer more.
LEMMA AnswersAppend ==
  ASSUME NEW answers, IsReplies(answers), NEW a, IsAnswer(a)
  PROVE  /\ IsReplies(Append(answers, a))
         /\ FlattenSeq(AnswerPieces(Append(answers, a)))
              = FlattenSeq(AnswerPieces(answers)) \o PutAnswer(a)
<1>. DEFINE t == Append(answers, a)
            N == Len(answers)
<1>1. /\ t \in Seq(Range(t)) /\ DOMAIN t = 1 .. N + 1 /\ Len(t) = N + 1
      /\ \A k \in 1 .. N : t[k] = answers[k]
      /\ t[N + 1] = a /\ N \in Nat /\ DOMAIN answers = 1 .. N
  BY AppendRange DEF IsReplies
<1>. HIDE DEF t, N
<1>2. IsReplies(t)
  <2>1. ASSUME NEW k \in 1 .. N + 1
        PROVE  IsAnswer(t[k])
    <3>1. CASE k = N + 1
      BY <3>1, <1>1
    <3>2. CASE k # N + 1
      <4>1. k \in 1 .. N
        BY <3>2, <1>1
      <4>. QED  BY <4>1, <1>1 DEF IsReplies
    <3>. QED  BY <3>1, <3>2
  <2>. QED  BY <2>1, <1>1 DEF IsReplies
<1>3. /\ AnswerPieces(answers) \in Pieces(Byte) /\ Len(AnswerPieces(answers)) = N
      /\ \A k \in 1 .. N : AnswerPieces(answers)[k] = PutAnswer(answers[k])
  BY AnswersAreBytes DEF N
<1>4. /\ AnswerPieces(t) \in Pieces(Byte) /\ Len(AnswerPieces(t)) = N + 1
      /\ \A k \in 1 .. N + 1 : AnswerPieces(t)[k] = PutAnswer(t[k])
  BY <1>1, <1>2, AnswersAreBytes
<1>5. PutAnswer(a) \in Seq(Byte)
  BY AnswerIsBytes
<1>. DEFINE p == AnswerPieces(answers)
            q == AnswerPieces(t)
            x == PutAnswer(a)
<1>6. /\ p \in Seq(Seq(Byte)) /\ Len(p) = N /\ q \in Seq(Seq(Byte)) /\ Len(q) = N + 1
      /\ \A k \in 1 .. N : p[k] = q[k]
      /\ q[N + 1] = x /\ x \in Seq(Byte)
  <2>1. N + 1 \in 1 .. N + 1 /\ \A k \in 1 .. N : k \in 1 .. N + 1
    BY <1>1
  <2>. QED  BY <2>1, <1>1, <1>3, <1>4, <1>5 DEF Pieces
<1>. HIDE DEF p, q, x
<1>7. q = Append(p, x)
  <2>1. Append(p, x) \in Seq(Seq(Byte)) /\ Len(Append(p, x)) = N + 1
    BY <1>6
  <2>2. \A k \in 1 .. N + 1 : q[k] = Append(p, x)[k]
    BY <1>1, <1>6
  <2>. QED  BY <1>6, <2>1, <2>2
<1>8. FlattenSeq(Append(p, x)) = FlattenSeq(p) \o x
  BY <1>6, FlattenAppend DEF Pieces
<1>. QED  BY <1>2, <1>7, <1>8 DEF p, q, x, t

\* The client reads of an answer what the server put, and ends where it ends.
LEMMA AnswerDecodes ==
  ASSUME NEW a, IsAnswer(a), NEW buf \in Seq(Byte), NEW pos \in Nat \ {0},
         HasAt(buf, pos, PutAnswer(a))
  PROVE  LET type == GetVarint(buf, pos)
             code == GetVarint(buf, type.pos)
         IN  /\ type.val = Codes[a.name] /\ code.val = a.code
             /\ a.code # NONE => GetString(buf, code.pos).pos \in Nat
             /\ a.code = NONE => Decode(ClientLayout[a.name].rsp, buf, code.pos)
                                   = Decoded(TRUE, a.vals, pos + Len(PutAnswer(a)))
<1>. DEFINE x == VarintBytes[Codes[a.name]]
            y == VarintBytes[a.code]
            z == Outcome(a)
            next == pos + Len(x)
            last == next + Len(y)
<1>1. x \in Seq(Byte) /\ y \in Seq(Byte) /\ z \in Seq(Byte) /\ PutAnswer(a) = (x \o y) \o z
  BY AnswerIsBytes
<1>2. Codes[a.name] \in Nat /\ a.code \in Nat /\ a.name \in Commands
  BY CodesDiffer DEF IsAnswer
<1>. HIDE DEF x, y, z
<1>3. x \o y \in Seq(Byte) /\ Len(x \o y) = Len(x) + Len(y)
  BY <1>1, ConcatLen
<1>4. HasAt(buf, pos, x \o y) /\ HasAt(buf, pos + Len(x \o y), z)
  BY <1>1, <1>3, HasBoth
<1>5. HasAt(buf, pos, x) /\ HasAt(buf, next, y)
  BY <1>1, <1>4, HasBoth
<1>6. /\ next \in Nat \ {0} /\ last \in Nat \ {0} /\ pos + Len(x \o y) = last
      /\ last + Len(z) = pos + Len(PutAnswer(a))
  <2>1. Len(PutAnswer(a)) = Len(x \o y) + Len(z)
    BY <1>1, <1>3, ConcatLen
  <2>2. Len(x) \in Nat /\ Len(y) \in Nat /\ Len(z) \in Nat
    BY <1>1
  <2>. QED  BY <2>1, <2>2, <1>3
<1>. HIDE DEF next, last
<1>7. GetVarint(buf, pos) = Got(Codes[a.name], next)
  BY <1>2, <1>5, VarintDecodes DEF x, next
<1>8. GetVarint(buf, next) = Got(a.code, last)
  BY <1>2, <1>5, <1>6, VarintDecodes DEF y, last
<1>9. HasAt(buf, last, z)
  BY <1>4, <1>6
<1>10. ASSUME a.code # NONE
       PROVE  GetString(buf, last).pos \in Nat
  <2>1. HasAt(buf, last, PutString(ErrorText))
    BY <1>9, <1>10 DEF z, Outcome
  <2>. QED  BY <2>1, <1>6, TextDecodes
<1>11. ASSUME a.code = NONE
       PROVE  Decode(ClientLayout[a.name].rsp, buf, last)
                = Decoded(TRUE, a.vals, pos + Len(PutAnswer(a)))
  <2>. DEFINE layout == ClientLayout[a.name].rsp
  <2>1. WellLaid(layout) /\ WellFormed(layout, a.vals)
    BY <1>2, <1>11, AllLaid, ClientIsServer DEF IsAnswer
  <2>2. z = Encode(layout, a.vals)
    BY <1>11, ClientIsServer DEF z, Outcome
  <2>3. HasAt(buf, last, Encode(layout, a.vals))
    BY <2>2, <1>9
  <2>. HIDE DEF layout
  <2>4. Decode(layout, buf, last) = Decoded(TRUE, a.vals, last + Len(Encode(layout, a.vals)))
    BY <2>1, <2>3, <1>6, LayoutDecodes
  <2>. QED  BY <2>2, <2>4, <1>6 DEF layout
<1>. DEFINE type == GetVarint(buf, pos)
            code == GetVarint(buf, type.pos)
<1>12. type.val = Codes[a.name] /\ type.pos = next
  BY <1>7 DEF Got
<1>13. code.val = a.code /\ code.pos = last
  <2>. HIDE DEF type
  <2>1. code = Got(a.code, last)
    BY <1>8, <1>12
  <2>. QED  BY <2>1 DEF Got
<1>. HIDE DEF code, type
<1>14. a.code # NONE => GetString(buf, code.pos).pos \in Nat
  BY <1>10, <1>13
<1>15. a.code = NONE => Decode(ClientLayout[a.name].rsp, buf, code.pos)
                          = Decoded(TRUE, a.vals, pos + Len(PutAnswer(a)))
  BY <1>11, <1>13
<1>. QED  BY <1>12, <1>13, <1>14, <1>15, Zenon DEF code, type

-----------------------------------------------------------------------------
(* The invariant *)

InFlight == (got \o stream) \o unsent

\* What is read, on its way and still to be written is where the message begins.
LinkOK ==
  /\ link \in {"tcp", "usb"}
  /\ message \in Seq(Byte) /\ unsent \in Seq(Byte) /\ stream \in Seq(Byte) /\ got \in Seq(Byte)
  /\ HasAt(message, 1, InFlight)
  /\ Len(message) <= BUFFER_SIZE
  /\ link = "usb" => unsent = <<>> /\ (got = <<>> \/ stream = <<>>)

\* What was asked fits a buffer.
AskedOK ==
  /\ IsRequest(asked) /\ mode \in BatchModes
  /\ at # "client" => Fits(Request(asked, mode)) /\ (mode = 0 => Len(asked) = 1)

\* Nothing was received yet.
Fresh ==
  /\ cmd = <<>> /\ cmdPos = 1 /\ decoded = <<>>
  /\ replies = <<>> /\ rsp = <<>> /\ rspPos = 1 /\ heardBack = <<>>

\* The server has decoded the first commands and answered them.
Served ==
  /\ cmd = Framed(Request(asked, mode))
  /\ Len(decoded) \in 0 .. Len(asked) /\ decoded = SubSeq(asked, 1, Len(decoded))
  /\ cmdPos = 5 + Len(RequestHeader(asked, mode)) + Len(CommandsUpto(asked, Len(decoded)))
  /\ IsReplies(replies) /\ Len(replies) = Len(decoded)
  /\ \A k \in 1 .. Len(replies) : replies[k].name = asked[k].name
  /\ \A k \in 1 .. Len(replies) - 1 : replies[k].code = NONE

\* The number of commands, and the answers so far.
Answered == VarintBytes[Len(asked)] \o FlattenSeq(AnswerPieces(replies))

\* A reply is of every command, or up to one that failed and something for the rest.
Replied ==
  /\ Served
  /\ Len(replies) = Len(asked) \/ Failing
  /\ \E more \in Seq(Byte) : rsp = Answered \o more /\ (~Failing => more = <<>>)
  /\ rsp \in Seq(Byte) /\ Fits(rsp)

\* The client decoded the first replies, none of which is an error.
Heard ==
  /\ Len(heardBack) \in 0 .. Len(replies) /\ heardBack = SubSeq(replies, 1, Len(heardBack))
  /\ \A k \in 1 .. Len(heardBack) : replies[k].code = NONE
  /\ rspPos = 5 + Len(VarintBytes[Len(asked)]) + Len(AnswersUpto(replies, Len(heardBack)))

\* It has the replies up to the first error.
HeardAll ==
  /\ heardBack \in Seq(Range(heardBack)) /\ Len(heardBack) <= Len(replies)
  /\ \A k \in 1 .. Len(heardBack) : heardBack[k].code = replies[k].code
       /\ (heardBack[k].code = NONE => heardBack[k] = replies[k])
  /\ rspPos \in Nat
  /\ ~Failing => rspPos = Len(got) + 1

Unheard == heardBack = <<>> /\ rspPos = 1

WireInv ==
  /\ LinkOK /\ AskedOK
  /\ at \in {"client", "request", "server", "reply", "decoding", "done", "broken"}
  /\ at \in {"client", "request"} => Fresh
  /\ at = "client" => asked = <<>>
  /\ at = "request" => message = Framed(Request(asked, mode))
  /\ at = "server" => Served /\ Unheard /\ rsp = Answered
  /\ at = "reply" => Replied /\ Unheard /\ message = Framed(rsp)
  /\ at = "decoding" => Replied /\ got = Framed(rsp) /\ Heard
  /\ at = "done" => Served /\ HeardAll
  /\ at = "broken" => closed /\ (Fresh \/ (Served /\ Unheard))

-----------------------------------------------------------------------------
(* The link *)

convVars == <<asked, mode, cmd, cmdPos, decoded, replies, rsp, rspPos, heardBack>>

\* What the invariant says of the conversation is not about the link.
LEMMA ConvUnchanged ==
  ASSUME UNCHANGED convVars
  PROVE  /\ Fresh' = Fresh /\ Served' = Served /\ Answered' = Answered /\ Replied' = Replied
         /\ Heard' = Heard /\ Unheard' = Unheard /\ Failing' = Failing
         /\ (AskedOK /\ (at' # "client" => at # "client") => AskedOK')
<1>1. /\ asked' = asked /\ mode' = mode /\ cmd' = cmd /\ cmdPos' = cmdPos /\ decoded' = decoded
      /\ replies' = replies /\ rsp' = rsp /\ rspPos' = rspPos /\ heardBack' = heardBack
  BY DEF convVars
<1>2. Fresh' = Fresh /\ Served' = Served /\ Unheard' = Unheard
  BY <1>1, Zenon DEF Fresh, Served, Unheard
<1>3. Answered' = Answered /\ Failing' = Failing
  BY <1>1, Zenon DEF Answered, Failing
<1>4. Replied' = Replied
  BY <1>1, <1>2, <1>3, Zenon DEF Replied
<1>5. Heard' = Heard
  BY <1>1, Zenon DEF Heard
<1>6. AskedOK /\ (at' # "client" => at # "client") => AskedOK'
  BY <1>1, Zenon DEF AskedOK
<1>. QED  BY <1>2, <1>3, <1>4, <1>5, <1>6

\* A step of the link keeps what the invariant says of the conversation.
LEMMA LinkSteps ==
  ASSUME WireInv, LinkOK', Travelling, UNCHANGED <<at, message, convVars>>
  PROVE  WireInv'
<1>1. at' = at /\ message' = message /\ at \in {"request", "reply"} /\ UNCHANGED convVars
  BY DEF Travelling
<1>2. /\ Fresh' = Fresh /\ Replied' = Replied /\ Unheard' = Unheard
      /\ (AskedOK /\ (at' # "client" => at # "client") => AskedOK')
  BY <1>1, ConvUnchanged
<1>3. AskedOK'
  BY <1>1, <1>2 DEF WireInv
<1>4. asked' = asked /\ mode' = mode /\ rsp' = rsp
  BY <1>1 DEF convVars
<1>5. CASE at = "request"
  <2>1. at' = "request" /\ Fresh' /\ message' = Framed(Request(asked', mode'))
    BY <1>1, <1>2, <1>4, <1>5 DEF WireInv
  <2>. QED  BY <2>1, <1>3 DEF WireInv
<1>6. CASE at = "reply"
  <2>1. at' = "reply" /\ Replied' /\ Unheard' /\ message' = Framed(rsp')
    BY <1>1, <1>2, <1>4, <1>6 DEF WireInv
  <2>. QED  BY <2>1, <1>3 DEF WireInv
<1>. QED  BY <1>1, <1>5, <1>6

\* A sequence cut in two.
LEMMA SplitConcat ==
  ASSUME NEW T, NEW s \in Seq(T), NEW n \in 0 .. Len(s)
  PROVE  /\ SubSeq(s, 1, n) \in Seq(T) /\ SubSeq(s, n + 1, Len(s)) \in Seq(T)
         /\ SubSeq(s, 1, n) \o SubSeq(s, n + 1, Len(s)) = s
<1>. DEFINE x == SubSeq(s, 1, n)
            y == SubSeq(s, n + 1, Len(s))
<1>1. /\ x \in Seq(T) /\ Len(x) = n /\ y \in Seq(T) /\ Len(y) = Len(s) - n
      /\ \A j \in 1 .. n : x[j] = s[j]
      /\ \A j \in 1 .. Len(s) - n : y[j] = s[n + j]
  OBVIOUS
<1>. HIDE DEF x, y
<1>. DEFINE z == x \o y
<1>2. z \in Seq(T) /\ Len(z) = Len(s)
  BY <1>1
<1>3. \A j \in 1 .. Len(s) : z[j] = s[j]
  BY <1>1
<1>. HIDE DEF z
<1>4. z = s
  BY <1>2, <1>3
<1>. QED  BY <1>1, <1>4 DEF x, y, z

LEMMA ConcatAssoc ==
  ASSUME NEW T, NEW x \in Seq(T), NEW y \in Seq(T), NEW z \in Seq(T)
  PROVE  (x \o y) \o z = x \o (y \o z)
<1>1. (x \o y) \o z \in Seq(T) /\ x \o (y \o z) \in Seq(T)
  OBVIOUS
<1>2. Len((x \o y) \o z) = Len(x \o (y \o z))
  OBVIOUS
<1>3. \A j \in 1 .. Len((x \o y) \o z) : ((x \o y) \o z)[j] = (x \o (y \o z))[j]
  OBVIOUS
<1>. QED  BY <1>1, <1>2, <1>3

\* For sequences of bytes.
LEMMA BytesAssoc == \A x, y, z \in Seq(Byte) : (x \o y) \o z = x \o (y \o z)
BY ConcatAssoc

\* Bytes move from the writer to the stream.
LEMMA WriteSomeStep ==
  ASSUME WireInv, NEW n \in Nat \ {0}, WriteSome(n)
  PROVE  WireInv'
<1>. DEFINE x == SubSeq(unsent, 1, n)
            y == SubSeq(unsent, n + 1, Len(unsent))
<1>1. LinkOK
  BY DEF WireInv
<1>2. /\ unsent \in Seq(Byte) /\ stream \in Seq(Byte) /\ got \in Seq(Byte) /\ n \in 0 .. Len(unsent)
      /\ message \in Seq(Byte)
  BY <1>1 DEF LinkOK, WriteSome
<1>3. stream' = stream \o x /\ unsent' = y /\ got' = got /\ message' = message /\ link' = link
  BY DEF WriteSome, LeftAfter
<1>4. x \in Seq(Byte) /\ y \in Seq(Byte) /\ x \o y = unsent
  BY <1>2, SplitConcat
<1>5. link # "usb"
  BY <1>1 DEF LinkOK, WriteSome
<1>. HIDE DEF x, y
<1>6. InFlight' = InFlight
  <2>. DEFINE g == got
              t == stream
  <2>1. g \in Seq(Byte) /\ t \in Seq(Byte)
    BY <1>2
  <2>2. InFlight' = (g \o (t \o x)) \o y /\ InFlight = (g \o t) \o (x \o y)
    BY <1>3, <1>4 DEF InFlight
  <2>. HIDE DEF g, t
  <2>3. g \o t \in Seq(Byte)
    BY <2>1
  <2>4. g \o (t \o x) = (g \o t) \o x
    BY <2>1, <1>4, BytesAssoc, Zenon
  <2>. DEFINE h == g \o t
  <2>5. (h \o x) \o y = h \o (x \o y)
    <3>1. h \in Seq(Byte) /\ x \in Seq(Byte) /\ y \in Seq(Byte)
      BY <2>3, <1>4
    <3>. HIDE DEF h
    <3>. QED  BY <3>1, BytesAssoc, Zenon
  <2>. QED  BY <2>2, <2>4, <2>5
<1>7. HasAt(message', 1, InFlight')
  BY <1>1, <1>3, <1>6 DEF LinkOK
<1>8. stream' \in Seq(Byte)
  BY <1>2, <1>3, <1>4
<1>9. LinkOK'
  BY <1>1, <1>3, <1>4, <1>5, <1>7, <1>8 DEF LinkOK
<1>10. Travelling /\ UNCHANGED <<at, message, convVars>>
  BY DEF WriteSome, convVars
<1>. QED  BY <1>9, <1>10, LinkSteps

\* Bytes move from the stream to the reader.
LEMMA ReadSomeStep ==
  ASSUME WireInv, NEW n \in Nat \ {0}, ReadSome(n)
  PROVE  WireInv'
<1>. DEFINE x == SubSeq(stream, 1, n)
            y == SubSeq(stream, n + 1, Len(stream))
<1>1. LinkOK
  BY DEF WireInv
<1>2. /\ unsent \in Seq(Byte) /\ stream \in Seq(Byte) /\ got \in Seq(Byte) /\ n \in 0 .. Len(stream)
      /\ message \in Seq(Byte)
  BY <1>1 DEF LinkOK, ReadSome
<1>3. got' = got \o x /\ stream' = y /\ unsent' = unsent /\ message' = message /\ link' = link
      /\ link = "tcp"
  BY DEF ReadSome
<1>4. x \in Seq(Byte) /\ y \in Seq(Byte) /\ x \o y = stream
  BY <1>2, SplitConcat
<1>. HIDE DEF x, y
<1>5. InFlight' = InFlight
  <2>. DEFINE g == got
  <2>1. g \in Seq(Byte)
    BY <1>2
  <2>2. InFlight' = ((g \o x) \o y) \o unsent /\ InFlight = (g \o (x \o y)) \o unsent
    BY <1>3, <1>4 DEF InFlight
  <2>. HIDE DEF g
  <2>3. (g \o x) \o y = g \o (x \o y)
    <3>1. g \in Seq(Byte) /\ x \in Seq(Byte) /\ y \in Seq(Byte)
      BY <2>1, <1>4
    <3>. QED  BY <3>1, BytesAssoc, Zenon
  <2>. QED  BY <2>2, <2>3
<1>6. HasAt(message', 1, InFlight')
  BY <1>1, <1>3, <1>5 DEF LinkOK
<1>7. got' \in Seq(Byte)
  BY <1>2, <1>3, <1>4
<1>8. LinkOK'
  BY <1>1, <1>3, <1>4, <1>6, <1>7 DEF LinkOK
<1>9. Travelling /\ UNCHANGED <<at, message, convVars>>
  BY DEF ReadSome, convVars
<1>. QED  BY <1>8, <1>9, LinkSteps

\* A USB message is received in one piece.
LEMMA ReceiveTransferStep ==
  ASSUME WireInv, ReceiveTransfer
  PROVE  WireInv'
<1>1. LinkOK
  BY DEF WireInv
<1>2. /\ got' = stream /\ stream' = <<>> /\ unsent' = unsent /\ message' = message /\ link' = link
      /\ link = "usb" /\ stream # <<>>
  BY DEF ReceiveTransfer
<1>3. got = <<>> /\ unsent = <<>> /\ stream \in Seq(Byte)
  BY <1>1, <1>2 DEF LinkOK
<1>4. InFlight = stream /\ InFlight' = stream
  <2>. DEFINE t == stream
  <2>1. t \in Seq(Byte)
    BY <1>3
  <2>2. InFlight = (<<>> \o t) \o <<>> /\ InFlight' = (t \o <<>>) \o <<>>
    BY <1>2, <1>3 DEF InFlight
  <2>. HIDE DEF t
  <2>3. <<>> \o t = t /\ t \o <<>> = t
    BY <2>1
  <2>. QED  BY <2>2, <2>3 DEF t
<1>5. HasAt(message', 1, InFlight')
  BY <1>1, <1>2, <1>4 DEF LinkOK
<1>6. LinkOK'
  BY <1>1, <1>2, <1>3, <1>5 DEF LinkOK
<1>7. Travelling /\ UNCHANGED <<at, message, convVars>>
  BY DEF ReceiveTransfer, convVars
<1>. QED  BY <1>6, <1>7, LinkSteps

\* What was not written yet is lost.
LEMMA PeerClosesStep ==
  ASSUME WireInv, PeerCloses
  PROVE  WireInv'
<1>1. LinkOK
  BY DEF WireInv
<1>2. /\ got' = got /\ stream' = stream /\ unsent' = <<>> /\ message' = message /\ link' = link
  BY DEF PeerCloses
<1>3. HasAt(message', 1, InFlight')
  <2>. DEFINE t == got \o stream
              u == unsent
  <2>1. t \in Seq(Byte) /\ u \in Seq(Byte) /\ message \in Seq(Byte) /\ HasAt(message, 1, t \o u)
    BY <1>1 DEF LinkOK, InFlight
  <2>2. InFlight' = t \o <<>>
    BY <1>2 DEF InFlight
  <2>. HIDE DEF t, u
  <2>3. HasAt(message, 1, t)
    <3>1. 1 \in Nat \ {0}
      OBVIOUS
    <3>. QED  BY <2>1, <3>1, HasBoth
  <2>4. t \o <<>> = t
    BY <2>1
  <2>. QED  BY <2>2, <2>3, <2>4, <1>2
<1>4. LinkOK'
  BY <1>1, <1>2, <1>3 DEF LinkOK
<1>5. Travelling /\ UNCHANGED <<at, message, convVars>>
  BY DEF PeerCloses, convVars
<1>. QED  BY <1>4, <1>5, LinkSteps

LEMMA EndOfFileStep ==
  ASSUME WireInv, EndOfFile
  PROVE  WireInv'
<1>1. /\ at' = "broken" /\ closed' = closed /\ closed /\ at \in {"request", "reply"}
      /\ UNCHANGED <<link, message, unsent, stream, got>> /\ UNCHANGED convVars
  BY DEF EndOfFile, Travelling, convVars
<1>2. Fresh \/ (Served /\ Unheard)
  BY <1>1 DEF WireInv, Replied
<1>3. Fresh' = Fresh /\ Served' = Served /\ Unheard' = Unheard /\ AskedOK'
  BY <1>1, ConvUnchanged DEF WireInv
<1>4. LinkOK'
  <2>1. LinkOK /\ InFlight' = InFlight
    BY <1>1 DEF WireInv, InFlight
  <2>. QED  BY <1>1, <2>1 DEF LinkOK
<1>5. closed' /\ (Fresh' \/ (Served' /\ Unheard'))
  BY <1>1, <1>2, <1>3
<1>. QED  BY <1>1, <1>3, <1>4, <1>5 DEF WireInv

\* A message that is taken is the one that was sent.
LEMMA Arrived ==
  ASSUME LinkOK, NEW body \in Seq(Byte), message = Framed(body), Fits(body), Whole
  PROVE  got = message /\ stream = <<>> /\ unsent = <<>>
<1>. DEFINE g == got
            t == stream
            u == unsent
            m == message
<1>1. /\ g \in Seq(Byte) /\ t \in Seq(Byte) /\ u \in Seq(Byte) /\ m \in Seq(Byte)
      /\ HasAt(m, 1, (g \o t) \o u) /\ Len(m) <= BUFFER_SIZE
  BY DEF LinkOK, InFlight
<1>2. Len(g) >= 4 /\ Wanted = 0
  BY DEF Whole
<1>. HIDE DEF g, t, u, m
<1>3. HasAt(m, 1, g) /\ HasAt(m, 1, (g \o t) \o u)
  <2>1. 1 \in Nat \ {0} /\ g \o t \in Seq(Byte)
    BY <1>1
  <2>2. HasAt(m, 1, g \o t)
    BY <1>1, <2>1, HasBoth
  <2>. QED  BY <1>1, <2>1, <2>2, HasBoth
<1>4. GetUint32(g, 1).val = Len(m)
  BY <1>1, <1>2, <1>3, LengthKnown DEF m
<1>5. Len(g) = Len(m)
  <2>1. MsgLen = Len(m)
    <3>1. GetUint32(got, 1).val = Len(m)
      BY <1>4 DEF g
    <3>2. Len(m) \in Nat /\ BUFFER_SIZE \in Int /\ ~(Len(m) > BUFFER_SIZE)
      BY <1>1, WireAssumption
    <3>. QED  BY <3>1, <3>2 DEF MsgLen
  <2>2. Wanted = Len(m) - Len(g)
    BY <1>1, <1>2, <2>1 DEF Wanted, g
  <2>. QED  BY <1>1, <1>2, <2>2
<1>6. Len(t) = 0 /\ Len(u) = 0
  <2>1. Len((g \o t) \o u) = Len(g) + Len(t) + Len(u)
    <3>1. g \o t \in Seq(Byte) /\ Len(g \o t) = Len(g) + Len(t)
      BY <1>1, ConcatLen
    <3>2. Len((g \o t) \o u) = Len(g \o t) + Len(u)
      BY <1>1, <3>1, ConcatLen
    <3>. QED  BY <3>1, <3>2, <1>1
  <2>2. 1 + Len((g \o t) \o u) - 1 <= Len(m)
    BY <1>3 DEF HasAt
  <2>. QED  BY <1>1, <1>5, <2>1, <2>2
<1>7. t = <<>> /\ u = <<>>
  BY <1>1, <1>6
<1>8. g = m
  <2>1. \A j \in 1 .. Len(g) : m[j] = g[j]
    <3>1. \A j \in 1 .. Len(g) : m[1 + j - 1] = g[j] /\ 1 + j - 1 = j
      BY <1>3 DEF HasAt
    <3>. QED  BY <3>1
  <2>. QED  BY <1>1, <1>5, <2>1
<1>. QED  BY <1>7, <1>8 DEF g, t, u, m

\* A message that is sent is on its way.
LEMMA Sent ==
  ASSUME LinkOK, link' = link, NEW body \in Seq(Byte), Fits(body), Sends(Framed(body))
  PROVE  LinkOK' /\ message' = Framed(body)
<1>. DEFINE m == Framed(body)
<1>1. m \in Seq(Byte) /\ Len(m) <= BUFFER_SIZE
  BY FitsIsUint32
<1>2. /\ message' = m /\ got' = <<>>
      /\ unsent' = (IF link = "tcp" THEN m ELSE <<>>)
      /\ stream' = (IF link = "tcp" THEN <<>> ELSE m)
  BY Zenon DEF Sends
<1>. HIDE DEF m
<1>3. HasAt(m, 1, m)
  BY <1>1, HasAll
<1>4. (<<>> \o <<>>) \o m = m /\ (<<>> \o m) \o <<>> = m
  <2>1. <<>> \o <<>> = <<>> /\ <<>> \o m = m /\ m \o <<>> = m
    BY <1>1
  <2>. QED  BY <2>1
<1>5. InFlight' = m
  BY <1>2, <1>4 DEF InFlight
<1>6. unsent' \in Seq(Byte) /\ stream' \in Seq(Byte) /\ got' \in Seq(Byte)
  BY <1>1, <1>2
<1>7. LinkOK'
  <2>1. link \in {"tcp", "usb"}
    BY DEF LinkOK
  <2>2. HasAt(message', 1, InFlight') /\ message' \in Seq(Byte) /\ Len(message') <= BUFFER_SIZE
    BY <1>1, <1>2, <1>3, <1>5
  <2>3. link' = "usb" => unsent' = <<>> /\ (got' = <<>> \/ stream' = <<>>)
    BY <1>2
  <2>. QED  BY <1>6, <2>1, <2>2, <2>3 DEF LinkOK
<1>. QED  BY <1>2, <1>7 DEF m

LEMMA LinkUnchanged ==
  ASSUME LinkOK, UNCHANGED <<link, message, unsent, stream, got>>
  PROVE  LinkOK'
<1>1. InFlight' = InFlight
  BY DEF InFlight
<1>. QED  BY <1>1 DEF LinkOK

-----------------------------------------------------------------------------
(* The conversation *)

\* The request is sent.
LEMMA ClientSendsStep ==
  ASSUME WireInv, NEW request, NEW m \in BatchModes, IsRequest(request), ClientSends(request, m)
  PROVE  WireInv'
<1>1. /\ at = "client" /\ at' = "request" /\ asked' = request /\ mode' = m
      /\ Fits(Request(request, m)) /\ (m = 0 => Len(request) = 1)
      /\ link' = link /\ Sends(Framed(Request(request, m)))
      /\ UNCHANGED <<cmd, cmdPos, decoded, replies, rsp, rspPos, heardBack>>
  BY DEF ClientSends
<1>2. Request(request, m) \in Seq(Byte)
  BY RequestParts
<1>3. LinkOK' /\ message' = Framed(Request(request, m))
  BY <1>1, <1>2, Sent DEF WireInv
<1>4. Fresh'
  <2>1. Fresh
    BY <1>1 DEF WireInv
  <2>. QED  BY <1>1, <2>1 DEF Fresh
<1>5. AskedOK'
  BY <1>1 DEF AskedOK
<1>6. message' = Framed(Request(asked', mode'))
  BY <1>1, <1>3
<1>. QED  BY <1>1, <1>3, <1>4, <1>5, <1>6 DEF WireInv

\* The request has arrived as it was sent.
LEMMA ServerReadsStep ==
  ASSUME WireInv, ServerReads
  PROVE  WireInv'
<1>. DEFINE body == Request(asked, mode)
<1>1. /\ at = "request" /\ Whole /\ at' = "server" /\ cmd' = got
      /\ cmdPos' = Header(got).errorMode.pos /\ rsp' = VarintBytes[Header(got).num]
      /\ UNCHANGED <<link, asked, mode, message, unsent, stream, got, closed>>
      /\ UNCHANGED <<decoded, replies, rspPos, heardBack>>
  BY DEF ServerReads
<1>2. /\ IsRequest(asked) /\ mode \in BatchModes /\ Fits(body) /\ LinkOK /\ AskedOK
      /\ message = Framed(body) /\ Fresh
  BY <1>1 DEF WireInv, AskedOK
<1>3. body \in Seq(Byte)
  BY <1>2, RequestParts
<1>4. got = Framed(body)
  BY <1>1, <1>2, <1>3, Arrived
<1>5. /\ Header(got).num = Len(asked)
      /\ Header(got).errorMode = Got(mode, 5 + Len(RequestHeader(asked, mode)))
      /\ 5 + Len(RequestHeader(asked, mode)) \in Nat
  BY <1>2, <1>4, RequestDecodes
<1>6. Header(got).errorMode.pos = 5 + Len(RequestHeader(asked, mode))
  BY <1>5 DEF Got
<1>7. LinkOK' /\ AskedOK'
  <2>1. AskedOK'
    BY <1>1, <1>2, Zenon DEF AskedOK
  <2>. QED  BY <1>1, <1>2, <2>1, LinkUnchanged
<1>8. decoded' = <<>> /\ replies' = <<>> /\ heardBack' = <<>> /\ rspPos' = 1 /\ asked' = asked
      /\ mode' = mode
  BY <1>1, <1>2 DEF Fresh
<1>9. CommandsUpto(asked, 0) = <<>> /\ Len(asked) \in Nat /\ SubSeq(asked, 1, 0) = <<>>
      /\ asked \in Seq(Range(asked))
  <2>1. CommandPieces(asked) \in Seq(Seq(Byte)) /\ asked \in Seq(Range(asked))
    BY <1>2, CommandsAreBytes DEF Pieces, IsRequest
  <2>2. /\ SubSeq(CommandPieces(asked), 1, 0) = <<>> /\ SubSeq(asked, 1, 0) = <<>>
        /\ Len(asked) \in Nat
    BY <2>1
  <2>. QED  BY <2>1, <2>2, FlattenEmpty, Zenon DEF CommandsUpto
<1>10. IsReplies(<<>>) /\ AnswerPieces(<<>>) = <<>> /\ FlattenSeq(AnswerPieces(<<>>)) = <<>>
  <2>. DEFINE e == <<>>
  <2>1. e \in Seq(Range(e)) /\ DOMAIN e = {} /\ [k \in {} |-> PutAnswer(e[k])] = <<>>
    BY Fields0 DEF IsFields
  <2>. HIDE DEF e
  <2>2. IsReplies(e) /\ AnswerPieces(e) = <<>>
    BY <2>1 DEF IsReplies, AnswerPieces
  <2>. QED  BY <2>2, FlattenEmpty, Zenon DEF e
<1>11. Served'
  <2>1. cmd' = Framed(Request(asked', mode'))
    BY <1>1, <1>4, <1>8
  <2>2. Len(decoded') = 0 /\ Len(replies') = 0
    BY <1>8
  <2>3. decoded' = SubSeq(asked', 1, 0) /\ Len(decoded') \in 0 .. Len(asked')
    BY <1>8, <1>9, <2>2
  <2>4. cmdPos' = 5 + Len(RequestHeader(asked', mode')) + Len(CommandsUpto(asked', 0))
    <3>1. Len(CommandsUpto(asked', 0)) = 0
      BY <1>8, <1>9
    <3>. QED  BY <3>1, <1>1, <1>5, <1>6, <1>8
  <2>5. IsReplies(replies')
    BY <1>8, <1>10
  <2>. QED  BY <2>1, <2>2, <2>3, <2>4, <2>5 DEF Served
<1>12. rsp' = Answered'
  <2>1. VarintBytes[Len(asked)] \in Seq(Byte)
    BY <1>9, VarintIsBytes
  <2>. DEFINE v == VarintBytes[Len(asked)]
  <2>2. Answered' = v \o <<>> /\ rsp' = v
    BY <1>1, <1>5, <1>8, <1>10 DEF Answered
  <2>. HIDE DEF v
  <2>3. v \o <<>> = v
    BY <2>1 DEF v
  <2>. QED  BY <2>2, <2>3
<1>. QED  BY <1>1, <1>7, <1>8, <1>11, <1>12 DEF WireInv, Unheard

-----------------------------------------------------------------------------
(* The commands *)

\* While commands are left, the next lies where the server is, and decodes to what
\* was asked.
LEMMA NextCommand ==
  ASSUME WireInv, at = "server"
  PROVE  /\ Num = Len(asked) /\ AbortOnError = (mode # 0)
         /\ Len(decoded) < Len(asked) =>
              LET n == Len(decoded) + 1
                  type == GetVarint(cmd, cmdPos)
              IN  /\ n \in 1 .. Len(asked) /\ cmdPos <= Len(cmd)
                  /\ type.val = Codes[asked[n].name] /\ CommandOf(type.val) = asked[n].name
                  /\ asked[n].name \in Commands
                  /\ Decode(ServerLayout[asked[n].name].cmd, cmd, type.pos)
                       = Decoded(TRUE, asked[n].vals,
                                 5 + Len(RequestHeader(asked, mode)) + Len(CommandsUpto(asked, n)))
<1>. DEFINE start == 5 + Len(RequestHeader(asked, mode))
            n == Len(decoded) + 1
            type == GetVarint(cmd, cmdPos)
<1>1. /\ IsRequest(asked) /\ mode \in BatchModes /\ Fits(Request(asked, mode))
      /\ cmd = Framed(Request(asked, mode)) /\ Len(decoded) \in 0 .. Len(asked)
      /\ cmdPos = start + Len(CommandsUpto(asked, Len(decoded)))
  BY DEF WireInv, AskedOK, Served
<1>2. /\ cmd \in Seq(Byte) /\ start \in Nat \ {0}
      /\ Header(cmd).num = Len(asked) /\ Header(cmd).errorMode = Got(mode, start)
      /\ HasAt(cmd, start, FlattenSeq(CommandPieces(asked)))
  BY <1>1, RequestDecodes
<1>3. Num = Len(asked) /\ AbortOnError = (mode # 0)
  <2>1. Header(cmd).errorMode.val = mode
    BY <1>2 DEF Got
  <2>. QED  BY <1>2, <2>1, Zenon DEF Num, AbortOnError
<1>. HIDE DEF start
<1>4. ASSUME Len(decoded) < Len(asked)
      PROVE  /\ n \in 1 .. Len(asked) /\ n - 1 = Len(decoded)
             /\ asked[n].name \in Commands
  <2>1. Len(asked) \in Nat /\ DOMAIN asked = 1 .. Len(asked)
    BY <1>1 DEF IsRequest
  <2>2. n \in 1 .. Len(asked) /\ n - 1 = Len(decoded)
    BY <1>1, <1>4, <2>1
  <2>. HIDE DEF n
  <2>. QED  BY <1>1, <2>1, <2>2 DEF IsRequest
<1>5. ASSUME Len(decoded) < Len(asked)
      PROVE  /\ cmdPos <= Len(cmd) /\ type.val = Codes[asked[n].name]
             /\ Decode(ServerLayout[asked[n].name].cmd, cmd, type.pos)
                  = Decoded(TRUE, asked[n].vals, start + Len(CommandsUpto(asked, n)))
  <2>1. n \in 1 .. Len(asked) /\ cmdPos = start + Len(CommandsUpto(asked, n - 1))
    BY <1>1, <1>4, <1>5
  <2>. HIDE DEF n, type
  <2>. DEFINE p == start + Len(CommandsUpto(asked, n - 1))
              q == start + Len(CommandsUpto(asked, n))
  <2>2. /\ p <= Len(cmd) /\ GetVarint(cmd, p).val = Codes[asked[n].name]
        /\ Decode(ServerLayout[asked[n].name].cmd, cmd, GetVarint(cmd, p).pos)
             = Decoded(TRUE, asked[n].vals, q)
    BY <1>1, <1>2, <2>1, CommandDecodes
  <2>3. p = cmdPos
    BY <2>1
  <2>. HIDE DEF p
  <2>. QED  BY <2>2, <2>3, Zenon DEF type, q
<1>6. Len(decoded) < Len(asked) => CommandOf(type.val) = asked[n].name
  <2>. HIDE DEF n, type
  <2>. QED  BY <1>4, <1>5, CodesDiffer
<1>. QED  BY <1>3, <1>4, <1>5, <1>6 DEF start

\* One command more is decoded and answered.
LEMMA HandleCommandStep ==
  ASSUME WireInv, NEW error \in 0 .. VarintMax, NEW vals,
         error = NONE => WellFormed(ServerLayout[NextName].rsp, vals),
         HandleCommand(error, vals)
  PROVE  WireInv'
<1>. DEFINE n == Len(decoded) + 1
            c == asked[n]
            a == [name |-> c.name, code |-> error, vals |-> vals]
            start == 5 + Len(RequestHeader(asked, mode))
            type == GetVarint(cmd, cmdPos)
            body == Decode(ServerLayout[c.name].cmd, cmd, type.pos)
<1>1. at = "server" /\ MoreCommands /\ at' = at /\ cmd' = cmd
      /\ UNCHANGED <<link, message, unsent, stream, got>>
      /\ UNCHANGED <<asked, mode, rspPos, heardBack, closed>>
  BY DEF HandleCommand
<1>2. Served /\ Unheard /\ rsp = Answered /\ LinkOK /\ AskedOK /\ IsRequest(asked)
  BY <1>1 DEF WireInv, AskedOK
<1>3. Num = Len(asked) /\ AbortOnError = (mode # 0) /\ Len(decoded) < Len(asked)
      /\ ~(Failing /\ AbortOnError)
  BY <1>1, NextCommand DEF MoreCommands
<1>4. /\ n \in 1 .. Len(asked) /\ c.name \in Commands
      /\ type.val = Codes[c.name] /\ CommandOf(type.val) = c.name
      /\ body = Decoded(TRUE, c.vals, start + Len(CommandsUpto(asked, n)))
  BY <1>1, <1>3, NextCommand
<1>5. /\ decoded' = Append(decoded, [name |-> c.name, vals |-> c.vals])
      /\ cmdPos' = start + Len(CommandsUpto(asked, n))
      /\ replies' = Append(replies, a)
      /\ rsp' = rsp \o PutAnswer(a)
  <2>. HIDE DEF c, start, n, type
  <2>1. body.vals = c.vals /\ body.pos = start + Len(CommandsUpto(asked, n))
    BY <1>4 DEF Decoded
  <2>2. /\ decoded' = Append(decoded, [name |-> c.name, vals |-> body.vals])
        /\ cmdPos' = body.pos
        /\ replies' = Append(replies, a)
        /\ rsp' = rsp \o Answer(c.name, type.val, error, vals)
    <3>. HIDE DEF body
    <3>1. LET name == CommandOf(type.val)
              decode == Decode(ServerLayout[name].cmd, cmd, type.pos)
          IN  /\ decoded' = Append(decoded, [name |-> name, vals |-> decode.vals])
              /\ cmdPos' = decode.pos
              /\ replies' = Append(replies, [name |-> name, code |-> error, vals |-> vals])
              /\ rsp' = rsp \o Answer(name, type.val, error, vals)
      BY Zenon DEF HandleCommand, type
    <3>. QED  BY <3>1, <1>4, Zenon DEF body
  <2>3. Answer(c.name, type.val, error, vals) = PutAnswer(a)
    <3>1. a.name = c.name /\ a.code = error /\ a.vals = vals
      OBVIOUS
    <3>. HIDE DEF a
    <3>. QED  BY <3>1, <1>4, Zenon DEF PutAnswer
  <2>. QED  BY <2>1, <2>2, <2>3, Zenon
<1>6. IsAnswer(a)
  <2>1. NextName = c.name
    BY <1>4, Zenon DEF NextName
  <2>2. a.name = c.name /\ a.code = error /\ a.vals = vals
        /\ a = [name |-> a.name, code |-> a.code, vals |-> a.vals]
    OBVIOUS
  <2>. HIDE DEF a, c
  <2>. QED  BY <2>1, <2>2, <1>4, Zenon DEF IsAnswer
<1>7. c = [name |-> c.name, vals |-> c.vals] /\ Len(asked) \in Nat /\ asked \in Seq(Range(asked))
  <2>1. DOMAIN asked = 1 .. Len(asked) /\ Len(asked) \in Nat
    BY <1>2 DEF IsRequest
  <2>. HIDE DEF n
  <2>. QED  BY <1>2, <1>4, <2>1 DEF IsRequest
<1>8. decoded' = SubSeq(asked, 1, n) /\ Len(decoded') = n
  <2>. DEFINE T == Range(asked)
              m == Len(decoded)
  <2>1. /\ asked \in Seq(T) /\ decoded = SubSeq(asked, 1, m) /\ m \in 0 .. Len(asked)
        /\ n = m + 1 /\ n \in 1 .. Len(asked)
    BY <1>2, <1>4, <1>7 DEF Served
  <2>2. decoded' = Append(SubSeq(asked, 1, m), asked[n])
    BY <1>5, <1>7, <2>1
  <2>. HIDE DEF T, m, n
  <2>3. Append(SubSeq(asked, 1, m), asked[n]) = SubSeq(asked, 1, n) /\ Len(SubSeq(asked, 1, n)) = n
    BY <2>1
  <2>. QED  BY <2>2, <2>3
<1>9. /\ IsReplies(replies) /\ Len(replies) = Len(decoded) /\ Len(decoded) \in Nat
      /\ \A k \in 1 .. Len(replies) : replies[k].name = asked[k].name
      /\ \A k \in 1 .. Len(replies) - 1 : replies[k].code = NONE
  BY <1>2, <1>7 DEF Served
<1>. HIDE DEF a, c, start, body, type
<1>10. /\ IsReplies(replies') /\ Len(replies') = n /\ n - 1 = Len(replies)
       /\ \A k \in 1 .. n - 1 : replies'[k] = replies[k]
       /\ replies'[n] = a /\ a.name = asked[n].name
       /\ FlattenSeq(AnswerPieces(replies')) = FlattenSeq(AnswerPieces(replies)) \o PutAnswer(a)
  <2>1. a.name = asked[n].name
    BY DEF a, c
  <2>2. /\ IsReplies(Append(replies, a))
        /\ FlattenSeq(AnswerPieces(Append(replies, a)))
             = FlattenSeq(AnswerPieces(replies)) \o PutAnswer(a)
    BY <1>6, <1>9, AnswersAppend
  <2>3. replies \in Seq(Range(replies))
    BY <1>9 DEF IsReplies
  <2>4. /\ Len(Append(replies, a)) = Len(replies) + 1
        /\ \A k \in 1 .. Len(replies) : Append(replies, a)[k] = replies[k]
        /\ Append(replies, a)[Len(replies) + 1] = a
    BY <2>3, AppendRange
  <2>5. Len(replies) + 1 = n /\ n - 1 = Len(replies)
    BY <1>9
  <2>. HIDE DEF n
  <2>. QED  BY <2>1, <2>2, <2>4, <2>5, <1>5
<1>11. \A k \in 1 .. n - 1 : replies[k].code = NONE
  <2>1. ASSUME NEW k \in 1 .. n - 1
        PROVE  replies[k].code = NONE
    <3>1. CASE k = Len(replies)
      <4>1. Len(replies) >= 1 /\ replies # <<>>
        BY <3>1, <2>1, <1>9
      <4>2. mode # 0
        <5>1. mode = 0 => Len(asked) = 1
          BY <1>1, <1>2 DEF AskedOK
        <5>. QED  BY <5>1, <4>1, <1>9, <1>3, <1>7
      <4>3. ~Failing
        BY <1>3, <4>2
      <4>. QED  BY <3>1, <4>1, <4>3 DEF Failing, Last
    <3>2. CASE k # Len(replies)
      <4>1. k \in 1 .. Len(replies) - 1
        BY <3>2, <2>1, <1>9
      <4>. QED  BY <4>1, <1>9
    <3>. QED  BY <3>1, <3>2
  <2>. QED  BY <2>1
<1>. HIDE DEF n
<1>12. Served'
  <2>1. cmd' = Framed(Request(asked', mode'))
    BY <1>1, <1>2 DEF Served
  <2>2. Len(decoded') \in 0 .. Len(asked') /\ decoded' = SubSeq(asked', 1, Len(decoded'))
    BY <1>1, <1>4, <1>8
  <2>3. cmdPos' = 5 + Len(RequestHeader(asked', mode')) + Len(CommandsUpto(asked', Len(decoded')))
    BY <1>1, <1>5, <1>8 DEF start
  <2>4. IsReplies(replies') /\ Len(replies') = Len(decoded')
    BY <1>8, <1>10
  <2>5. \A k \in 1 .. Len(replies') : replies'[k].name = asked'[k].name
    <3>1. ASSUME NEW k \in 1 .. n
          PROVE  replies'[k].name = asked[k].name
      <4>1. CASE k = n
        BY <4>1, <1>10
      <4>2. CASE k # n
        <5>1. k \in 1 .. n - 1
          BY <4>2, <1>4
        <5>. QED  BY <5>1, <1>9, <1>10
      <4>. QED  BY <4>1, <4>2
    <3>. QED  BY <3>1, <1>1, <1>10
  <2>6. \A k \in 1 .. Len(replies') - 1 : replies'[k].code = NONE
    BY <1>10, <1>11
  <2>. QED  BY <2>1, <2>2, <2>3, <2>4, <2>5, <2>6 DEF Served
<1>13. rsp' = Answered'
  <2>. DEFINE v == VarintBytes[Len(asked)]
              f == FlattenSeq(AnswerPieces(replies))
              p == PutAnswer(a)
  <2>1. v \in Seq(Byte) /\ f \in Seq(Byte) /\ p \in Seq(Byte)
    BY <1>6, <1>7, <1>9, VarintIsBytes, AnswersAreBytes, AnswerIsBytes
  <2>2. rsp' = (v \o f) \o p /\ Answered' = v \o (f \o p)
    BY <1>1, <1>2, <1>5, <1>10 DEF Answered
  <2>. HIDE DEF v, f, p
  <2>. QED  BY <2>1, <2>2, BytesAssoc, Zenon
<1>14. Unheard' /\ LinkOK' /\ AskedOK'
  <2>1. AskedOK'
    BY <1>1, <1>2, Zenon DEF AskedOK
  <2>2. Unheard'
    BY <1>1, <1>2 DEF Unheard
  <2>. QED  BY <1>1, <1>2, <2>1, <2>2, LinkUnchanged
<1>. QED  BY <1>1, <1>12, <1>13, <1>14 DEF WireInv

LEMMA CancelledIsBytes ==
  ASSUME NEW n \in Nat
  PROVE  FlattenSeq([k \in 1 .. n |-> Cancelled]) \in Seq(Byte)
<1>1. Cancelled \in Seq(Byte)
  <2>. DEFINE x == VarintBytes[0]
              y == VarintBytes[CANCELLED]
              z == PutString(ErrorText)
  <2>1. x \in Seq(Byte) /\ y \in Seq(Byte) /\ z \in Seq(Byte)
    BY VarintIsBytes, TextIsBytes DEF CANCELLED
  <2>2. Cancelled = (x \o y) \o z
    BY DEF Cancelled, ResponseHeader
  <2>. HIDE DEF x, y, z
  <2>. QED  BY <2>1, <2>2
<1>. DEFINE c == Cancelled
            T == Seq(Byte)
            s == [k \in 1 .. n |-> c]
<1>2. s \in Seq(T)
  <2>1. c \in T
    BY <1>1
  <2>. HIDE DEF c, T
  <2>. QED  BY <2>1
<1>3. s \in Pieces(Byte)
  BY <1>2 DEF Pieces
<1>. HIDE DEF s
<1>4. FlattenSeq(s) \in Seq(Byte)
  BY <1>3, FlattenIsSeq
<1>. QED  BY <1>4 DEF s, c

\* Every command is answered, or one has failed and the rest is made up for.
LEMMA ServerRepliesStep ==
  ASSUME WireInv, ServerReplies
  PROVE  WireInv'
<1>. DEFINE rest == FlattenSeq([k \in 1 .. Num - Len(decoded) + 1 |-> Cancelled])
            more == IF Failing /\ AbortOnError THEN rest ELSE <<>>
<1>1. /\ at = "server" /\ ~MoreCommands /\ at' = "reply"
      /\ Fits(rsp') /\ Sends(Framed(rsp'))
      /\ UNCHANGED <<link, asked, mode, closed, cmd, cmdPos, decoded, replies, rspPos, heardBack>>
      /\ rsp' = (IF Failing /\ AbortOnError THEN rsp \o rest ELSE rsp)
  BY DEF ServerReplies
<1>2. Served /\ Unheard /\ rsp = Answered /\ LinkOK /\ AskedOK /\ IsRequest(asked)
  BY <1>1 DEF WireInv, AskedOK
<1>3. Num = Len(asked) /\ (Len(decoded) < Len(asked) => cmdPos <= Len(cmd))
  BY <1>1, NextCommand
<1>4. /\ Len(asked) \in Nat /\ Len(decoded) \in 0 .. Len(asked) /\ Len(replies) = Len(decoded)
      /\ IsReplies(replies)
  BY <1>2 DEF Served, IsRequest
<1>5. Len(replies) = Len(asked) \/ Failing
  BY <1>1, <1>3, <1>4 DEF MoreCommands
<1>6. rest \in Seq(Byte)
  <2>. DEFINE n == Num - Len(decoded) + 1
  <2>1. n \in Nat
    BY <1>3, <1>4
  <2>. HIDE DEF n
  <2>2. FlattenSeq([k \in 1 .. n |-> Cancelled]) \in Seq(Byte)
    BY <2>1, CancelledIsBytes
  <2>. QED  BY <2>2 DEF n
<1>. HIDE DEF rest
<1>7. Answered \in Seq(Byte)
  <2>. DEFINE x == VarintBytes[Len(asked)]
              y == FlattenSeq(AnswerPieces(replies))
  <2>1. x \in Seq(Byte) /\ y \in Seq(Byte)
    BY <1>4, VarintIsBytes, AnswersAreBytes
  <2>2. Answered = x \o y
    BY DEF Answered
  <2>. HIDE DEF x, y
  <2>. QED  BY <2>1, <2>2
<1>8. more \in Seq(Byte) /\ rsp' = Answered \o more /\ (~Failing => more = <<>>)
      /\ rsp' \in Seq(Byte)
  <2>. DEFINE x == Answered
  <2>1. x \in Seq(Byte) /\ rsp = x
    BY <1>2, <1>7
  <2>. HIDE DEF x
  <2>2. x \o <<>> = x
    BY <2>1
  <2>3. more \in Seq(Byte) /\ rsp' = x \o more /\ (~Failing => more = <<>>)
    BY <1>1, <1>6, <2>1, <2>2
  <2>. HIDE DEF more
  <2>4. rsp' \in Seq(Byte)
    BY <2>1, <2>3
  <2>. QED  BY <2>3, <2>4 DEF x
<1>. HIDE DEF more
<1>9. LinkOK' /\ message' = Framed(rsp')
  <2>1. link' = link
    BY <1>1
  <2>. QED  BY <1>1, <1>2, <1>8, <2>1, Sent
<1>10. /\ Served' = Served /\ Unheard' = Unheard /\ Failing' = Failing /\ Answered' = Answered
       /\ AskedOK'
  <2>1. Served' = Served /\ Unheard' = Unheard
    BY <1>1, Zenon DEF Served, Unheard
  <2>2. Failing' = Failing /\ Answered' = Answered
    BY <1>1, Zenon DEF Failing, Answered
  <2>3. AskedOK'
    BY <1>1, <1>2 DEF AskedOK
  <2>. QED  BY <2>1, <2>2, <2>3
<1>11. Replied'
  <2>1. Len(replies') = Len(asked') \/ Failing'
    BY <1>1, <1>5, <1>10
  <2>2. \E x \in Seq(Byte) : rsp' = Answered' \o x /\ (~Failing' => x = <<>>)
    BY <1>8, <1>10, Zenon
  <2>3. Fits(rsp)'
    BY <1>1 DEF Fits, Framed, PutUint32
  <2>. QED  BY <2>1, <2>2, <2>3, <1>2, <1>8, <1>10 DEF Replied
<1>. QED  BY <1>1, <1>2, <1>9, <1>10, <1>11 DEF WireInv

\* What a reply is made of.
LEMMA ReplyParts ==
  ASSUME AskedOK, Replied
  PROVE  LET buf == Framed(rsp)
             v == VarintBytes[Len(asked)]
             f == FlattenSeq(AnswerPieces(replies))
         IN  /\ buf \in Seq(Byte) /\ GetUint32(buf, 1).val = Len(buf)
             /\ Len(v) \in Nat /\ Len(f) \in Nat
             /\ GetVarint(buf, 5) = Got(Len(asked), 5 + Len(v))
             /\ HasAt(buf, 5 + Len(v), f)
             /\ ~Failing => Len(buf) + 1 = 5 + Len(v) + Len(f)
<1>. DEFINE buf == Framed(rsp)
            v == VarintBytes[Len(asked)]
            f == FlattenSeq(AnswerPieces(replies))
<1>1. /\ Len(asked) \in Nat /\ IsReplies(replies) /\ rsp \in Seq(Byte) /\ Fits(rsp)
  BY DEF AskedOK, IsRequest, Replied, Served
<1>2. v \in Seq(Byte) /\ f \in Seq(Byte)
  BY <1>1, VarintIsBytes, AnswersAreBytes
<1>3. PICK more \in Seq(Byte) : rsp = (v \o f) \o more /\ (~Failing => more = <<>>)
  BY DEF Replied, Answered
<1>4. /\ buf \in Seq(Byte) /\ Len(buf) = Len(rsp) + 4 /\ HasAt(buf, 5, rsp)
      /\ HasAt(buf, 1, PutUint32(Len(buf))) /\ Uint32(Len(buf))
  BY <1>1, FitsIsUint32
<1>. HIDE DEF buf, f
<1>5. GetUint32(buf, 1).val = Len(buf)
  <2>1. 1 \in Nat \ {0}
    OBVIOUS
  <2>2. GetUint32(buf, 1) = Got(Len(buf), 1 + 4)
    BY <1>4, <2>1, Uint32Decodes
  <2>. QED  BY <2>2 DEF Got
<1>6. HasAt(buf, 5, v) /\ HasAt(buf, 5 + Len(v), f)
  <2>. HIDE DEF v
  <2>. DEFINE h == v \o f
  <2>1. 5 \in Nat \ {0} /\ h \in Seq(Byte) /\ HasAt(buf, 5, h \o more)
    BY <1>2, <1>3, <1>4
  <2>. HIDE DEF h
  <2>2. HasAt(buf, 5, h)
    BY <1>4, <2>1, HasBoth
  <2>3. HasAt(buf, 5, v \o f)
    BY <2>2 DEF h
  <2>. QED  BY <1>2, <1>4, <2>1, <2>3, HasBoth
<1>7. GetVarint(buf, 5) = Got(Len(asked), 5 + Len(v))
  <2>1. 5 \in Nat \ {0}
    OBVIOUS
  <2>. QED  BY <1>1, <1>4, <1>6, <2>1, VarintDecodes
<1>. HIDE DEF v
<1>8. ~Failing => Len(buf) + 1 = 5 + Len(v) + Len(f)
  <2>1. ASSUME ~Failing PROVE Len(rsp) = Len(v) + Len(f)
    <3>1. more = <<>>
      BY <1>3, <2>1
    <3>. DEFINE h == v \o f
    <3>2. h \in Seq(Byte) /\ Len(h) = Len(v) + Len(f)
      BY <1>2
    <3>3. rsp = h \o <<>>
      BY <3>1, <1>3
    <3>. HIDE DEF h
    <3>4. h \o <<>> = h
      BY <3>2
    <3>. QED  BY <3>2, <3>3, <3>4
  <2>2. Len(v) \in Nat /\ Len(f) \in Nat /\ Len(rsp) \in Nat
    BY <1>1, <1>2
  <2>. QED  BY <2>1, <2>2, <1>4
<1>9. Len(v) \in Nat /\ Len(f) \in Nat
  BY <1>2
<1>. QED  BY <1>4, <1>5, <1>6, <1>7, <1>8, <1>9 DEF buf, v, f

\* The reply has arrived as it was sent.
LEMMA ClientReadsStep ==
  ASSUME WireInv, ClientReads
  PROVE  WireInv'
<1>. DEFINE v == VarintBytes[Len(asked)]
            num == GetVarint(got, 5)
<1>1. /\ at = "reply" /\ Whole
      /\ UNCHANGED <<link, asked, mode, message, unsent, stream, got, closed, cmd>>
      /\ UNCHANGED <<cmdPos, decoded, replies, rsp, heardBack>>
  BY DEF ClientReads
<1>2. Replied /\ Unheard /\ message = Framed(rsp) /\ LinkOK /\ AskedOK
  BY <1>1 DEF WireInv
<1>3. got = Framed(rsp)
  BY <1>1, <1>2, Arrived DEF Replied
<1>4. /\ num = Got(Len(asked), 5 + Len(v)) /\ GetUint32(got, 1).val = Len(got)
      /\ Len(got) \in Nat /\ Len(v) \in Nat
  BY <1>2, <1>3, ReplyParts
<1>5. at' = "decoding" /\ rspPos' = 5 + Len(v)
  <2>1. num.val = Len(asked) /\ num.pos = 5 + Len(v)
    BY <1>4 DEF Got
  <2>2. GetUint32(got, 1).val <= Len(got)
    BY <1>4
  <2>3. IF GetUint32(got, 1).val <= Len(got) /\ num.val = Len(asked)
        THEN at' = "decoding" /\ rspPos' = num.pos
        ELSE at' = "broken" /\ UNCHANGED rspPos
    BY Zenon DEF ClientReads
  <2>. HIDE DEF num
  <2>. QED  BY <2>1, <2>2, <2>3
<1>. HIDE DEF num, v
<1>6. LinkOK' /\ AskedOK'
  <2>1. AskedOK'
    BY <1>1, <1>2 DEF AskedOK
  <2>. QED  BY <1>1, <1>2, <2>1, LinkUnchanged
<1>7. Replied'
  <2>1. Served' = Served
    BY <1>1, Zenon DEF Served
  <2>2. Failing' = Failing /\ Answered' = Answered
    BY <1>1, Zenon DEF Failing, Answered
  <2>. QED  BY <1>1, <1>2, <2>1, <2>2, Zenon DEF Replied
<1>8. Heard'
  <2>1. heardBack' = <<>> /\ Len(heardBack') = 0 /\ IsReplies(replies) /\ replies' = replies
    BY <1>1, <1>2 DEF Unheard, Replied, Served
  <2>2. AnswersUpto(replies, 0) = <<>> /\ SubSeq(replies, 1, 0) = <<>> /\ Len(replies) \in Nat
    <3>1. AnswerPieces(replies) \in Seq(Seq(Byte)) /\ replies \in Seq(Range(replies))
      BY <2>1, AnswersAreBytes DEF Pieces, IsReplies
    <3>2. SubSeq(AnswerPieces(replies), 1, 0) = <<>> /\ SubSeq(replies, 1, 0) = <<>>
          /\ Len(replies) \in Nat
      BY <3>1
    <3>. QED  BY <3>2, FlattenEmpty, Zenon DEF AnswersUpto
  <2>3. Len(AnswersUpto(replies, 0)) = 0
    BY <2>2
  <2>4. asked' = asked
    BY <1>1
  <2>5. Len(heardBack') \in 0 .. Len(replies') /\ heardBack' = SubSeq(replies', 1, Len(heardBack'))
    BY <2>1, <2>2
  <2>6. \A k \in 1 .. Len(heardBack') : replies'[k].code = NONE
    BY <2>1
  <2>7. rspPos' = 5 + Len(VarintBytes[Len(asked')]) + Len(AnswersUpto(replies', Len(heardBack')))
    <3>1. rspPos' = 5 + Len(VarintBytes[Len(asked')]) + 0
      BY <1>4, <1>5, <2>4 DEF v
    <3>2. AnswersUpto(replies', Len(heardBack')) = AnswersUpto(replies, 0)
      BY <2>1
    <3>. QED  BY <3>1, <3>2, <2>3
  <2>. QED  BY <2>5, <2>6, <2>7 DEF Heard
<1>. QED  BY <1>1, <1>3, <1>5, <1>6, <1>7, <1>8 DEF WireInv

\* The reply whose turn it is: there is one, and it decodes.
LEMMA NextReply ==
  ASSUME WireInv, at = "decoding", Len(heardBack) < Len(asked)
  PROVE  LET n == Len(heardBack) + 1
             type == GetVarint(got, rspPos)
             code == GetVarint(got, type.pos)
         IN  /\ n \in 1 .. Len(replies) /\ n <= Len(asked) /\ replies[n].name = asked[n].name
             /\ IsAnswer(replies[n])
             /\ type.val = Codes[asked[n].name] /\ code.val = replies[n].code
             /\ replies[n].code # NONE =>
                  n = Len(replies) /\ Failing /\ GetString(got, code.pos).pos \in Nat
             /\ replies[n].code = NONE => Decode(ClientLayout[asked[n].name].rsp, got, code.pos)
                  = Decoded(TRUE, replies[n].vals,
                            5 + Len(VarintBytes[Len(asked)]) + Len(AnswersUpto(replies, n)))
<1>. DEFINE n == Len(heardBack) + 1
            v == VarintBytes[Len(asked)]
            start == 5 + Len(v)
            pieces == AnswerPieces(replies)
            type == GetVarint(got, rspPos)
            code == GetVarint(got, type.pos)
<1>1. Replied /\ got = Framed(rsp) /\ Heard /\ AskedOK
  BY DEF WireInv
<1>2. /\ Served /\ IsReplies(replies) /\ Len(asked) \in Nat /\ Len(replies) \in 0 .. Len(asked)
      /\ Len(replies) \in Nat /\ DOMAIN replies = 1 .. Len(replies)
      /\ (Len(replies) = Len(asked) \/ Failing)
  BY <1>1 DEF Replied, Served, IsReplies, AskedOK, IsRequest
<1>3. /\ Len(heardBack) \in 0 .. Len(replies)
      /\ \A k \in 1 .. Len(heardBack) : replies[k].code = NONE
      /\ rspPos = start + Len(AnswersUpto(replies, Len(heardBack)))
  BY <1>1 DEF Heard
<1>4. n \in 1 .. Len(replies) /\ n <= Len(asked) /\ n - 1 = Len(heardBack)
  <2>1. ASSUME Len(heardBack) = Len(replies) PROVE FALSE
    <3>1. Failing
      BY <1>2, <2>1
    <3>2. Len(replies) \in 1 .. Len(heardBack) /\ replies[Len(replies)].code # NONE
      <4>1. replies # <<>> /\ replies[Len(replies)].code # NONE
        BY <3>1 DEF Failing, Last
      <4>2. Len(replies) # 0
        BY <4>1, <1>2 DEF IsReplies
      <4>. QED  BY <4>1, <4>2, <2>1, <1>2
    <3>. QED  BY <3>2, <1>3
  <2>. QED  BY <2>1, <1>2, <1>3
<1>5. /\ got \in Seq(Byte) /\ Len(v) \in Nat /\ HasAt(got, start, FlattenSeq(pieces))
  BY <1>1, ReplyParts
<1>6. /\ pieces \in Pieces(Byte) /\ Len(pieces) = Len(replies)
      /\ \A k \in 1 .. Len(replies) : pieces[k] = PutAnswer(replies[k])
  BY <1>2, AnswersAreBytes
<1>. HIDE DEF v, type, code
<1>. DEFINE before == FlattenSeq(SubSeq(pieces, 1, n - 1))
            upto == FlattenSeq(SubSeq(pieces, 1, n))
<1>7. /\ before \in Seq(Byte) /\ HasAt(got, start + Len(before), PutAnswer(replies[n]))
      /\ upto = before \o PutAnswer(replies[n]) /\ PutAnswer(replies[n]) \in Seq(Byte)
      /\ IsAnswer(replies[n])
  <2>. HIDE DEF n, pieces
  <2>1. start \in Nat \ {0} /\ n \in 1 .. Len(pieces) /\ pieces[n] = PutAnswer(replies[n])
    BY <1>4, <1>5, <1>6
  <2>2. HasAt(got, start + Len(before), pieces[n])
    <3>. HIDE DEF start
    <3>. QED  BY <1>5, <1>6, <2>1, HasPiece
  <2>3. /\ SubSeq(pieces, 1, n - 1) \in Pieces(Byte) /\ pieces[n] \in Seq(Byte)
        /\ upto = before \o pieces[n]
    BY <1>6, <2>1, FlattenUpto
  <2>4. before \in Seq(Byte)
    BY <2>3, FlattenIsSeq
  <2>5. IsAnswer(replies[n])
    BY <1>2, <1>4 DEF IsReplies
  <2>. QED  BY <2>1, <2>2, <2>3, <2>4, <2>5
<1>8. rspPos = start + Len(before) /\ AnswersUpto(replies, n) = upto
  BY <1>3, <1>4, Zenon DEF AnswersUpto
<1>9. replies[n].name = asked[n].name
  BY <1>2, <1>4 DEF Served
<1>. HIDE DEF n, pieces
<1>10. /\ type.val = Codes[replies[n].name] /\ code.val = replies[n].code
       /\ (replies[n].code # NONE => GetString(got, code.pos).pos \in Nat)
       /\ (replies[n].code = NONE => Decode(ClientLayout[replies[n].name].rsp, got, code.pos)
                  = Decoded(TRUE, replies[n].vals, rspPos + Len(PutAnswer(replies[n]))))
  <2>. DEFINE p == start + Len(before)
              a == replies[n]
  <2>1. p \in Nat \ {0} /\ IsAnswer(a) /\ HasAt(got, p, PutAnswer(a)) /\ rspPos = p
    BY <1>5, <1>7, <1>8
  <2>. HIDE DEF p, a
  <2>. DEFINE t == GetVarint(got, p)
              e == GetVarint(got, t.pos)
  <2>2. /\ t.val = Codes[a.name] /\ e.val = a.code
        /\ (a.code # NONE => GetString(got, e.pos).pos \in Nat)
        /\ (a.code = NONE => Decode(ClientLayout[a.name].rsp, got, e.pos)
                               = Decoded(TRUE, a.vals, p + Len(PutAnswer(a))))
    BY <1>5, <2>1, AnswerDecodes
  <2>3. t = type /\ e = code
    BY <2>1, Zenon DEF type, code
  <2>. HIDE DEF t, e
  <2>. QED  BY <2>1, <2>2, <2>3, Zenon DEF a
<1>11. rspPos + Len(PutAnswer(replies[n])) = start + Len(AnswersUpto(replies, n))
  <2>. DEFINE x == PutAnswer(replies[n])
              b == before
  <2>1. x \in Seq(Byte) /\ b \in Seq(Byte) /\ AnswersUpto(replies, n) = b \o x
        /\ rspPos = start + Len(b)
    BY <1>7, <1>8
  <2>. HIDE DEF x, b, before
  <2>2. Len(b \o x) = Len(b) + Len(x) /\ Len(b) \in Nat /\ Len(x) \in Nat
    BY <2>1
  <2>. QED  BY <2>1, <2>2, <1>5 DEF x
<1>12. replies[n].code # NONE => n = Len(replies) /\ Failing
  <2>1. ASSUME replies[n].code # NONE PROVE n = Len(replies)
    <3>. DEFINE N == Len(replies)
    <3>1. \A k \in 1 .. N - 1 : replies[k].code = NONE
      BY <1>2 DEF Served
    <3>2. n \notin 1 .. N - 1
      BY <3>1, <2>1, Zenon
    <3>3. N \in Nat /\ n \in 1 .. N
      BY <1>2, <1>4
    <3>. HIDE DEF N
    <3>4. n = N
      BY <3>2, <3>3
    <3>. QED  BY <3>4 DEF N
  <2>2. replies # <<>>
    BY <1>2, <1>4
  <2>. QED  BY <2>1, <2>2 DEF Failing, Last
<1>. HIDE DEF start
<1>13. replies[n].code = NONE => Decode(ClientLayout[asked[n].name].rsp, got, code.pos)
                  = Decoded(TRUE, replies[n].vals, start + Len(AnswersUpto(replies, n)))
  BY <1>9, <1>10, <1>11, Zenon
<1>14. type.val = Codes[asked[n].name]
  BY <1>9, <1>10, Zenon
<1>. QED  BY <1>4, <1>7, <1>9, <1>10, <1>12, <1>13, <1>14, Zenon DEF n, type, code, start, v

LEMMA SubSeqAll ==
  ASSUME NEW T, NEW s \in Seq(T)
  PROVE  SubSeq(s, 1, Len(s)) = s /\ SubSeq(s, 1, 0) = <<>>
<1>1. /\ SubSeq(s, 1, Len(s)) \in Seq(T) /\ Len(SubSeq(s, 1, Len(s))) = Len(s)
      /\ \A k \in 1 .. Len(s) : SubSeq(s, 1, Len(s))[k] = s[k]
  OBVIOUS
<1>. DEFINE t == SubSeq(s, 1, Len(s))
<1>. HIDE DEF t
<1>2. t = s
  BY <1>1 DEF t
<1>. QED  BY <1>2 DEF t

\* One reply more is decoded.
LEMMA ProcessResponseStep ==
  ASSUME WireInv, ProcessResponse
  PROVE  WireInv'
<1>. DEFINE n == Len(heardBack) + 1
            want == asked[n].name
            type == GetVarint(got, rspPos)
            code == GetVarint(got, type.pos)
            text == GetString(got, code.pos)
            body == Decode(ClientLayout[want].rsp, got, code.pos)
            end == 5 + Len(VarintBytes[Len(asked)]) + Len(AnswersUpto(replies, n))
            a == replies[n]
<1>1. /\ at = "decoding" /\ Len(heardBack) < Len(asked)
      /\ UNCHANGED <<link, asked, mode, message, unsent, stream, got, closed, cmd>>
      /\ UNCHANGED <<cmdPos, decoded, replies, rsp>>
  BY DEF ProcessResponse
<1>2. Replied /\ got = Framed(rsp) /\ Heard /\ LinkOK /\ AskedOK
  BY <1>1 DEF WireInv
<1>3. /\ n \in 1 .. Len(replies) /\ n <= Len(asked) /\ a.name = want /\ IsAnswer(a)
      /\ type.val = Codes[want] /\ code.val = a.code
      /\ (a.code # NONE => n = Len(replies) /\ Failing /\ text.pos \in Nat)
      /\ (a.code = NONE => body = Decoded(TRUE, a.vals, end))
  BY <1>1, NextReply
<1>4. \/ /\ a.code # NONE
         /\ heardBack' = Append(heardBack, [name |-> want, code |-> a.code, vals |-> NoValues])
         /\ rspPos' = text.pos
         /\ at' = "done"
      \/ /\ a.code = NONE
         /\ heardBack' = Append(heardBack, [name |-> want, code |-> NONE, vals |-> body.vals])
         /\ rspPos' = body.pos
         /\ at' = IF Len(heardBack') = Len(asked) THEN "done" ELSE at
  <2>1. \/ type.val # Codes[want]
        \/ /\ code.val # NONE
           /\ heardBack' = Append(heardBack, [name |-> want, code |-> code.val, vals |-> NoValues])
           /\ rspPos' = text.pos
           /\ at' = "done"
        \/ /\ code.val = NONE
           /\ heardBack' = Append(heardBack, [name |-> want, code |-> NONE, vals |-> body.vals])
           /\ rspPos' = body.pos
           /\ at' = IF Len(heardBack') = Len(asked) THEN "done" ELSE at
    BY Zenon DEF ProcessResponse
  <2>. HIDE DEF want, type, code, text, body, a
  <2>. QED  BY <2>1, <1>3, Zenon
<1>5. /\ Served /\ IsReplies(replies) /\ Len(replies) \in Nat /\ Len(asked) \in Nat
      /\ replies \in Seq(Range(replies)) /\ Len(replies) <= Len(asked)
      /\ n - 1 = Len(heardBack) /\ Len(heardBack) \in 0 .. Len(replies)
      /\ heardBack = SubSeq(replies, 1, n - 1)
      /\ \A k \in 1 .. n - 1 : replies[k].code = NONE
  BY <1>2 DEF Replied, Served, IsReplies, Heard, AskedOK, IsRequest
<1>6. /\ LinkOK' /\ AskedOK' /\ Replied' /\ Served' /\ Failing' = Failing
  <2>1. Served' = Served
    BY <1>1, Zenon DEF Served
  <2>2. Failing' = Failing /\ Answered' = Answered
    BY <1>1, Zenon DEF Failing, Answered
  <2>3. Replied'
    BY <1>1, <1>2, <2>1, <2>2, Zenon DEF Replied
  <2>4. AskedOK'
    BY <1>1, <1>2 DEF AskedOK
  <2>. QED  BY <1>1, <1>2, <1>5, <2>1, <2>2, <2>3, <2>4, LinkUnchanged
<1>. HIDE DEF want, type, code, text, end, a
<1>7. ASSUME NEW r, heardBack' = Append(heardBack, r), r.code = a.code,
             r.code = NONE => r = a
      PROVE  /\ heardBack' \in Seq(Range(heardBack')) /\ Len(heardBack') = n
             /\ \A k \in 1 .. n : heardBack'[k].code = replies[k].code
                  /\ (heardBack'[k].code = NONE => heardBack'[k] = replies[k])
  <2>. DEFINE T == Range(replies)
  <2>0. replies \in Seq(T)
    BY <1>5
  <2>. HIDE DEF n, T
  <2>1. /\ heardBack \in Seq(T) /\ Len(heardBack) = n - 1
        /\ \A k \in 1 .. n - 1 : heardBack[k] = replies[k]
    BY <1>3, <1>5, <2>0
  <2>2. heardBack \in Seq(Range(heardBack))
    BY <2>1, IsSeqOfRange
  <2>3. /\ heardBack' \in Seq(Range(heardBack')) /\ Len(heardBack') = n
        /\ \A k \in 1 .. n - 1 : heardBack'[k] = heardBack[k]
        /\ heardBack'[n] = r
    <3>. DEFINE s == heardBack
                t == Append(s, r)
    <3>1. /\ t \in Seq(Range(t)) /\ Len(t) = Len(s) + 1
          /\ \A k \in 1 .. Len(s) : t[k] = s[k]
          /\ t[Len(s) + 1] = r
      BY <2>2, AppendRange
    <3>2. heardBack' = t
      BY <1>7
    <3>3. Len(s) + 1 = n /\ Len(s) = n - 1
      BY <1>3, <2>1
    <3>. HIDE DEF t, s
    <3>. QED  BY <3>1, <3>2, <3>3, Zenon DEF s
  <2>4. ASSUME NEW k \in 1 .. n
        PROVE  /\ heardBack'[k].code = replies[k].code
               /\ (heardBack'[k].code = NONE => heardBack'[k] = replies[k])
    <3>1. CASE k = n
      BY <3>1, <1>7, <2>3, Zenon DEF a
    <3>2. CASE k # n
      <4>1. k \in 1 .. n - 1
        BY <3>2, <1>3
      <4>. QED  BY <4>1, <2>1, <2>3
    <3>. QED  BY <3>1, <3>2
  <2>. QED  BY <2>3, <2>4
<1>8. CASE a.code # NONE
  <2>. DEFINE r == [name |-> want, code |-> a.code, vals |-> NoValues]
  <2>1. heardBack' = Append(heardBack, r) /\ rspPos' = text.pos /\ at' = "done"
    BY <1>4, <1>8
  <2>2. r.code = a.code /\ r.code # NONE
    BY <1>8
  <2>. HIDE DEF r
  <2>3. /\ heardBack' \in Seq(Range(heardBack')) /\ Len(heardBack') = n
        /\ \A k \in 1 .. n : heardBack'[k].code = replies[k].code
             /\ (heardBack'[k].code = NONE => heardBack'[k] = replies[k])
    BY <1>7, <2>1, <2>2
  <2>4. Failing' /\ rspPos' \in Nat /\ replies' = replies /\ Len(heardBack') <= Len(replies')
    BY <1>1, <1>3, <1>6, <1>8, <2>1, <2>3
  <2>5. HeardAll'
    BY <2>3, <2>4 DEF HeardAll
  <2>. QED  BY <1>1, <1>6, <2>1, <2>5 DEF WireInv
<1>9. CASE a.code = NONE
  <2>1. body.vals = a.vals /\ body.pos = end
    BY <1>3, <1>9 DEF Decoded
  <2>. HIDE DEF body
  <2>2. [name |-> want, code |-> NONE, vals |-> body.vals] = a
    <3>1. a = [name |-> a.name, code |-> a.code, vals |-> a.vals]
      BY <1>3 DEF IsAnswer
    <3>. QED  BY <3>1, <2>1, <1>3, <1>9, Zenon
  <2>3. /\ heardBack' = Append(heardBack, a) /\ rspPos' = end
        /\ at' = IF Len(heardBack') = Len(asked) THEN "done" ELSE at
    BY <1>4, <1>9, <2>1, <2>2, Zenon
  <2>4. /\ heardBack' \in Seq(Range(heardBack')) /\ Len(heardBack') = n
        /\ \A k \in 1 .. n : heardBack'[k].code = replies[k].code
             /\ (heardBack'[k].code = NONE => heardBack'[k] = replies[k])
    BY <1>7, <2>3
  <2>5. \A k \in 1 .. n : replies[k].code = NONE
    <3>1. ASSUME NEW k \in 1 .. n PROVE replies[k].code = NONE
      <4>1. CASE k = n
        BY <4>1, <1>9 DEF a
      <4>2. CASE k # n
        <5>1. k \in 1 .. n - 1
          BY <4>2, <1>3
        <5>. QED  BY <5>1, <1>5
      <4>. QED  BY <4>1, <4>2
    <3>. QED  BY <3>1
  <2>6. heardBack' = SubSeq(replies, 1, n)
    <3>. DEFINE T == Range(replies)
                s == SubSeq(replies, 1, n)
                t == heardBack'
    <3>0. replies \in Seq(T)
      BY <1>5
    <3>. HIDE DEF T, n
    <3>1. s \in Seq(T) /\ Len(s) = n /\ \A k \in 1 .. n : s[k] = replies[k]
      BY <1>3, <3>0
    <3>2. t \in Seq(Range(t)) /\ Len(t) = n /\ \A k \in 1 .. n : t[k] = replies[k]
      BY <2>4, <2>5
    <3>. HIDE DEF s, t
    <3>3. t = s
      BY <3>1, <3>2
    <3>. QED  BY <3>3 DEF s, t
  <2>7. CASE Len(heardBack') = Len(asked)
    <3>1. n = Len(asked) /\ n = Len(replies) /\ at' = "done"
      BY <2>3, <2>4, <2>7, <1>3, <1>5
    <3>2. ~Failing
      BY <3>1, <1>3, <1>9 DEF Failing, Last, a
    <3>3. AnswersUpto(replies, n) = FlattenSeq(AnswerPieces(replies))
      <4>1. AnswerPieces(replies) \in Seq(Seq(Byte)) /\ Len(AnswerPieces(replies)) = n
        BY <1>5, <3>1, AnswersAreBytes DEF Pieces
      <4>2. SubSeq(AnswerPieces(replies), 1, n) = AnswerPieces(replies)
        BY <4>1, SubSeqAll
      <4>. QED  BY <4>2, Zenon DEF AnswersUpto
    <3>4. Len(got) + 1 = end /\ Len(got) \in Nat
      <4>. DEFINE v == VarintBytes[Len(asked)]
                  f == FlattenSeq(AnswerPieces(replies))
                  buf == Framed(rsp)
      <4>1. buf \in Seq(Byte) /\ Len(buf) + 1 = 5 + Len(v) + Len(f)
        BY <1>2, <3>2, ReplyParts
      <4>2. got = buf /\ end = 5 + Len(v) + Len(f)
        BY <1>2, <3>3, Zenon DEF end
      <4>. HIDE DEF v, f, buf
      <4>. QED  BY <4>1, <4>2
    <3>5. HeardAll'
      <4>1. got' = got /\ replies' = replies /\ rspPos' = Len(got) + 1 /\ rspPos' \in Nat
        BY <1>1, <2>3, <3>4
      <4>2. Len(heardBack') <= Len(replies')
        BY <1>1, <2>4, <3>1, <1>5
      <4>. QED  BY <2>4, <4>1, <4>2 DEF HeardAll
    <3>. QED  BY <1>1, <1>6, <3>1, <3>5 DEF WireInv
  <2>8. CASE Len(heardBack') # Len(asked)
    <3>1. at' = "decoding"
      BY <2>3, <2>8, <1>1
    <3>2. Heard'
      <4>1. Len(heardBack') \in 0 .. Len(replies')
        BY <1>1, <1>3, <2>4
      <4>2. heardBack' = SubSeq(replies', 1, Len(heardBack'))
        BY <1>1, <2>4, <2>6
      <4>3. \A k \in 1 .. Len(heardBack') : replies'[k].code = NONE
        BY <1>1, <2>4, <2>5
      <4>4. rspPos' = 5 + Len(VarintBytes[Len(asked')])
                        + Len(AnswersUpto(replies', Len(heardBack')))
        BY <1>1, <2>3, <2>4, Zenon DEF end
      <4>. QED  BY <4>1, <4>2, <4>3, <4>4 DEF Heard
    <3>3. got' = Framed(rsp')
      BY <1>1, <1>2
    <3>. QED  BY <1>6, <3>1, <3>2, <3>3 DEF WireInv
  <2>. QED  BY <2>7, <2>8
<1>. QED  BY <1>8, <1>9

LEMMA WireInitHolds ==
  ASSUME WireInit
  PROVE  WireInv
<1>1. /\ link \in {"tcp", "usb"} /\ at = "client" /\ asked = <<>> /\ mode = 0
      /\ message = <<>> /\ unsent = <<>> /\ stream = <<>> /\ got = <<>>
      /\ Fresh
  BY DEF WireInit, Fresh
<1>2. LinkOK
  <2>1. <<>> \in Seq(Byte) /\ Len(<<>>) = 0 /\ (<<>> \o <<>>) \o <<>> = <<>>
    OBVIOUS
  <2>2. Len(message) <= BUFFER_SIZE
    BY <1>1, WireAssumption
  <2>3. InFlight = <<>>
    BY <1>1, <2>1 DEF InFlight
  <2>4. HasAt(message, 1, InFlight)
    BY <1>1, <2>3, <2>1, HasAll
  <2>. QED  BY <1>1, <2>1, <2>2, <2>4 DEF LinkOK
<1>3. AskedOK
  <2>. DEFINE e == <<>>
  <2>1. e \in Seq(Range(e)) /\ DOMAIN e = {}
    OBVIOUS
  <2>. HIDE DEF e
  <2>2. IsRequest(e)
    BY <2>1 DEF IsRequest
  <2>. QED  BY <1>1, <2>2 DEF AskedOK, BatchModes, e
<1>. QED  BY <1>1, <1>2, <1>3 DEF WireInv

LEMMA WireStuttering ==
  ASSUME WireInv, UNCHANGED wireVars
  PROVE  WireInv'
<1>1. /\ UNCHANGED <<link, message, unsent, stream, got>> /\ UNCHANGED convVars
      /\ at' = at /\ closed' = closed /\ asked' = asked /\ mode' = mode /\ rsp' = rsp
  BY DEF wireVars, convVars
<1>2. LinkOK'
  BY <1>1, LinkUnchanged DEF WireInv
<1>3. /\ Fresh' = Fresh /\ Served' = Served /\ Answered' = Answered /\ Replied' = Replied
      /\ Heard' = Heard /\ Unheard' = Unheard /\ AskedOK'
  BY <1>1, ConvUnchanged DEF WireInv
<1>4. HeardAll' = HeardAll
  BY <1>1, Zenon DEF HeardAll, Failing, convVars
<1>5. got' = got /\ message' = message
  BY <1>1
<1>. QED  BY <1>1, <1>2, <1>3, <1>4, <1>5, Zenon DEF WireInv

\* The invariant, for every conversation of the client and the server: what is read
\* and on its way is the message sent, and each side is where the other put what
\* it reads next (cswp_client.c, cswp_server.c, common_tcp.c).
THEOREM WireCorrect == WireSpec => []WireInv
<1>1. WireInit => WireInv
  BY WireInitHolds
<1>2. WireInv /\ [WireNext]_wireVars => WireInv'
  <2>. SUFFICES ASSUME WireInv, [WireNext]_wireVars PROVE WireInv'
    OBVIOUS
  <2>1. ASSUME NEW request, NEW m \in BatchModes, IsRequest(request), ClientSends(request, m)
        PROVE  WireInv'
    BY <2>1, ClientSendsStep
  <2>2. ASSUME NEW n \in Nat \ {0}, WriteSome(n)
        PROVE  WireInv'
    BY <2>2, WriteSomeStep
  <2>3. ASSUME NEW n \in Nat \ {0}, ReadSome(n)
        PROVE  WireInv'
    BY <2>3, ReadSomeStep
  <2>4. CASE ReceiveTransfer
    BY <2>4, ReceiveTransferStep
  <2>5. CASE PeerCloses
    BY <2>5, PeerClosesStep
  <2>6. CASE EndOfFile
    BY <2>6, EndOfFileStep
  <2>7. CASE ServerReads
    BY <2>7, ServerReadsStep
  <2>8. ASSUME NEW error \in 0 .. VarintMax, NEW vals, HandleCommand(error, vals),
               error = NONE => WellFormed(ServerLayout[NextName].rsp, vals)
        PROVE  WireInv'
    BY <2>8, HandleCommandStep
  <2>9. CASE ServerReplies
    BY <2>9, ServerRepliesStep
  <2>10. CASE ClientReads
    BY <2>10, ClientReadsStep
  <2>11. CASE ProcessResponse
    BY <2>11, ProcessResponseStep
  <2>12. CASE UNCHANGED wireVars
    BY <2>12, WireStuttering
  <2>. QED
    BY <2>1, <2>2, <2>3, <2>4, <2>5, <2>6, <2>7, <2>8, <2>9, <2>10, <2>11, <2>12, Zenon DEF WireNext
<1>. QED  BY <1>1, <1>2, PTL DEF WireSpec

\* The invariant implies what the runs check.
LEMMA InvFramesWhole ==
  ASSUME WireInv
  PROVE  FramesWhole
<1>. SUFFICES ASSUME Travelling, Whole
              PROVE  got = message /\ stream = <<>> /\ unsent = <<>>
  BY DEF FramesWhole
<1>1. CASE at = "request"
  <2>1. /\ Request(asked, mode) \in Seq(Byte) /\ Fits(Request(asked, mode)) /\ LinkOK
        /\ message = Framed(Request(asked, mode))
    BY <1>1, RequestParts DEF WireInv, AskedOK
  <2>. QED  BY <2>1, Arrived
<1>2. CASE at = "reply"
  <2>1. rsp \in Seq(Byte) /\ Fits(rsp) /\ LinkOK /\ message = Framed(rsp)
    BY <1>2 DEF WireInv, Replied
  <2>. QED  BY <2>1, Arrived
<1>. QED  BY <1>1, <1>2 DEF Travelling

LEMMA PiecesUpto ==
  ASSUME NEW s \in Pieces(Byte), NEW n \in 0 .. Len(s)
  PROVE  Len(FlattenSeq(SubSeq(s, 1, n))) \in Nat
<1>. DEFINE T == Seq(Byte)
            t == SubSeq(s, 1, n)
<1>1. s \in Seq(T)
  BY DEF Pieces
<1>. HIDE DEF T
<1>2. t \in Seq(T)
  BY <1>1
<1>3. t \in Pieces(Byte)
  BY <1>2 DEF Pieces, T
<1>. HIDE DEF t
<1>4. FlattenSeq(t) \in Seq(Byte)
  BY <1>3, FlattenIsSeq
<1>. QED  BY <1>4 DEF t

LEMMA CommandsUptoLen ==
  ASSUME NEW request, IsRequest(request), NEW n \in 0 .. Len(request)
  PROVE  Len(CommandsUpto(request, n)) \in Nat
BY PiecesUpto, CommandsAreBytes DEF CommandsUpto

LEMMA AnswersUptoLen ==
  ASSUME NEW answers, IsReplies(answers), NEW n \in 0 .. Len(answers)
  PROVE  Len(AnswersUpto(answers, n)) \in Nat
BY PiecesUpto, AnswersAreBytes DEF AnswersUpto

LEMMA InvTypeOK ==
  ASSUME WireInv
  PROVE  WireTypeOK
<1>1. /\ LinkOK /\ AskedOK
      /\ at \in {"client", "request", "server", "reply", "decoding", "done", "broken"}
      /\ (Fresh \/ Served) /\ (Unheard \/ (Replied /\ Heard) \/ HeardAll)
  BY DEF WireInv, Fresh, Unheard, Replied
<1>2. Len(got) + Len(stream) + Len(unsent) <= Len(message) /\ Len(message) <= BUFFER_SIZE
  <2>. DEFINE g == got
              t == stream
              u == unsent
              m == message
  <2>1. /\ g \in Seq(Byte) /\ t \in Seq(Byte) /\ u \in Seq(Byte) /\ m \in Seq(Byte)
        /\ HasAt(m, 1, (g \o t) \o u) /\ Len(m) <= BUFFER_SIZE
    BY <1>1 DEF LinkOK, InFlight
  <2>. HIDE DEF g, t, u, m
  <2>2. Len((g \o t) \o u) = Len(g) + Len(t) + Len(u)
    <3>1. g \o t \in Seq(Byte) /\ Len(g \o t) = Len(g) + Len(t)
      BY <2>1
    <3>. DEFINE h == g \o t
    <3>2. h \in Seq(Byte)
      BY <3>1
    <3>. HIDE DEF h
    <3>3. Len(h \o u) = Len(h) + Len(u)
      BY <2>1, <3>2
    <3>. QED  BY <3>1, <3>3 DEF h
  <2>3. /\ Len(g) \in Nat /\ Len(t) \in Nat /\ Len(u) \in Nat /\ Len(m) \in Nat
        /\ 1 + Len((g \o t) \o u) - 1 <= Len(m)
    BY <2>1 DEF HasAt
  <2>4. Len(g) + Len(t) + Len(u) <= Len(m)
    BY <2>2, <2>3
  <2>. QED  BY <2>1, <2>4 DEF g, t, u, m
<1>3. Len(asked) \in Nat
  BY <1>1 DEF AskedOK, IsRequest
<1>4. Len(decoded) <= Len(asked) /\ Len(replies) = Len(decoded) /\ cmdPos \in Nat
  <2>1. CASE Fresh
    BY <2>1, <1>3 DEF Fresh
  <2>2. CASE Served
    <3>1. Len(decoded) \in 0 .. Len(asked) /\ Len(replies) = Len(decoded) /\ IsRequest(asked)
          /\ mode \in BatchModes
      BY <1>1, <2>2 DEF Served, AskedOK
    <3>2. Len(CommandsUpto(asked, Len(decoded))) \in Nat
      BY <3>1, CommandsUptoLen
    <3>3. Len(RequestHeader(asked, mode)) \in Nat
      BY <3>1, RequestParts
    <3>4. cmdPos = 5 + Len(RequestHeader(asked, mode)) + Len(CommandsUpto(asked, Len(decoded)))
      BY <2>2 DEF Served
    <3>. QED  BY <1>3, <3>1, <3>2, <3>3, <3>4
  <2>. QED  BY <1>1, <2>1, <2>2
<1>5. rspPos \in Nat
  <2>1. CASE Unheard
    BY <2>1 DEF Unheard
  <2>2. CASE Replied /\ Heard
    <3>1. IsReplies(replies) /\ Len(heardBack) \in 0 .. Len(replies)
      BY <2>2 DEF Replied, Served, Heard
    <3>2. Len(AnswersUpto(replies, Len(heardBack))) \in Nat
      BY <3>1, AnswersUptoLen
    <3>3. Len(VarintBytes[Len(asked)]) \in Nat
      BY <1>3, VarintIsBytes
    <3>. QED  BY <2>2, <3>2, <3>3 DEF Heard
  <2>3. CASE HeardAll
    BY <2>3 DEF HeardAll
  <2>. QED  BY <1>1, <2>1, <2>2, <2>3
<1>. QED  BY <1>1, <1>2, <1>4, <1>5 DEF WireTypeOK, LinkOK

LEMMA InvDecodesAsEncoded ==
  ASSUME WireInv
  PROVE  DecodesAsEncoded
<1>1. /\ LinkOK /\ AskedOK /\ (Fresh \/ (Served /\ at # "client"))
      /\ (Unheard \/ (Replied /\ Heard) \/ HeardAll)
      /\ (at = "done" => HeardAll /\ Served) /\ (at = "broken" => closed)
  BY DEF WireInv, Fresh, Unheard, Replied
<1>2. IsRequest(asked) /\ mode \in BatchModes /\ asked \in Seq(Range(asked)) /\ Len(asked) \in Nat
  BY <1>1 DEF AskedOK, IsRequest
<1>3. decoded = SubSeq(asked, 1, Len(decoded))
  <2>1. CASE Fresh
    BY <2>1, <1>2, SubSeqAll DEF Fresh
  <2>2. CASE Served
    BY <2>2 DEF Served
  <2>. QED  BY <1>1, <2>1, <2>2
<1>4. Len(decoded) = Len(asked) => cmdPos = Len(cmd) + 1
  <2>1. CASE Fresh
    BY <2>1 DEF Fresh
  <2>2. CASE Served /\ at # "client"
    <3>. SUFFICES ASSUME Len(decoded) = Len(asked) PROVE cmdPos = Len(cmd) + 1
      OBVIOUS
    <3>. DEFINE p == CommandPieces(asked)
                start == 5 + Len(RequestHeader(asked, mode))
    <3>1. /\ cmd = Framed(Request(asked, mode))
          /\ cmdPos = start + Len(CommandsUpto(asked, Len(asked)))
      BY <2>2 DEF Served
    <3>2. CommandsUpto(asked, Len(asked)) = FlattenSeq(p)
      <4>1. p \in Seq(Seq(Byte)) /\ Len(p) = Len(asked)
        BY <1>2, CommandsAreBytes DEF Pieces
      <4>2. SubSeq(p, 1, Len(asked)) = p
        <5>. HIDE DEF p
        <5>. QED  BY <4>1, SubSeqAll
      <4>. QED  BY <4>2, Zenon DEF CommandsUpto
    <3>3. Fits(Request(asked, mode))
      BY <2>2, <1>1 DEF AskedOK
    <3>4. Len(cmd) + 1 = start + Len(FlattenSeq(p))
      BY <1>2, <3>1, <3>3, RequestDecodes
    <3>. QED  BY <3>1, <3>2, <3>4
  <2>. QED  BY <1>1, <2>1, <2>2
<1>5. \A k \in DOMAIN heardBack : /\ heardBack[k].code = replies[k].code
                                  /\ heardBack[k].code = NONE => heardBack[k] = replies[k]
  <2>1. CASE Unheard
    BY <2>1 DEF Unheard
  <2>2. CASE Replied /\ Heard
    <3>. DEFINE T == Range(replies)
                m == Len(heardBack)
                s == heardBack
    <3>1. replies \in Seq(T) /\ m \in 0 .. Len(replies) /\ s = SubSeq(replies, 1, m)
      BY <2>2 DEF Replied, Served, IsReplies, Heard
    <3>. HIDE DEF T, m, s
    <3>2. DOMAIN s = 1 .. m /\ \A k \in 1 .. m : s[k] = replies[k]
      BY <3>1
    <3>. QED  BY <3>2 DEF s
  <2>3. CASE HeardAll
    <3>1. DOMAIN heardBack = 1 .. Len(heardBack)
      BY <2>3 DEF HeardAll
    <3>. QED  BY <2>3, <3>1 DEF HeardAll
  <2>. QED  BY <1>1, <2>1, <2>2, <2>3
<1>6. at = "done" /\ (\A k \in DOMAIN replies : replies[k].code = NONE) => rspPos = Len(got) + 1
  <2>. SUFFICES ASSUME at = "done", \A k \in DOMAIN replies : replies[k].code = NONE
                PROVE  rspPos = Len(got) + 1
    OBVIOUS
  <2>1. HeardAll /\ IsReplies(replies)
    BY <1>1 DEF Served
  <2>2. replies # <<>> => Len(replies) \in DOMAIN replies
    BY <2>1 DEF IsReplies
  <2>3. ~Failing
    BY <2>2 DEF Failing, Last
  <2>. QED  BY <2>1, <2>3 DEF HeardAll
<1>. QED  BY <1>1, <1>3, <1>4, <1>5, <1>6 DEF DecodesAsEncoded

\* WireTypeOK, for every size of the buffers: a message fits them, no byte of it is
\* in two places, and no more is decoded than asked (common_tcp.c, process_commands).
THEOREM WireTypeCorrect == WireSpec => []WireTypeOK
<1>1. WireInv => WireTypeOK
  BY InvTypeOK
<1>. QED  BY <1>1, WireCorrect, PTL

\* FramesWhole, for every request and reply, cut by writes and reads of any size
\* (cswp_read_msg_tcp, cswp_write_msg_tcp) or sent as one USB transfer: a message
\* that is taken is the one that was sent, with nothing before or behind it.
THEOREM MessagesWhole == WireSpec => []FramesWhole
<1>1. WireInv => FramesWhole
  BY InvFramesWhole
<1>. QED  BY <1>1, WireCorrect, PTL

\* DecodesAsEncoded, for every request and reply: the server decodes the commands the
\* client encoded, in their order and with their values, the client the replies up
\* to the first error, both end where the message does, and a conversation breaks
\* only with the connection (cswp_buffer.c, cswp_client_commands.c,
\* cswp_server_commands.c).
THEOREM CodecAgrees == WireSpec => []DecodesAsEncoded
<1>1. WireInv => DecodesAsEncoded
  BY InvDecodesAsEncoded
<1>. QED  BY <1>1, WireCorrect, PTL
=============================================================================
