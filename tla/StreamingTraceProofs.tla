------------------------ MODULE StreamingTraceProofs -------------------------
(***************************************************************************)
(* Theorems about the streaming trace library under any client, for every  *)
(* number of buffers, endpoints, transfers and attachments, with one sink. *)
(***************************************************************************)
EXTENDS StreamingTrace, SequenceTheorems, FiniteSetTheorems, WellFoundedInduction,
        TLAPS

\* One sink is attached at a time, as by the capture application: data threads
\* of two sinks take each other's completions.
OneSink == \A s, r \in Sinks : s = r

-----------------------------------------------------------------------------
(* Queues of tokens *)

\* The tokens of S in a queue have buffers of their own.
DistinctIn(ts, S) ==
  \A i, j \in DOMAIN ts : ts[i] \in S /\ ts[j] \in S /\ ts[i].buf = ts[j].buf => i = j

\* No token of S in the one has the buffer of a token of S in the other.
ApartIn(A, B, S) == \A t \in A, u \in B : t \in S /\ u \in S => t.buf # u.buf

LEMMA ConcatDistinct ==
  ASSUME NEW a \in Seq(Tokens), NEW b \in Seq(Tokens)
  PROVE  /\ a \o b \in Seq(Tokens)
         /\ Range(a \o b) = Range(a) \cup Range(b)
         /\ a # <<>> => a \o b # <<>> /\ Head(a \o b) = Head(a)
         /\ \A S : DistinctIn(a, S) /\ DistinctIn(b, S) /\ ApartIn(Range(a), Range(b), S)
                     => DistinctIn(a \o b, S)
<1> DEFINE new == a \o b
           m   == Len(a)
           n   == Len(b)
<1>1. /\ m \in Nat /\ n \in Nat /\ DOMAIN a = 1 .. m /\ DOMAIN b = 1 .. n
      /\ \A i \in 1 .. m : a[i] \in Range(a)
      /\ \A i \in 1 .. n : b[i] \in Range(b)
  BY DEF Range
<1>2. /\ new \in Seq(Tokens) /\ Len(new) = m + n
      /\ \A i \in 1 .. m + n : new[i] = IF i <= m THEN a[i] ELSE b[i - m]
  BY ConcatProperties
<1>3. DOMAIN new = 1 .. m + n
  BY <1>2
<1> HIDE DEF new, m, n
<1>4. \A i \in 1 .. m + n :
        \/ i \in 1 .. m /\ new[i] = a[i]
        \/ i - m \in 1 .. n /\ new[i] = b[i - m] /\ i > m
  BY <1>1, <1>2
<1>5. \A i \in 1 .. m : i \in 1 .. m + n /\ new[i] = a[i]
  BY <1>1, <1>2
<1>6. \A i \in 1 .. n : m + i \in 1 .. m + n /\ new[m + i] = b[i]
  <2> SUFFICES ASSUME NEW i \in 1 .. n PROVE m + i \in 1 .. m + n /\ new[m + i] = b[i]
    OBVIOUS
  <2>1. m + i \in 1 .. m + n /\ ~(m + i <= m) /\ (m + i) - m = i
    BY <1>1
  <2> QED
    BY <1>2, <2>1
<1>7. Range(new) = Range(a) \cup Range(b)
  <2>1. Range(new) \subseteq Range(a) \cup Range(b)
    BY <1>1, <1>3, <1>4 DEF Range
  <2>2. Range(a) \subseteq Range(new)
    BY <1>1, <1>3, <1>5 DEF Range
  <2>3. Range(b) \subseteq Range(new)
    <3> SUFFICES ASSUME NEW i \in 1 .. n PROVE b[i] \in Range(new)
      BY <1>1 DEF Range
    <3>1. PICK k \in 1 .. m + n : new[k] = b[i]
      BY <1>6
    <3> QED
      BY <1>3, <3>1 DEF Range
  <2> QED
    BY <2>1, <2>2, <2>3
<1>8. ASSUME NEW S, DistinctIn(a, S), DistinctIn(b, S), ApartIn(Range(a), Range(b), S)
      PROVE  DistinctIn(new, S)
  <2> SUFFICES ASSUME NEW i \in 1 .. m + n, NEW j \in 1 .. m + n,
                      new[i] \in S, new[j] \in S, new[i].buf = new[j].buf
               PROVE  i = j
    BY <1>3 DEF DistinctIn
  <2>1. CASE i \in 1 .. m /\ j \in 1 .. m
    BY <1>1, <1>5, <1>8, <2>1 DEF DistinctIn
  <2>2. CASE i \in 1 .. m /\ j \notin 1 .. m
    BY <1>1, <1>4, <1>5, <1>8, <2>2 DEF ApartIn
  <2>3. CASE i \notin 1 .. m /\ j \in 1 .. m
    BY <1>1, <1>4, <1>5, <1>8, <2>3 DEF ApartIn
  <2>4. CASE i \notin 1 .. m /\ j \notin 1 .. m
    <3>1. /\ i - m \in 1 .. n /\ new[i] = b[i - m]
          /\ j - m \in 1 .. n /\ new[j] = b[j - m]
      BY <1>4, <2>4
    <3>2. i - m = j - m
      BY <1>1, <1>8, <3>1 DEF DistinctIn
    <3> QED
      BY <1>1, <3>2
  <2> QED
    BY <2>1, <2>2, <2>3, <2>4
<1>9. ASSUME a # <<>>
      PROVE  new # <<>> /\ Head(new) = Head(a)
  <2>1. 1 \in 1 .. m
    BY <1>1, <1>9 DEF m
  <2>2. new[1] = a[1] /\ 1 \in 1 .. m + n
    BY <1>5, <2>1
  <2>3. new # <<>>
    <3>1. Len(new) # 0
      BY <1>1, <1>2, <2>2
    <3> QED
      BY <3>1
  <2>4. \A s \in Seq(Tokens) : s # <<>> => Head(s) = s[1]
    OBVIOUS
  <2> QED
    BY <1>2, <1>9, <2>2, <2>3, <2>4
<1> QED
  BY <1>2, <1>7, <1>8, <1>9 DEF new

LEMMA OneToken ==
  ASSUME NEW t \in Tokens
  PROVE  /\ <<t>> \in Seq(Tokens) /\ Range(<<t>>) = {t}
         /\ \A S : DistinctIn(<<t>>, S)
         /\ \A a \in Seq(Tokens) : Append(a, t) = a \o <<t>>
<1>1. <<t>> \in Seq(Tokens) /\ DOMAIN <<t>> = 1 .. 1 /\ <<t>>[1] = t
  OBVIOUS
<1>2. \A i \in 1 .. 1 : i = 1
  OBVIOUS
<1>3. Range(<<t>>) = {t}
  BY <1>1, <1>2 DEF Range
<1>4. \A S : DistinctIn(<<t>>, S)
  BY <1>1, <1>2 DEF DistinctIn
<1>5. \A a \in Seq(Tokens) : Append(a, t) = a \o <<t>>
  BY AppendIsConcat
<1> QED
  BY <1>1, <1>3, <1>4, <1>5

\* Putting a token behind a queue.
LEMMA AppendDistinct ==
  ASSUME NEW a \in Seq(Tokens), NEW t \in Tokens
  PROVE  /\ Append(a, t) \in Seq(Tokens)
         /\ Range(Append(a, t)) = Range(a) \cup {t}
         /\ a # <<>> => Append(a, t) # <<>> /\ Head(Append(a, t)) = Head(a)
         /\ \A S : DistinctIn(a, S) /\ ApartIn(Range(a), {t}, S) => DistinctIn(Append(a, t), S)
<1>1. PICK ts \in Seq(Tokens) :
        Range(ts) = {t} /\ (\A S : DistinctIn(ts, S)) /\ Append(a, t) = a \o ts
  BY OneToken
<1>2. /\ a \o ts \in Seq(Tokens) /\ Range(a \o ts) = Range(a) \cup Range(ts)
      /\ a # <<>> => a \o ts # <<>> /\ Head(a \o ts) = Head(a)
      /\ \A S : DistinctIn(a, S) /\ DistinctIn(ts, S) /\ ApartIn(Range(a), Range(ts), S)
                => DistinctIn(a \o ts, S)
  BY ConcatDistinct
<1> QED
  BY <1>1, <1>2

\* Taking the first n tokens from a queue.
LEMMA SplitDistinct ==
  ASSUME NEW q \in Seq(Tokens), NEW n \in 0 .. Len(q)
  PROVE  LET a == SubSeq(q, 1, n)
             b == SubSeq(q, n + 1, Len(q))
         IN  /\ a \in Seq(Tokens) /\ b \in Seq(Tokens)
             /\ Len(a) = n /\ \A i \in 1 .. n : a[i] = q[i]
             /\ Range(a) \subseteq Range(q) /\ Range(b) \subseteq Range(q)
             /\ \A S : DistinctIn(q, S) =>
                         DistinctIn(a, S) /\ DistinctIn(b, S) /\ ApartIn(Range(a), Range(b), S)
<1> DEFINE m == Len(q)
           a == SubSeq(q, 1, n)
           b == SubSeq(q, n + 1, m)
<1>1. m \in Nat /\ n \in Nat /\ n <= m /\ DOMAIN q = 1 .. m /\ \A i \in 1 .. m : q[i] \in Tokens
  OBVIOUS
<1> HIDE DEF m
<1>2. a \in Seq(Tokens) /\ Len(a) = n /\ \A i \in 1 .. n : a[i] = q[i] /\ i \in 1 .. m
  <2>1. 1 \in Int /\ n \in Int /\ \A i \in 1 .. n : q[i] \in Tokens
    BY <1>1
  <2>2. /\ a \in Seq(Tokens) /\ Len(a) = IF 1 <= n THEN n - 1 + 1 ELSE 0
        /\ \A i \in 1 .. n - 1 + 1 : a[i] = q[1 + i - 1]
    BY <2>1, SubSeqProperties
  <2> HIDE DEF a
  <2> QED
    BY <1>1, <2>2
<1>3. /\ b \in Seq(Tokens) /\ Len(b) = m - n
      /\ \A i \in 1 .. m - n : b[i] = q[n + i] /\ n + i \in 1 .. m
  <2>1. n + 1 \in Int /\ m \in Int /\ \A i \in n + 1 .. m : q[i] \in Tokens
    BY <1>1
  <2>2. /\ b \in Seq(Tokens) /\ Len(b) = IF n + 1 <= m THEN m - (n + 1) + 1 ELSE 0
        /\ \A i \in 1 .. m - (n + 1) + 1 : b[i] = q[n + 1 + i - 1]
    BY <2>1, SubSeqProperties
  <2> HIDE DEF b
  <2> QED
    BY <1>1, <2>2
<1> HIDE DEF a, b
<1>4. DOMAIN a = 1 .. n /\ DOMAIN b = 1 .. m - n
  BY <1>1, <1>2, <1>3
<1>5. Range(a) \subseteq Range(q)
  BY <1>1, <1>2, <1>4 DEF Range
<1>6. Range(b) \subseteq Range(q)
  BY <1>1, <1>3, <1>4 DEF Range
<1>7. ASSUME NEW S, DistinctIn(q, S)
      PROVE  DistinctIn(a, S) /\ DistinctIn(b, S) /\ ApartIn(Range(a), Range(b), S)
  <2>1. DistinctIn(a, S)
    BY <1>1, <1>2, <1>4, <1>7 DEF DistinctIn
  <2>2. DistinctIn(b, S)
    <3> SUFFICES ASSUME NEW i \in 1 .. m - n, NEW j \in 1 .. m - n,
                        b[i] \in S, b[j] \in S, b[i].buf = b[j].buf
                 PROVE  i = j
      BY <1>4 DEF DistinctIn
    <3>1. n + i = n + j
      BY <1>1, <1>3, <1>7 DEF DistinctIn
    <3> QED
      BY <1>1, <3>1
  <2>3. ApartIn(Range(a), Range(b), S)
    <3> SUFFICES ASSUME NEW i \in 1 .. n, NEW j \in 1 .. m - n,
                        a[i] \in S, b[j] \in S, a[i].buf = b[j].buf
                 PROVE  FALSE
      BY <1>4 DEF ApartIn, Range
    <3>0. /\ i \in 1 .. m /\ n + j \in 1 .. m
          /\ a[i] = q[i] /\ b[j] = q[n + j]
      BY <1>2, <1>3
    <3>1. i = n + j
      BY <1>1, <1>7, <3>0 DEF DistinctIn
    <3> QED
      BY <1>1, <3>1
  <2> QED
    BY <2>1, <2>2, <2>3
<1> QED
  BY <1>2, <1>3, <1>5, <1>6, <1>7 DEF a, b, m

\* Taking the head of a queue.
LEMMA TailDistinct ==
  ASSUME NEW q \in Seq(Tokens), q # <<>>
  PROVE  /\ Head(q) \in Tokens /\ Tail(q) \in Seq(Tokens)
         /\ Range(q) = {Head(q)} \cup Range(Tail(q))
         /\ \A S : DistinctIn(q, S) =>
                     DistinctIn(Tail(q), S) /\ ApartIn({Head(q)}, Range(Tail(q)), S)
<1> DEFINE new == Tail(q)
           m   == Len(q)
<1>1. /\ m \in Nat \ {0} /\ DOMAIN q = 1 .. m /\ Head(q) = q[1]
      /\ 1 \in 1 .. m
  OBVIOUS
<1>2. /\ Head(q) \in Tokens /\ new \in Seq(Tokens) /\ Len(new) = m - 1
      /\ \A i \in 1 .. Len(new) : new[i] = q[i + 1]
  BY HeadTailProperties
<1> HIDE DEF new, m
<1>3. DOMAIN new = 1 .. m - 1 /\ \A i \in 1 .. m - 1 : new[i] = q[i + 1] /\ i + 1 \in 1 .. m
  BY <1>1, <1>2
<1>4. Range(q) = {Head(q)} \cup Range(new)
  <2>1. Range(new) \subseteq Range(q)
    BY <1>1, <1>3 DEF Range
  <2>2. Head(q) \in Range(q)
    BY <1>1 DEF Range
  <2>3. ASSUME NEW i \in 1 .. m, i # 1
        PROVE  q[i] \in Range(new)
    <3>1. i - 1 \in 1 .. m - 1 /\ (i - 1) + 1 = i
      BY <1>1, <2>3
    <3>2. new[i - 1] = q[i]
      BY <1>3, <3>1
    <3> QED
      BY <1>3, <3>1, <3>2 DEF Range
  <2>4. Range(q) \subseteq {Head(q)} \cup Range(new)
    BY <1>1, <2>3 DEF Range
  <2> QED
    BY <2>1, <2>2, <2>4
<1>5. ASSUME NEW S, DistinctIn(q, S)
      PROVE  DistinctIn(new, S) /\ ApartIn({Head(q)}, Range(new), S)
  <2>1. DistinctIn(new, S)
    <3> SUFFICES ASSUME NEW i \in 1 .. m - 1, NEW j \in 1 .. m - 1,
                        new[i] \in S, new[j] \in S, new[i].buf = new[j].buf
                 PROVE  i = j
      BY <1>3 DEF DistinctIn
    <3>1. i + 1 = j + 1
      BY <1>1, <1>3, <1>5 DEF DistinctIn
    <3> QED
      BY <3>1
  <2>2. ApartIn({Head(q)}, Range(new), S)
    <3> SUFFICES ASSUME NEW i \in 1 .. m - 1, q[1] \in S, new[i] \in S, q[1].buf = new[i].buf
                 PROVE  FALSE
      BY <1>1, <1>3 DEF ApartIn, Range
    <3>1. 1 = i + 1
      BY <1>1, <1>3, <1>5 DEF DistinctIn
    <3> QED
      BY <3>1
  <2> QED
    BY <2>1, <2>2
<1> QED
  BY <1>2, <1>4, <1>5 DEF new

-----------------------------------------------------------------------------
(* Transfers *)

Transfers  == [token : Tokens \cup ControlTokens, cancelled : BOOLEAN]
Flights    == [Endpoints \cup {CONTROL} -> Seq(Transfers)]

TokensIn(xs)       == {xs[i].token : i \in DOMAIN xs}
DistinctTokens(xs) == \A i, j \in DOMAIN xs : xs[i].token = xs[j].token => i = j

FlightTokens(flight) == UNION {{x.token : x \in Range(flight[e])} : e \in DOMAIN flight}

\* A token is in flight once, on one endpoint.
Once(flight) ==
  /\ \A e \in DOMAIN flight : DistinctTokens(flight[e])
  /\ \A e, f \in DOMAIN flight : e # f => TokensIn(flight[e]) \cap TokensIn(flight[f]) = {}

LEMMA TokensAreTokens ==
  /\ \A xs \in Seq(Transfers) : TokensIn(xs) \subseteq Tokens \cup ControlTokens
  /\ \A xs \in Seq(Completions) : TokensIn(xs) \subseteq Tokens \cup ControlTokens
<1>1. ASSUME NEW xs \in Seq(Transfers)
      PROVE  TokensIn(xs) \subseteq Tokens \cup ControlTokens
  <2>1. \A i \in DOMAIN xs : xs[i] \in Transfers
    OBVIOUS
  <2>2. \A x \in Transfers : x.token \in Tokens \cup ControlTokens
    BY DEF Transfers
  <2> QED
    BY <2>1, <2>2 DEF TokensIn
<1>2. ASSUME NEW xs \in Seq(Completions)
      PROVE  TokensIn(xs) \subseteq Tokens \cup ControlTokens
  <2>1. \A i \in DOMAIN xs : xs[i] \in Completions
    OBVIOUS
  <2>2. \A x \in Completions : x.token \in Tokens \cup ControlTokens
    BY DEF Completions
  <2> QED
    BY <2>1, <2>2 DEF TokensIn
<1> QED
  BY <1>1, <1>2

LEMMA FlightTokensAre ==
  ASSUME NEW flight
  PROVE  \A t : t \in FlightTokens(flight) <=> \E e \in DOMAIN flight : t \in TokensIn(flight[e])
<1>1. \A e \in DOMAIN flight : {x.token : x \in Range(flight[e])} = TokensIn(flight[e])
  BY DEF Range, TokensIn
<1> QED
  BY <1>1 DEF FlightTokens

LEMMA ConcatTokens ==
  ASSUME NEW R, NEW a \in Seq(R), NEW b \in Seq(R)
  PROVE  /\ a \o b \in Seq(R)
         /\ TokensIn(a \o b) = TokensIn(a) \cup TokensIn(b)
         /\ DistinctTokens(a) /\ DistinctTokens(b) /\ TokensIn(a) \cap TokensIn(b) = {}
              => DistinctTokens(a \o b)
<1> DEFINE new == a \o b
           m   == Len(a)
           n   == Len(b)
<1>1. /\ m \in Nat /\ n \in Nat /\ DOMAIN a = 1 .. m /\ DOMAIN b = 1 .. n
      /\ \A i \in 1 .. m : a[i].token \in TokensIn(a)
      /\ \A i \in 1 .. n : b[i].token \in TokensIn(b)
  BY DEF TokensIn
<1>2. /\ new \in Seq(R) /\ Len(new) = m + n
      /\ \A i \in 1 .. m + n : new[i] = IF i <= m THEN a[i] ELSE b[i - m]
  BY ConcatProperties
<1>3. DOMAIN new = 1 .. m + n
  BY <1>2
<1> HIDE DEF new, m, n
<1>4. \A i \in 1 .. m + n :
        \/ i \in 1 .. m /\ new[i] = a[i]
        \/ i - m \in 1 .. n /\ new[i] = b[i - m] /\ i > m
  BY <1>1, <1>2
<1>5. \A i \in 1 .. m : i \in 1 .. m + n /\ new[i] = a[i]
  BY <1>1, <1>2
<1>6. \A i \in 1 .. n : m + i \in 1 .. m + n /\ new[m + i] = b[i]
  <2> SUFFICES ASSUME NEW i \in 1 .. n PROVE m + i \in 1 .. m + n /\ new[m + i] = b[i]
    OBVIOUS
  <2>1. m + i \in 1 .. m + n /\ ~(m + i <= m) /\ (m + i) - m = i
    BY <1>1
  <2> QED
    BY <1>2, <2>1
<1>7. TokensIn(new) = TokensIn(a) \cup TokensIn(b)
  <2>1. TokensIn(new) \subseteq TokensIn(a) \cup TokensIn(b)
    BY <1>1, <1>3, <1>4 DEF TokensIn
  <2>2. TokensIn(a) \subseteq TokensIn(new)
    BY <1>1, <1>3, <1>5 DEF TokensIn
  <2>3. TokensIn(b) \subseteq TokensIn(new)
    <3> SUFFICES ASSUME NEW i \in 1 .. n PROVE b[i].token \in TokensIn(new)
      BY <1>1 DEF TokensIn
    <3>1. PICK k \in 1 .. m + n : new[k] = b[i]
      BY <1>6
    <3> QED
      BY <1>3, <3>1 DEF TokensIn
  <2> QED
    BY <2>1, <2>2, <2>3
<1>8. ASSUME DistinctTokens(a), DistinctTokens(b), TokensIn(a) \cap TokensIn(b) = {}
      PROVE  DistinctTokens(new)
  <2> SUFFICES ASSUME NEW i \in 1 .. m + n, NEW j \in 1 .. m + n, new[i].token = new[j].token
               PROVE  i = j
    BY <1>3 DEF DistinctTokens
  <2>1. CASE i \in 1 .. m /\ j \in 1 .. m
    BY <1>1, <1>5, <1>8, <2>1 DEF DistinctTokens
  <2>2. CASE i \in 1 .. m /\ j \notin 1 .. m
    BY <1>1, <1>4, <1>5, <1>8, <2>2
  <2>3. CASE i \notin 1 .. m /\ j \in 1 .. m
    BY <1>1, <1>4, <1>5, <1>8, <2>3
  <2>4. CASE i \notin 1 .. m /\ j \notin 1 .. m
    <3>1. /\ i - m \in 1 .. n /\ new[i] = b[i - m]
          /\ j - m \in 1 .. n /\ new[j] = b[j - m]
      BY <1>4, <2>4
    <3>2. i - m = j - m
      BY <1>1, <1>8, <3>1 DEF DistinctTokens
    <3> QED
      BY <1>1, <3>2
  <2> QED
    BY <2>1, <2>2, <2>3, <2>4
<1> QED
  BY <1>2, <1>7, <1>8 DEF new

LEMMA AppendTokens ==
  ASSUME NEW R, NEW a \in Seq(R), NEW x \in R
  PROVE  /\ Append(a, x) \in Seq(R)
         /\ TokensIn(Append(a, x)) = TokensIn(a) \cup {x.token}
         /\ DistinctTokens(a) /\ x.token \notin TokensIn(a) => DistinctTokens(Append(a, x))
<1>1. <<x>> \in Seq(R) /\ DOMAIN <<x>> = 1 .. 1 /\ <<x>>[1] = x
  OBVIOUS
<1>2. \A i \in 1 .. 1 : i = 1
  OBVIOUS
<1>3. TokensIn(<<x>>) = {x.token} /\ DistinctTokens(<<x>>)
  BY <1>1, <1>2 DEF TokensIn, DistinctTokens
<1>4. Append(a, x) = a \o <<x>>
  BY AppendIsConcat
<1> DEFINE b == <<x>>
<1>5. b \in Seq(R) /\ TokensIn(b) = {x.token} /\ DistinctTokens(b) /\ Append(a, x) = a \o b
  BY <1>1, <1>3, <1>4
<1> HIDE DEF b
<1> QED
  BY <1>5, ConcatTokens

LEMMA TailTokens ==
  ASSUME NEW R, NEW a \in Seq(R), a # <<>>
  PROVE  /\ Head(a) \in R /\ Tail(a) \in Seq(R)
         /\ TokensIn(a) = {Head(a).token} \cup TokensIn(Tail(a))
         /\ DistinctTokens(a) =>
              DistinctTokens(Tail(a)) /\ Head(a).token \notin TokensIn(Tail(a))
<1> DEFINE new == Tail(a)
           m   == Len(a)
<1>1. m \in Nat \ {0} /\ DOMAIN a = 1 .. m /\ Head(a) = a[1] /\ 1 \in 1 .. m
  OBVIOUS
<1>2. /\ Head(a) \in R /\ new \in Seq(R) /\ Len(new) = m - 1
      /\ \A i \in 1 .. Len(new) : new[i] = a[i + 1]
  BY HeadTailProperties
<1> HIDE DEF new, m
<1>3. DOMAIN new = 1 .. m - 1 /\ \A i \in 1 .. m - 1 : new[i] = a[i + 1] /\ i + 1 \in 1 .. m
  BY <1>1, <1>2
<1>4. TokensIn(a) = {Head(a).token} \cup TokensIn(new)
  <2>1. TokensIn(new) \subseteq TokensIn(a)
    BY <1>1, <1>3 DEF TokensIn
  <2>2. Head(a).token \in TokensIn(a)
    BY <1>1 DEF TokensIn
  <2>3. ASSUME NEW i \in 1 .. m, i # 1
        PROVE  a[i].token \in TokensIn(new)
    <3>1. i - 1 \in 1 .. m - 1 /\ (i - 1) + 1 = i
      BY <1>1, <2>3
    <3>2. new[i - 1] = a[i]
      BY <1>3, <3>1
    <3> QED
      BY <1>3, <3>1, <3>2 DEF TokensIn
  <2>4. TokensIn(a) \subseteq {Head(a).token} \cup TokensIn(new)
    BY <1>1, <2>3 DEF TokensIn
  <2> QED
    BY <2>1, <2>2, <2>4
<1>5. ASSUME DistinctTokens(a)
      PROVE  DistinctTokens(new) /\ Head(a).token \notin TokensIn(new)
  <2>1. DistinctTokens(new)
    <3> SUFFICES ASSUME NEW i \in 1 .. m - 1, NEW j \in 1 .. m - 1, new[i].token = new[j].token
                 PROVE  i = j
      BY <1>3 DEF DistinctTokens
    <3>0. \A k, l \in 1 .. m : a[k].token = a[l].token => k = l
      BY <1>1, <1>5 DEF DistinctTokens
    <3>1. i + 1 = j + 1
      BY <1>3, <3>0
    <3> QED
      BY <3>1
  <2>2. ASSUME NEW i \in 1 .. m - 1, a[1].token = new[i].token
        PROVE  FALSE
    <3>1. 1 = i + 1
      BY <1>1, <1>3, <1>5, <2>2 DEF DistinctTokens
    <3> QED
      BY <3>1
  <2>3. Head(a).token \notin TokensIn(new)
    BY <1>1, <1>3, <2>2 DEF TokensIn
  <2> QED
    BY <2>1, <2>3
<1> QED
  BY <1>2, <1>4, <1>5 DEF new

\* New transfers on one endpoint.
LEMMA FlightGrows ==
  ASSUME NEW flight \in Flights, Once(flight), NEW e \in Endpoints \cup {CONTROL},
         NEW xs \in Seq(Transfers), DistinctTokens(xs),
         TokensIn(xs) \cap FlightTokens(flight) = {}
  PROVE  LET new == [flight EXCEPT ![e] = flight[e] \o xs]
         IN  /\ new \in Flights /\ Once(new)
             /\ FlightTokens(new) = FlightTokens(flight) \cup TokensIn(xs)
<1> DEFINE ys  == flight[e] \o xs
           new == [flight EXCEPT ![e] = ys]
           E   == Endpoints \cup {CONTROL}
<1>1. DOMAIN flight = E /\ \A f \in E : flight[f] \in Seq(Transfers)
  BY DEF Flights
<1>2. TokensIn(flight[e]) \cap TokensIn(xs) = {}
  BY <1>1, FlightTokensAre
<1>3. DistinctTokens(flight[e])
  BY <1>1 DEF Once
<1>4. /\ ys \in Seq(Transfers)
      /\ TokensIn(ys) = TokensIn(flight[e]) \cup TokensIn(xs)
      /\ DistinctTokens(ys)
  BY <1>1, <1>2, <1>3, ConcatTokens
<1> HIDE DEF ys
<1>5. /\ new \in Flights /\ DOMAIN new = E
      /\ new[e] = ys /\ \A f \in E : f # e => new[f] = flight[f]
  BY <1>1, <1>4 DEF Flights
<1> HIDE DEF new, E
<1>6. FlightTokens(new) = FlightTokens(flight) \cup TokensIn(xs)
  <2>1. \A t : t \in FlightTokens(new) <=> \E f \in E : t \in TokensIn(new[f])
    BY <1>5, FlightTokensAre
  <2>2. \A t : t \in FlightTokens(flight) <=> \E f \in E : t \in TokensIn(flight[f])
    BY <1>1, FlightTokensAre
  <2> QED
    BY <1>4, <1>5, <2>1, <2>2 DEF E
<1>7. Once(new)
  <2>1. \A f \in E : DistinctTokens(new[f])
    BY <1>1, <1>4, <1>5 DEF Once
  <2>2. \A f \in E : TokensIn(flight[f]) \cap TokensIn(xs) = {}
    BY <1>1, FlightTokensAre
  <2>3. \A f, g \in E : f # g => TokensIn(flight[f]) \cap TokensIn(flight[g]) = {}
    BY <1>1 DEF Once
  <2>4. \A f, g \in E : f # g => TokensIn(new[f]) \cap TokensIn(new[g]) = {}
    BY <1>4, <1>5, <2>2, <2>3
  <2> QED
    BY <1>5, <2>1, <2>4 DEF Once
<1> QED
  BY <1>5, <1>6, <1>7 DEF new, ys

\* The oldest transfer of an endpoint is done.
LEMMA FlightLands ==
  ASSUME NEW flight \in Flights, Once(flight), NEW e \in Endpoints \cup {CONTROL},
         flight[e] # <<>>
  PROVE  LET new == [flight EXCEPT ![e] = Tail(flight[e])]
             t   == Head(flight[e]).token
         IN  /\ new \in Flights /\ Once(new)
             /\ t \in Tokens \cup ControlTokens
             /\ t \in FlightTokens(flight)
             /\ FlightTokens(new) = FlightTokens(flight) \ {t}
<1> DEFINE ys  == Tail(flight[e])
           t   == Head(flight[e]).token
           new == [flight EXCEPT ![e] = ys]
           E   == Endpoints \cup {CONTROL}
<1>1. DOMAIN flight = E /\ \A f \in E : flight[f] \in Seq(Transfers)
  BY DEF Flights
<1>2. DistinctTokens(flight[e])
  BY <1>1 DEF Once
<1>3. /\ ys \in Seq(Transfers) /\ Head(flight[e]) \in Transfers
      /\ TokensIn(flight[e]) = {t} \cup TokensIn(ys)
      /\ DistinctTokens(ys) /\ t \notin TokensIn(ys)
  BY <1>1, <1>2, TailTokens
<1>4. t \in Tokens \cup ControlTokens
  BY <1>3 DEF Transfers
<1> HIDE DEF ys, t
<1>5. /\ new \in Flights /\ DOMAIN new = E
      /\ new[e] = ys /\ \A f \in E : f # e => new[f] = flight[f]
  BY <1>1, <1>3 DEF Flights
<1> HIDE DEF new, E
<1>6. \A f, g \in E : f # g => TokensIn(flight[f]) \cap TokensIn(flight[g]) = {}
  BY <1>1 DEF Once
<1>7. e \in E
  BY DEF E
<1>8. t \in FlightTokens(flight) /\ FlightTokens(new) = FlightTokens(flight) \ {t}
  <2>1. \A u : u \in FlightTokens(new) <=> \E f \in E : u \in TokensIn(new[f])
    BY <1>5, FlightTokensAre
  <2>2. \A u : u \in FlightTokens(flight) <=> \E f \in E : u \in TokensIn(flight[f])
    BY <1>1, FlightTokensAre
  <2>3. \A f \in E : t \in TokensIn(flight[f]) => f = e
    BY <1>3, <1>6, <1>7
  <2> QED
    BY <1>3, <1>5, <1>7, <2>1, <2>2, <2>3
<1>9. Once(new)
  <2>1. \A f \in E : DistinctTokens(new[f])
    BY <1>1, <1>3, <1>5 DEF Once
  <2>2. \A f, g \in E : f # g => TokensIn(new[f]) \cap TokensIn(new[g]) = {}
    BY <1>3, <1>5, <1>6
  <2> QED
    BY <1>5, <2>1, <2>2 DEF Once
<1> QED
  BY <1>4, <1>5, <1>8, <1>9 DEF new, ys, t

\* Cancelling keeps the transfers in flight.
LEMMA FlightCancelled ==
  ASSUME NEW flight \in Flights, Once(flight)
  PROVE  /\ Cancelled(flight) \in Flights /\ Once(Cancelled(flight))
         /\ FlightTokens(Cancelled(flight)) = FlightTokens(flight)
<1> DEFINE new == Cancelled(flight)
           E   == Endpoints \cup {CONTROL}
<1>1. DOMAIN flight = E /\ \A f \in E : flight[f] \in Seq(Transfers)
  BY DEF Flights
<1>2. /\ DOMAIN new = E
      /\ \A f \in E : new[f] = [i \in DOMAIN flight[f] |->
                                  [flight[f][i] EXCEPT !.cancelled = TRUE]]
  BY <1>1 DEF Cancelled
<1>3. ASSUME NEW f \in E
      PROVE  /\ new[f] \in Seq(Transfers) /\ DOMAIN new[f] = DOMAIN flight[f]
             /\ \A i \in DOMAIN flight[f] : new[f][i].token = flight[f][i].token
  <2> DEFINE xs == flight[f]
             n  == Len(xs)
  <2>1. n \in Nat /\ DOMAIN xs = 1 .. n /\ \A i \in 1 .. n : xs[i] \in Transfers
    BY <1>1
  <2> HIDE DEF xs, n
  <2>2. \A i \in 1 .. n : /\ [xs[i] EXCEPT !.cancelled = TRUE] \in Transfers
                          /\ [xs[i] EXCEPT !.cancelled = TRUE].token = xs[i].token
    BY <2>1 DEF Transfers
  <2>3. new[f] = [i \in 1 .. n |-> [xs[i] EXCEPT !.cancelled = TRUE]]
    BY <1>2, <2>1 DEF xs
  <2>4. new[f] \in Seq(Transfers) /\ DOMAIN new[f] = 1 .. n
    BY <2>1, <2>2, <2>3
  <2> QED
    BY <2>1, <2>2, <2>3, <2>4 DEF xs
<1>4. new \in Flights
  <2>1. new = [f \in E |-> new[f]]
    BY <1>1 DEF Cancelled
  <2> QED
    BY <1>3, <2>1 DEF Flights
<1> HIDE DEF new
<1>5. \A f \in E : TokensIn(new[f]) = TokensIn(flight[f])
  BY <1>3 DEF TokensIn
<1>6. FlightTokens(new) = FlightTokens(flight)
  <2>1. \A u : u \in FlightTokens(new) <=> \E f \in E : u \in TokensIn(new[f])
    BY <1>2, FlightTokensAre
  <2>2. \A u : u \in FlightTokens(flight) <=> \E f \in E : u \in TokensIn(flight[f])
    BY <1>1, FlightTokensAre
  <2> QED
    BY <1>5, <2>1, <2>2
<1>7. Once(new)
  <2>1. \A f \in E : DistinctTokens(new[f])
    BY <1>1, <1>3 DEF Once, DistinctTokens
  <2> QED
    BY <1>1, <1>2, <1>5, <2>1 DEF Once
<1> QED
  BY <1>4, <1>6, <1>7 DEF new

-----------------------------------------------------------------------------
(* The places of the client's buffers *)

Now(n) == {t \in Tokens : t.no = n}

\* A buffer is in one queue of a sink: q, p and e hold what waits to be filled,
\* c what is completed, where the tokens of former attachments do not count.
Apart(q, p, e, c, n) ==
  /\ DistinctIn(q, Tokens) /\ DistinctIn(p, Tokens) /\ DistinctIn(e, Tokens)
  /\ DistinctIn(c, Now(n))
  /\ ApartIn(Range(q), Range(p), Tokens)
  /\ ApartIn(Range(e), Range(q) \cup Range(p), Tokens)
  /\ \A t \in Range(c), u \in Range(q) \cup Range(p) \cup Range(e) : t.no = n => t.buf # u.buf

\* None of them is the client's, as long as it does not detach.
NotClients(q, p, e, c, n, h, on) ==
  /\ \A t \in Range(q) \cup Range(p) \cup Range(e) : h[t.buf] # CLIENT
  /\ on => \A t \in Range(c) : t.no = n => h[t.buf] # CLIENT

Numbered(q, p, e, c, n) ==
  \A t \in Range(q) \cup Range(p) \cup Range(e) \cup Range(c) : t.no <= n

Placed(q, p, e, c, n, h, on) ==
  Apart(q, p, e, c, n) /\ NotClients(q, p, e, c, n, h, on) /\ Numbered(q, p, e, c, n)

LEMMA EmptyQueue == /\ <<>> \in Seq(Tokens) /\ Range(<<>>) = {}
                    /\ \A S : DistinctIn(<<>>, S)
<1>1. <<>> \in Seq(Tokens) /\ DOMAIN <<>> = {}
  OBVIOUS
<1> QED
  BY <1>1 DEF Range, DistinctIn

LEMMA RangesAre ==
  ASSUME NEW q \in Seq(Tokens)
  PROVE  Range(q) \subseteq Tokens
BY DEF Range

LEMMA TokenFields ==
  ASSUME NEW t \in Tokens
  PROVE  t.buf \in Buffers /\ t.sink \in Sinks /\ t.no \in 0 .. MaxAttach /\ t.no \in Int
BY DEF Tokens

\* submitBuffers.
LEMMA PlacedSubmit ==
  ASSUME NEW q \in Seq(Tokens), NEW p \in Seq(Tokens), NEW e \in Seq(Tokens),
         NEW c \in Seq(Tokens), NEW n, NEW h, NEW on, Placed(q, p, e, c, n, h, on),
         NEW k \in 0 .. Len(q)
  PROVE  LET moved == SubSeq(q, 1, k)
             rest  == SubSeq(q, k + 1, Len(q))
         IN  /\ rest \in Seq(Tokens) /\ p \o moved \in Seq(Tokens)
             /\ Placed(rest, p \o moved, e, c, n, h, on)
             /\ Range(rest) \subseteq Range(q)
             /\ Range(p \o moved) = Range(p) \cup Range(moved)
             /\ Range(moved) \subseteq Range(q)
             /\ p # <<>> => p \o moved # <<>> /\ Head(p \o moved) = Head(p)
<1> DEFINE moved == SubSeq(q, 1, k)
           rest  == SubSeq(q, k + 1, Len(q))
           pm    == p \o moved
<1>1. /\ moved \in Seq(Tokens) /\ rest \in Seq(Tokens)
      /\ Range(moved) \subseteq Range(q) /\ Range(rest) \subseteq Range(q)
      /\ DistinctIn(q, Tokens) => /\ DistinctIn(moved, Tokens) /\ DistinctIn(rest, Tokens)
                                  /\ ApartIn(Range(moved), Range(rest), Tokens)
  BY SplitDistinct
<1> HIDE DEF moved, rest
<1>2. ApartIn(Range(p), Range(moved), Tokens)
  BY <1>1 DEF Placed, Apart, ApartIn
<1>3. /\ pm \in Seq(Tokens) /\ Range(pm) = Range(p) \cup Range(moved)
      /\ p # <<>> => pm # <<>> /\ Head(pm) = Head(p)
      /\ DistinctIn(pm, Tokens)
  BY <1>1, <1>2, ConcatDistinct DEF Placed, Apart
<1> HIDE DEF pm
<1>4. ApartIn(Range(rest), Range(pm), Tokens)
  BY <1>1, <1>3 DEF Placed, Apart, ApartIn
<1>5. Range(rest) \cup Range(pm) \subseteq Range(q) \cup Range(p)
  BY <1>1, <1>3
<1>6. ApartIn(Range(e), Range(rest) \cup Range(pm), Tokens)
  BY <1>5 DEF Placed, Apart, ApartIn
<1>7. Apart(rest, pm, e, c, n)
  BY <1>1, <1>3, <1>4, <1>5, <1>6 DEF Placed, Apart
<1>8. NotClients(rest, pm, e, c, n, h, on) /\ Numbered(rest, pm, e, c, n)
  BY <1>5 DEF Placed, NotClients, Numbered
<1> QED
  BY <1>1, <1>3, <1>7, <1>8 DEF Placed, moved, rest, pm

\* SubmitEventBuffer, of a data buffer or of an event buffer.
LEMMA PlacedEnters ==
  ASSUME NEW q \in Seq(Tokens), NEW p \in Seq(Tokens), NEW e \in Seq(Tokens),
         NEW c \in Seq(Tokens), NEW n \in Int, NEW h \in [Buffers -> Agents \cup {NULL}],
         Placed(q, p, e, c, n, h, TRUE),
         NEW t \in Tokens, t.no = n, h[t.buf] = CLIENT,
         NEW x \in Agents \cup {NULL}, x # CLIENT
  PROVE  LET g == [h EXCEPT ![t.buf] = x]
         IN  /\ Placed(Append(q, t), p, e, c, n, g, TRUE)
             /\ Placed(q, p, Append(e, t), c, n, g, TRUE)
<1> DEFINE g  == [h EXCEPT ![t.buf] = x]
           qt == Append(q, t)
           et == Append(e, t)
           W  == Range(q) \cup Range(p) \cup Range(e)
<1>1. /\ \A u \in W : u \in Tokens /\ u.buf # t.buf
      /\ \A u \in Range(c) : u \in Tokens /\ (u.no = n => u.buf # t.buf)
  BY RangesAre DEF Placed, NotClients
<1>2. /\ g[t.buf] # CLIENT
      /\ \A u \in Tokens : u.buf # t.buf => g[u.buf] = h[u.buf]
  BY TokenFields
<1> HIDE DEF g
<1>3. /\ qt \in Seq(Tokens) /\ Range(qt) = Range(q) \cup {t}
      /\ DistinctIn(qt, Tokens)
  BY <1>1, AppendDistinct DEF Placed, Apart, ApartIn
<1>4. /\ et \in Seq(Tokens) /\ Range(et) = Range(e) \cup {t}
      /\ DistinctIn(et, Tokens)
  BY <1>1, AppendDistinct DEF Placed, Apart, ApartIn
<1> HIDE DEF qt, et
<1>5. Apart(qt, p, e, c, n)
  <2>1. ApartIn(Range(qt), Range(p), Tokens) /\ ApartIn(Range(e), Range(qt) \cup Range(p), Tokens)
    BY <1>1, <1>3 DEF Placed, Apart, ApartIn
  <2> QED
    BY <1>1, <1>3, <2>1 DEF Placed, Apart
<1>6. Apart(q, p, et, c, n)
  <2>1. ApartIn(Range(et), Range(q) \cup Range(p), Tokens)
    BY <1>1, <1>4 DEF Placed, Apart, ApartIn
  <2> QED
    BY <1>1, <1>4, <2>1 DEF Placed, Apart
<1>7. NotClients(qt, p, e, c, n, g, TRUE) /\ NotClients(q, p, et, c, n, g, TRUE)
  <2>1. \A u \in W \cup {t} : g[u.buf] # CLIENT
    BY <1>1, <1>2 DEF Placed, NotClients
  <2>2. \A u \in Range(c) : u.no = n => g[u.buf] # CLIENT
    BY <1>1, <1>2 DEF Placed, NotClients
  <2> QED
    BY <1>3, <1>4, <2>1, <2>2 DEF NotClients
<1>8. Numbered(qt, p, e, c, n) /\ Numbered(q, p, et, c, n)
  BY <1>3, <1>4 DEF Placed, Numbered
<1> QED
  BY <1>5, <1>6, <1>7, <1>8 DEF Placed, g, qt, et

\* waitForBuffer takes the first pending buffer: the data thread completes it,
\* the loop of Detach lets it go.
LEMMA PlacedReturns ==
  ASSUME NEW q \in Seq(Tokens), NEW p \in Seq(Tokens), NEW e \in Seq(Tokens),
         NEW c \in Seq(Tokens), NEW n, NEW h, NEW on, Placed(q, p, e, c, n, h, on),
         p # <<>>
  PROVE  /\ Placed(q, Tail(p), e, Append(c, Head(p)), n, h, on)
         /\ Placed(q, Tail(p), e, c, n, h, on)
<1> DEFINE x  == Head(p)
           pt == Tail(p)
           cx == Append(c, x)
<1>1. /\ x \in Tokens /\ pt \in Seq(Tokens) /\ Range(p) = {x} \cup Range(pt)
      /\ DistinctIn(pt, Tokens) /\ ApartIn({x}, Range(pt), Tokens)
  BY TailDistinct DEF Placed, Apart
<1> HIDE DEF x, pt
<1>2. /\ \A t \in Range(c) : t.no = n => t.buf # x.buf
      /\ \A t \in Range(q) \cup Range(pt) \cup Range(e) : t \in Tokens /\ t.buf # x.buf
  BY <1>1, RangesAre DEF Placed, Apart, ApartIn
<1>3. /\ cx \in Seq(Tokens) /\ Range(cx) = Range(c) \cup {x}
      /\ DistinctIn(cx, Now(n))
  BY <1>1, <1>2, AppendDistinct DEF Placed, Apart, ApartIn, Now
<1> HIDE DEF cx
<1>4. ApartIn(Range(q), Range(pt), Tokens) /\ ApartIn(Range(e), Range(q) \cup Range(pt), Tokens)
  BY <1>1 DEF Placed, Apart, ApartIn
<1>5. Apart(q, pt, e, cx, n) /\ Apart(q, pt, e, c, n)
  BY <1>1, <1>2, <1>3, <1>4 DEF Placed, Apart
<1>6. NotClients(q, pt, e, cx, n, h, on) /\ NotClients(q, pt, e, c, n, h, on)
  BY <1>1, <1>3 DEF Placed, NotClients
<1>7. Numbered(q, pt, e, cx, n) /\ Numbered(q, pt, e, c, n)
  BY <1>1, <1>3 DEF Placed, Numbered
<1> QED
  BY <1>5, <1>6, <1>7 DEF Placed, x, pt, cx

\* A state event takes an event buffer.
LEMMA PlacedEvent ==
  ASSUME NEW q \in Seq(Tokens), NEW p \in Seq(Tokens), NEW e \in Seq(Tokens),
         NEW c \in Seq(Tokens), NEW n, NEW h, NEW on, Placed(q, p, e, c, n, h, on),
         e # <<>>
  PROVE  Placed(q, p, Tail(e), Append(c, Head(e)), n, h, on)
<1> DEFINE x  == Head(e)
           et == Tail(e)
           cx == Append(c, x)
<1>1. /\ x \in Tokens /\ et \in Seq(Tokens) /\ Range(e) = {x} \cup Range(et)
      /\ DistinctIn(et, Tokens) /\ ApartIn({x}, Range(et), Tokens)
  BY TailDistinct DEF Placed, Apart
<1> HIDE DEF x, et
<1>2. /\ \A t \in Range(c) : t.no = n => t.buf # x.buf
      /\ \A t \in Range(q) \cup Range(p) \cup Range(et) : t \in Tokens /\ t.buf # x.buf
  BY <1>1, RangesAre DEF Placed, Apart, ApartIn
<1>3. /\ cx \in Seq(Tokens) /\ Range(cx) = Range(c) \cup {x}
      /\ DistinctIn(cx, Now(n))
  BY <1>1, <1>2, AppendDistinct DEF Placed, Apart, ApartIn, Now
<1> HIDE DEF cx
<1>4. ApartIn(Range(et), Range(q) \cup Range(p), Tokens)
  BY <1>1 DEF Placed, Apart, ApartIn
<1>5. Apart(q, p, et, cx, n)
  BY <1>1, <1>2, <1>3, <1>4 DEF Placed, Apart
<1>6. NotClients(q, p, et, cx, n, h, on)
  BY <1>1, <1>3 DEF Placed, NotClients
<1>7. Numbered(q, p, et, cx, n)
  BY <1>1, <1>3 DEF Placed, Numbered
<1> QED
  BY <1>5, <1>6, <1>7 DEF Placed, x, et, cx

\* Stop completes all event buffers.
LEMMA PlacedStop ==
  ASSUME NEW q \in Seq(Tokens), NEW p \in Seq(Tokens), NEW e \in Seq(Tokens),
         NEW c \in Seq(Tokens), NEW n, NEW h, NEW on, Placed(q, p, e, c, n, h, on)
  PROVE  c \o e \in Seq(Tokens) /\ Placed(q, p, <<>>, c \o e, n, h, on)
<1> DEFINE ce == c \o e
           z  == <<>>
<1>0. z \in Seq(Tokens) /\ Range(z) = {} /\ \A S : DistinctIn(z, S)
  BY EmptyQueue
<1> HIDE DEF z
<1>1. /\ DistinctIn(e, Now(n))
      /\ ApartIn(Range(c), Range(e), Now(n))
  BY DEF Placed, Apart, ApartIn, DistinctIn, Now
<1>2. /\ ce \in Seq(Tokens) /\ Range(ce) = Range(c) \cup Range(e)
      /\ DistinctIn(ce, Now(n))
  BY <1>1, ConcatDistinct DEF Placed, Apart
<1> HIDE DEF ce
<1>3. \A t \in Range(e), u \in Range(q) \cup Range(p) : t.buf # u.buf
  BY RangesAre DEF Placed, Apart, ApartIn
<1>4. Apart(q, p, z, ce, n)
  <2>1. ApartIn(Range(z), Range(q) \cup Range(p), Tokens)
    BY <1>0 DEF ApartIn
  <2> QED
    BY <1>0, <1>2, <1>3, <2>1 DEF Placed, Apart
<1>5. NotClients(q, p, z, ce, n, h, on)
  BY <1>0, <1>2 DEF Placed, NotClients
<1>6. Numbered(q, p, z, ce, n)
  BY <1>0, <1>2 DEF Placed, Numbered
<1> QED
  BY <1>2, <1>4, <1>5, <1>6 DEF Placed, ce, z

\* WaitForEvent: a buffer of this attachment is the client's again.
LEMMA PlacedTaken ==
  ASSUME NEW q \in Seq(Tokens), NEW p \in Seq(Tokens), NEW e \in Seq(Tokens),
         NEW c \in Seq(Tokens), NEW n, NEW h \in [Buffers -> Agents \cup {NULL}], NEW on,
         Placed(q, p, e, c, n, h, on), c # <<>>
  PROVE  LET t == Head(c)
         IN  /\ Tail(c) \in Seq(Tokens)
             /\ Placed(q, p, e, Tail(c), n, h, on)
             /\ t.no = n => Placed(q, p, e, Tail(c), n, [h EXCEPT ![t.buf] = CLIENT], on)
<1> DEFINE t  == Head(c)
           ct == Tail(c)
           g  == [h EXCEPT ![t.buf] = CLIENT]
           W  == Range(q) \cup Range(p) \cup Range(e)
<1>1. /\ t \in Tokens /\ ct \in Seq(Tokens) /\ Range(c) = {t} \cup Range(ct)
      /\ DistinctIn(ct, Now(n)) /\ ApartIn({t}, Range(ct), Now(n))
  BY TailDistinct DEF Placed, Apart
<1> HIDE DEF t, ct
<1>2. Apart(q, p, e, ct, n) /\ Numbered(q, p, e, ct, n) /\ NotClients(q, p, e, ct, n, h, on)
  BY <1>1 DEF Placed, Apart, Numbered, NotClients
<1>3. ASSUME t.no = n
      PROVE  NotClients(q, p, e, ct, n, g, on)
  <2>1. /\ \A u \in W : u \in Tokens /\ u.buf # t.buf
        /\ \A u \in Range(ct) : u \in Tokens /\ (u.no = n => u.buf # t.buf)
    BY <1>1, <1>3, RangesAre DEF Placed, Apart, ApartIn, Now
  <2>2. \A u \in Tokens : u.buf # t.buf => g[u.buf] = h[u.buf]
    BY TokenFields
  <2> HIDE DEF g
  <2> QED
    BY <1>1, <2>1, <2>2 DEF Placed, NotClients
<1> QED
  BY <1>1, <1>2, <1>3 DEF Placed, t, ct, g

\* Attach: what is left of former attachments does not count any more.
LEMMA PlacedAttach ==
  ASSUME NEW q \in Seq(Tokens), NEW p \in Seq(Tokens), NEW e \in Seq(Tokens),
         NEW c \in Seq(Tokens), NEW n \in Int, NEW h, NEW on, NEW off,
         Placed(q, p, e, c, n, h, off)
  PROVE  Placed(q, p, e, c, n + 1, h, on)
<1> DEFINE All == Range(q) \cup Range(p) \cup Range(e) \cup Range(c)
<1>1. \A t \in All : t \in Tokens /\ t.no \in Int /\ t.no <= n
  BY RangesAre, TokenFields DEF Placed, Numbered
<1>2. \A t \in All : t.no <= n + 1 /\ t.no # n + 1
  BY <1>1
<1>3. DistinctIn(c, Now(n + 1))
  BY <1>2 DEF DistinctIn, Now, Range
<1>4. Apart(q, p, e, c, n + 1)
  BY <1>2, <1>3 DEF Placed, Apart
<1> QED
  BY <1>2, <1>4 DEF Placed, NotClients, Numbered

\* Detach lets all buffers go, at once or in the end.
LEMMA PlacedDetach ==
  ASSUME NEW q \in Seq(Tokens), NEW p \in Seq(Tokens), NEW e \in Seq(Tokens),
         NEW c \in Seq(Tokens), NEW n, NEW h, NEW on, NEW g, Placed(q, p, e, c, n, h, on)
  PROVE  /\ Placed(q, p, e, c, n, h, FALSE)
         /\ Placed(<<>>, <<>>, <<>>, c, n, g, FALSE)
<1> DEFINE z == <<>>
<1>1. z \in Seq(Tokens) /\ Range(z) = {} /\ \A S : DistinctIn(z, S)
  BY EmptyQueue
<1> HIDE DEF z
<1>2. Placed(q, p, e, c, n, h, FALSE)
  BY DEF Placed, NotClients
<1>3. Apart(z, z, z, c, n)
  BY <1>1 DEF Placed, Apart, ApartIn
<1>4. NotClients(z, z, z, c, n, g, FALSE) /\ Numbered(z, z, z, c, n)
  BY <1>1 DEF Placed, NotClients, Numbered
<1> QED
  BY <1>2, <1>3, <1>4 DEF Placed, z

-----------------------------------------------------------------------------
(* Which transfers are outstanding *)

Hands == {agent[a].got.token : a \in Agents}

LEMMA OutstandingIs ==
  /\ InFlight = FlightTokens(inFlight) /\ InFlight' = FlightTokens(inFlight)'
  /\ Outstanding = FlightTokens(inFlight) \cup TokensIn(done) \cup Hands
  /\ Outstanding' = FlightTokens(inFlight)' \cup TokensIn(done)' \cup Hands'
<1>1. InFlight = FlightTokens(inFlight) /\ InFlight' = FlightTokens(inFlight)'
  BY DEF InFlight, FlightTokens
<1>2. /\ {x.token : x \in Range(done)} = TokensIn(done)
      /\ {x.token : x \in Range(done)}' = TokensIn(done)'
  BY DEF Range, TokensIn
<1> QED
  BY <1>1, <1>2 DEF Outstanding, Hands

LEMMA ControlNumbers ==
  LET f == [n \in 0 .. MaxControl |-> [buf |-> CONTROL, no |-> n]]
  IN  /\ IsFiniteSet(ControlTokens)
      /\ \A S : IsFiniteSet(S) /\ (\A n \in 0 .. MaxControl : f[n] \in S)
                  => MaxControl + 1 <= Cardinality(S)
<1> DEFINE N == 0 .. MaxControl
           f == [n \in N |-> [buf |-> CONTROL, no |-> n]]
<1>1. IsFiniteSet(N) /\ Cardinality(N) = MaxControl + 1
  BY FS_Interval, TraceAssumption
<1>2. f \in Surjection(N, ControlTokens)
  <2>1. f \in [N -> ControlTokens]
    BY DEF ControlTokens
  <2>2. \A t \in ControlTokens : \E n \in N : f[n] = t
    BY DEF ControlTokens
  <2> QED
    BY <2>1, <2>2 DEF Surjection
<1>3. IsFiniteSet(ControlTokens)
  BY <1>1, <1>2, FS_Surjection
<1>4. ASSUME NEW S, IsFiniteSet(S), \A n \in N : f[n] \in S
      PROVE  MaxControl + 1 <= Cardinality(S)
  <2>1. \A m, n \in N : f[m] = f[n] => m = n
    OBVIOUS
  <2>2. f \in Injection(N, S)
    <3>1. f \in [N -> S]
      BY <1>4
    <3> QED
      BY <2>1, <3>1 DEF Injection, IsInjective
  <2> HIDE DEF f, N
  <2>3. Cardinality(N) <= Cardinality(S)
    BY <1>4, <2>2, FS_Injection
  <2> QED
    BY <1>1, <2>3
<1> QED
  BY <1>3, <1>4

LEMMA ControlsFinite == IsFiniteSet(ControlsOut) /\ Cardinality(ControlsOut) \in Nat
<1>1. ControlsOut \in SUBSET ControlTokens
  BY DEF ControlsOut
<1> QED
  BY <1>1, ControlNumbers, FS_Subset, FS_CardinalityType

Bounded == Cardinality(ControlsOut) <= MaxControl

\* There is a number for one more control transfer.
LEMMA FreshControlIsFree ==
  ASSUME Bounded
  PROVE  FreshControl \in ControlTokens /\ FreshControl \notin Outstanding \cup {controlToken}
<1> DEFINE T(n) == [buf |-> CONTROL, no |-> n]
           free == {n \in 0 .. MaxControl : T(n) \notin ControlsOut}
<1>1. free # {}
  <2> SUFFICES ASSUME free = {} PROVE FALSE
    OBVIOUS
  <2>1. MaxControl + 1 <= Cardinality(ControlsOut)
    BY ControlNumbers, ControlsFinite
  <2> QED
    BY <2>1, ControlsFinite, TraceAssumption DEF Bounded
<1>2. free \subseteq Nat
  BY TraceAssumption
<1>3. PICK x \in free : \A y \in free : ~(<<y, x>> \in OpToRel(<, Nat))
  BY <1>1, <1>2, WFMin, NatLessThanWellFounded
<1>4. \A y \in free : x <= y
  <2> SUFFICES ASSUME NEW y \in free, ~(x <= y) PROVE FALSE
    OBVIOUS
  <2>1. x \in Nat /\ y \in Nat /\ y < x
    BY <1>2
  <2>2. <<y, x>> \in {ss \in Nat \X Nat : ss[1] < ss[2]}
    BY <2>1
  <2> QED
    BY <1>3, <2>2 DEF OpToRel
<1>5. \A m \in 0 .. x - 1 : T(m) \in ControlsOut
  <2> SUFFICES ASSUME NEW m \in 0 .. x - 1, T(m) \notin ControlsOut PROVE FALSE
    OBVIOUS
  <2>1. x \in 0 .. MaxControl /\ m \in 0 .. MaxControl /\ ~(x <= m)
    BY TraceAssumption
  <2> QED
    BY <1>4, <2>1
<1> DEFINE P(n) == T(n) \notin ControlsOut /\ \A m \in 0 .. n - 1 : T(m) \in ControlsOut
<1>6. x \in 0 .. MaxControl /\ P(x)
  BY <1>5
<1>7. FreshControl = T(CHOOSE n \in 0 .. MaxControl : P(n))
  BY DEF FreshControl
<1> HIDE DEF P
<1>8. PICK n \in 0 .. MaxControl : P(n) /\ FreshControl = T(n)
  BY <1>6, <1>7
<1>9. FreshControl \in ControlTokens /\ FreshControl \notin ControlsOut
  BY <1>8 DEF P, ControlTokens
<1> QED
  BY <1>9 DEF ControlsOut

\* One control transfer more.
LEMMA ControlAdded ==
  ASSUME Cardinality(ControlsOut) < MaxControl, NEW t,
         ControlsOut' \subseteq ControlsOut \cup {t}
  PROVE  Bounded'
<1>0. /\ IsFiniteSet(ControlsOut \cup {t})
      /\ \/ Cardinality(ControlsOut \cup {t}) = Cardinality(ControlsOut)
         \/ Cardinality(ControlsOut \cup {t}) = Cardinality(ControlsOut) + 1
  BY ControlsFinite, FS_AddElement
<1>1. /\ IsFiniteSet(ControlsOut \cup {t})
      /\ Cardinality(ControlsOut \cup {t}) <= Cardinality(ControlsOut) + 1
  BY <1>0, ControlsFinite
<1>2. IsFiniteSet(ControlsOut') /\ Cardinality(ControlsOut') <= Cardinality(ControlsOut \cup {t})
  BY <1>1, FS_Subset
<1>3. Cardinality(ControlsOut \cup {t}) \in Nat /\ Cardinality(ControlsOut') \in Nat
  BY <1>1, <1>2, FS_CardinalityType
<1> QED
  BY <1>1, <1>2, <1>3, ControlsFinite, TraceAssumption DEF Bounded

\* One in the place of another.
LEMMA ControlReplaced ==
  ASSUME Bounded, NEW c \in ControlsOut, NEW t,
         ControlsOut' \subseteq (ControlsOut \ {c}) \cup {t}
  PROVE  Bounded'
<1> DEFINE rest == ControlsOut \ {c}
<1>1. IsFiniteSet(rest) /\ Cardinality(rest) = Cardinality(ControlsOut) - 1
  BY ControlsFinite, FS_RemoveElement
<1>2. IsFiniteSet(rest \cup {t}) /\ Cardinality(rest \cup {t}) <= Cardinality(rest) + 1
  BY <1>1, ControlsFinite, FS_AddElement
<1>3. IsFiniteSet(ControlsOut') /\ Cardinality(ControlsOut') <= Cardinality(rest \cup {t})
  BY <1>2, FS_Subset
<1>4. Cardinality(rest \cup {t}) \in Nat /\ Cardinality(ControlsOut') \in Nat
  BY <1>2, <1>3, FS_CardinalityType
<1> HIDE DEF rest
<1> QED
  BY <1>1, <1>2, <1>3, <1>4, ControlsFinite, TraceAssumption DEF Bounded

LEMMA ControlsKept ==
  ASSUME Bounded, ControlsOut' \subseteq ControlsOut
  PROVE  Bounded'
<1>1. Cardinality(ControlsOut') <= Cardinality(ControlsOut) /\ IsFiniteSet(ControlsOut')
  BY ControlsFinite, FS_Subset
<1>2. Cardinality(ControlsOut') \in Nat
  BY <1>1, FS_CardinalityType
<1> QED
  BY <1>1, <1>2, ControlsFinite, TraceAssumption DEF Bounded

\* submitControlChannelRequest.
LEMMA ControlFlies ==
  ASSUME NEW flight \in Flights, Once(flight), NEW t \in ControlTokens,
         t \notin FlightTokens(flight)
  PROVE  LET new == [flight EXCEPT ![CONTROL] = Append(@, Transfer(t))]
         IN  new \in Flights /\ Once(new) /\ FlightTokens(new) = FlightTokens(flight) \cup {t}
<1> DEFINE x  == Transfer(t)
           xs == <<x>>
<1>1. x \in Transfers /\ x.token = t
  BY DEF Transfers, Transfer
<1> HIDE DEF x
<1>2. xs \in Seq(Transfers) /\ DOMAIN xs = 1 .. 1 /\ xs[1] = x
  BY <1>1
<1>3. \A i \in 1 .. 1 : i = 1
  OBVIOUS
<1>4. TokensIn(xs) = {t} /\ DistinctTokens(xs)
  BY <1>1, <1>2, <1>3 DEF TokensIn, DistinctTokens
<1>5. flight[CONTROL] \in Seq(Transfers) /\ CONTROL \in DOMAIN flight
  BY DEF Flights
<1>6. Append(flight[CONTROL], x) = flight[CONTROL] \o xs
  BY <1>1, <1>5, AppendIsConcat
<1>7. [flight EXCEPT ![CONTROL] = Append(@, x)] = [flight EXCEPT ![CONTROL] = flight[CONTROL] \o xs]
  BY <1>6
<1>8. TokensIn(xs) \cap FlightTokens(flight) = {}
  BY <1>4
<1> HIDE DEF xs
<1> DEFINE new == [flight EXCEPT ![CONTROL] = flight[CONTROL] \o xs]
<1>9. new \in Flights /\ Once(new) /\ FlightTokens(new) = FlightTokens(flight) \cup TokensIn(xs)
  BY <1>2, <1>4, <1>8, FlightGrows
<1> QED
  BY <1>4, <1>7, <1>9 DEF x

\* The transfers of submitBuffers.
TransfersOf(q, n) == [i \in 1 .. n |-> Transfer(q[i])]

LEMMA DataFlies ==
  ASSUME NEW q \in Seq(Tokens), DistinctIn(q, Tokens), NEW n \in 0 .. Len(q)
  PROVE  /\ TransfersOf(q, n) \in Seq(Transfers) /\ DistinctTokens(TransfersOf(q, n))
         /\ TokensIn(TransfersOf(q, n)) = Range(SubSeq(q, 1, n))
<1> DEFINE moved == SubSeq(q, 1, n)
           xs    == TransfersOf(q, n)
<1>1. /\ moved \in Seq(Tokens) /\ Len(moved) = n /\ \A i \in 1 .. n : moved[i] = q[i]
      /\ DistinctIn(moved, Tokens)
  BY SplitDistinct
<1> HIDE DEF moved
<1>2. n \in Nat /\ DOMAIN moved = 1 .. n
  BY <1>1
<1>3. \A i \in 1 .. n : moved[i] \in Tokens
  BY <1>1, <1>2
<1>4. \A i \in 1 .. n : Transfer(q[i]) \in Transfers /\ Transfer(q[i]).token = moved[i]
  BY <1>1, <1>3 DEF Transfers, Transfer
<1>5. xs \in Seq(Transfers) /\ DOMAIN xs = 1 .. n /\ \A i \in 1 .. n : xs[i].token = moved[i]
  BY <1>2, <1>4 DEF TransfersOf
<1> HIDE DEF xs
<1>6. TokensIn(xs) = Range(moved)
  BY <1>2, <1>5 DEF TokensIn, Range
<1>7. DistinctTokens(xs)
  <2> SUFFICES ASSUME NEW i \in 1 .. n, NEW j \in 1 .. n, xs[i].token = xs[j].token
               PROVE  i = j
    BY <1>5 DEF DistinctTokens
  <2>1. moved[i] = moved[j]
    BY <1>5
  <2> QED
    BY <1>1, <1>2, <1>3, <2>1 DEF DistinctIn
<1> QED
  BY <1>5, <1>6, <1>7 DEF moved, xs

-----------------------------------------------------------------------------
(* The inductive invariant *)

Places ==
  \A s \in Sinks : Placed(queued[s], pending[s], eventBufs[s], completed[s],
                          attaches[s], holder, status[s] # "DETACHED")

\* A transfer is in flight, or done, or in the hands of one thread.
Flying ==
  /\ Once(inFlight)
  /\ DistinctTokens(done)
  /\ FlightTokens(inFlight) \cap TokensIn(done) = {}
  /\ Hands \cap (FlightTokens(inFlight) \cup TokensIn(done)) = {}

Known == \A s \in Sinks : Outstanding \cap Tokens \subseteq Range(pending[s])

\* A token that no completion will bring any more.
Dead(s, t) ==
  /\ t \notin Outstanding \cup Range(queued[s]) \cup Range(pending[s])
  /\ t.no <= attaches[s]
  /\ status[s] # "DETACHED" => t.no < attaches[s]

\* m_dataTransferTokens are those of the pending buffers, until a Detach leaves
\* one there: it is never matched, and nothing behind it.
HeadDead ==
  \A s \in Sinks :
    \/ dataTokens = pending[s]
    \/ dataTokens # <<>> /\ Dead(s, Head(dataTokens))

Working == {"run", "cond", "usb", "got"}

Phases ==
  /\ agent[CLIENT].pc \in {"idle", "join", "usb", "got", "detachDevice", "discard"}
  /\ \A s \in Sinks : agent[s].pc \in Working \cup {"idle", "exited"}
  /\ \A s \in Sinks : agent[s].pc # "idle" => agent[s].sink = s
  /\ agent[CLIENT].pc # "idle" =>
       agent[CLIENT].sink \in Sinks /\ status[agent[CLIENT].sink] = "DETACHED"
  /\ \A a \in Agents : agent[a].pc # "got" => agent[a].got = Nothing
  /\ \A s \in Sinks : agent[s].pc \in Working => dataThread = s
  /\ agent[CLIENT].pc \in {"usb", "got", "detachDevice", "discard"} => dataThread = NULL
  /\ agent[CLIENT].pc = "join" => dataThread # NULL
  /\ \A s \in Sinks : agent[CLIENT].pc = "idle" /\ status[s] = "DETACHED" => dataThread = NULL
  /\ \A a \in Agents : agent[a].pc \in {"usb", "got"} =>
       pending[agent[a].sink] # <<>> /\ agent[a].buf = Head(pending[agent[a].sink])

IInv == TypeOK /\ Places /\ Flying /\ Known /\ Bounded /\ HeadDead /\ Phases

\* One thread at most has a completed transfer in its hands.
LEMMA OneHand ==
  ASSUME IInv, OneSink, NEW a \in Agents, Got(a) # Nothing
  PROVE  /\ agent[a].pc = "got" /\ agent[a].sink \in Sinks
         /\ Got(a).token \in Tokens \cup ControlTokens /\ Got(a).token # NULL
         /\ \A b \in Agents : b # a => Got(b) = Nothing
         /\ Got(a).token \in Outstanding
         /\ Got(a).token \notin FlightTokens(inFlight) \cup TokensIn(done)
<1>1. \A b \in Agents : Got(b) # Nothing => agent[b].pc = "got"
  BY DEF Got, IInv, Phases
<1>2. \A b \in Agents : b \in Sinks \/ b = CLIENT
  BY DEF Agents
<1>3. agent[a].sink \in Sinks
  BY <1>1, <1>2 DEF IInv, Phases
<1>4. \A b \in Agents : b # a => Got(b) = Nothing
  <2> SUFFICES ASSUME NEW b \in Agents, b # a, Got(b) # Nothing
               PROVE  FALSE
    OBVIOUS
  <2>1. \A s \in Sinks : agent[s].pc = "got" => dataThread = s
    BY DEF IInv, Phases, Working
  <2>2. agent[CLIENT].pc = "got" => dataThread = NULL
    BY DEF IInv, Phases
  <2> QED
    BY <1>1, <1>2, <2>1, <2>2, TraceAssumption DEF OneSink
<1>5. Got(a).token \in Tokens \cup ControlTokens
  BY DEF IInv, TypeOK, Got, Completions
<1>6. Got(a).token \in Hands
  BY DEF Got, Hands
<1> QED
  BY <1>1, <1>3, <1>4, <1>5, <1>6, NullAssumption, OutstandingIs DEF IInv, Flying

\* The transfer expected is the one of the buffer waitForBuffer was called with.
LEMMA ExpectedIs ==
  ASSUME IInv, OneSink, NEW a \in Agents, agent[a].pc = "got"
  PROVE  LET s == agent[a].sink
         IN  /\ s \in Sinks /\ pending[s] # <<>>
             /\ agent[a].buf = Head(pending[s])
             /\ dataTokens # <<>>
             /\ Expected(a) => /\ dataTokens = pending[s]
                               /\ Got(a).token = Head(pending[s])
<1> DEFINE s == agent[a].sink
<1>1. s \in Sinks
  BY DEF IInv, Phases, Agents
<1>2. pending[s] # <<>> /\ agent[a].buf = Head(pending[s])
  BY DEF IInv, Phases
<1>3. dataTokens = pending[s] \/ (dataTokens # <<>> /\ Dead(s, Head(dataTokens)))
  BY <1>1 DEF IInv, HeadDead
<1>4. ASSUME Expected(a)
      PROVE  dataTokens = pending[s] /\ Got(a).token = Head(pending[s])
  <2>1. Got(a).token \in Outstanding /\ Got(a).token = Head(dataTokens)
    BY <1>4, OneHand DEF Expected
  <2> QED
    BY <1>3, <2>1 DEF Dead
<1> QED
  BY <1>1, <1>2, <1>3, <1>4

\* It implies the safety properties.
LEMMA InvariantImplies ==
  ASSUME IInv, OneSink
  PROVE  /\ TypeOK /\ DataGoesToItsBuffer /\ NoEmptyQueueTaken /\ OwnedNotInFlight
         /\ DetachedHasNoThread
<1>1. DataGoesToItsBuffer
  BY ExpectedIs DEF DataGoesToItsBuffer
<1>2. NoEmptyQueueTaken
  BY ExpectedIs DEF NoEmptyQueueTaken
<1>3. OwnedNotInFlight
  <2> SUFFICES ASSUME NEW t \in InFlight, t.buf \in Buffers
               PROVE  holder[t.buf] # CLIENT
    BY DEF OwnedNotInFlight
  <2>1. t \in Tokens \cup ControlTokens
    <3>1. PICK e \in DOMAIN inFlight : t \in TokensIn(inFlight[e])
      BY OutstandingIs, FlightTokensAre
    <3>2. inFlight[e] \in Seq(Transfers)
      BY <3>1 DEF IInv, TypeOK, Transfers
    <3> QED
      BY <3>1, <3>2, TokensAreTokens
  <2>2. t \in Tokens
    BY <2>1, TraceAssumption DEF ControlTokens, Buffers
  <2>3. t.sink \in Sinks
    BY <2>2 DEF Tokens
  <2>4. t \in Range(pending[t.sink])
    BY <2>2, <2>3, OutstandingIs DEF IInv, Known
  <2> QED
    BY <2>3, <2>4 DEF IInv, Places, Placed, NotClients
<1>4. DetachedHasNoThread
  <2> SUFFICES ASSUME NEW s \in Sinks, status[s] = "DETACHED", agent[CLIENT].pc = "idle"
               PROVE  agent[s].pc \in {"idle", "exited"}
    BY DEF DetachedHasNoThread
  <2>1. dataThread = NULL
    BY DEF IInv, Phases
  <2> QED
    BY <2>1, TraceAssumption DEF IInv, Phases
<1> QED
  BY <1>1, <1>2, <1>3, <1>4 DEF IInv

-----------------------------------------------------------------------------
(* What the steps have in common *)

\* The sink stays attached as it is, or is detached, or attached anew.
Onward(s) ==
  \/ attaches'[s] = attaches[s] /\ (status'[s] # "DETACHED" => status[s] # "DETACHED")
  \/ attaches'[s] = attaches[s] + 1

\* A step that puts the tokens M behind those in USB's hands, which were in
\* the sink's queue or, N, are new.
LEMMA FlowStep ==
  ASSUME IInv, OneSink, NEW s \in Sinks, NEW M, NEW N, Onward(s),
         Outstanding' \cap Tokens \subseteq Outstanding \cup M,
         M \subseteq Range(pending[s])',
         Range(pending[s]) \subseteq Range(pending[s])',
         Range(queued[s])' \cup Range(pending[s])'
           \subseteq Range(queued[s]) \cup Range(pending[s]) \cup N,
         \A t \in N : t.no = attaches[s] /\ status[s] # "DETACHED",
         dataTokens = pending[s] => dataTokens' = pending[s]',
         dataTokens # <<>> => dataTokens' # <<>> /\ Head(dataTokens') = Head(dataTokens)
  PROVE  Known' /\ HeadDead'
<1>1. Known'
  <2>1. Outstanding' \cap Tokens \subseteq Range(pending[s])'
    BY DEF IInv, Known
  <2> QED
    BY <2>1 DEF Known, OneSink
<1>2. CASE dataTokens = pending[s]
  BY <1>1, <1>2 DEF HeadDead, OneSink
<1>3. CASE dataTokens # pending[s]
  <2>0. PICK t : t = Head(dataTokens)
    OBVIOUS
  <2>1. dataTokens # <<>> /\ Dead(s, t)
    BY <1>3, <2>0 DEF IInv, HeadDead
  <2>2. t \in Tokens /\ t.no \in Int /\ attaches[s] \in Int
    BY <2>0, <2>1, TokenFields DEF IInv, TypeOK
  <2>3. t \notin N /\ t.no <= attaches[s]
    BY <2>1, <2>2 DEF Dead
  <2>4. t \notin Range(queued[s])' \cup Range(pending[s])'
    BY <2>1, <2>3 DEF Dead
  <2>5. t \notin Outstanding'
    BY <2>1, <2>2, <2>4 DEF Dead
  <2>6. /\ t.no <= attaches'[s]
        /\ status'[s] # "DETACHED" => t.no < attaches'[s]
    BY <2>1, <2>2 DEF Dead, Onward
  <2>7. Dead(s, t)'
    BY <2>4, <2>5, <2>6 DEF Dead
  <2>8. dataTokens' # <<>> /\ Head(dataTokens') = t
    BY <2>0, <2>1
  <2>9. Dead(s, Head(dataTokens))'
    BY <2>7, <2>8 DEF Dead
  <2> QED
    BY <1>1, <2>8, <2>9 DEF HeadDead, OneSink
<1> QED
  BY <1>2, <1>3

\* A step that submits nothing.
LEMMA QuietStep ==
  ASSUME IInv, OneSink, NEW s \in Sinks, Onward(s),
         Outstanding' \cap (Tokens \cup ControlTokens) \subseteq Outstanding,
         controlToken' \in {controlToken, NULL},
         UNCHANGED <<pending, dataTokens>>,
         Range(queued[s])' \subseteq Range(queued[s])
  PROVE  Known' /\ Bounded' /\ HeadDead'
<1>1. Known' /\ HeadDead'
  <2> DEFINE M == {}
             N == {}
  <2>1. /\ Outstanding' \cap Tokens \subseteq Outstanding \cup M
        /\ M \subseteq Range(pending[s])'
        /\ Range(pending[s]) = Range(pending[s])'
        /\ \A t \in N : t.no = attaches[s] /\ status[s] # "DETACHED"
    OBVIOUS
  <2>2. Range(queued[s])' \cup Range(pending[s])'
           \subseteq Range(queued[s]) \cup Range(pending[s]) \cup N
    BY <2>1
  <2> HIDE DEF M, N
  <2> QED
    BY <2>1, <2>2, FlowStep
<1>2. ControlsOut' \subseteq ControlsOut
  BY NullAssumption DEF ControlsOut
<1>3. Bounded'
  BY <1>2, ControlsKept DEF IInv
<1> QED
  BY <1>1, <1>3

LEMMA FlightTypes ==
  ASSUME TypeOK
  PROVE  /\ inFlight \in Flights
         /\ FlightTokens(inFlight) \subseteq Tokens \cup ControlTokens
         /\ TokensIn(done) \subseteq Tokens \cup ControlTokens
<1>1. inFlight \in Flights
  BY DEF TypeOK, Flights, Transfers
<1>2. ASSUME NEW t \in FlightTokens(inFlight)
      PROVE  t \in Tokens \cup ControlTokens
  <2>1. PICK e \in DOMAIN inFlight : t \in TokensIn(inFlight[e])
    BY <1>2, FlightTokensAre
  <2>2. inFlight[e] \in Seq(Transfers)
    BY <1>1, <2>1 DEF Flights
  <2> QED
    BY <2>1, <2>2, TokensAreTokens
<1>3. TokensIn(done) \subseteq Tokens \cup ControlTokens
  BY TokensAreTokens DEF TypeOK
<1> QED
  BY <1>1, <1>2, <1>3

\* A step that takes no transfer in hand, and cancels all or none.
LEMMA CancelsOrNot ==
  ASSUME IInv, inFlight' \in {inFlight, Cancelled(inFlight)}, done' = done,
         \A a \in Agents : agent'[a].got \in {agent[a].got, Nothing}
  PROVE  /\ Flying' /\ inFlight' \in Flights
         /\ Outstanding' \cap (Tokens \cup ControlTokens) \subseteq Outstanding
<1>1. TypeOK /\ Flying
  BY DEF IInv
<1>2. Hands' \subseteq Hands \cup {NULL}
  BY DEF Hands, Nothing
<1>3. inFlight \in Flights /\ Once(inFlight)
  BY <1>1, FlightTypes DEF Flying
<1>4. /\ inFlight' \in Flights /\ Once(inFlight)'
      /\ FlightTokens(inFlight)' = FlightTokens(inFlight)
  BY <1>3, FlightCancelled
<1>5. NULL \notin FlightTokens(inFlight) \cup TokensIn(done)
  BY <1>1, FlightTypes, NullAssumption
<1>6. TokensIn(done)' = TokensIn(done) /\ DistinctTokens(done)'
  BY <1>1 DEF Flying
<1>7. Flying'
  BY <1>1, <1>2, <1>4, <1>5, <1>6 DEF Flying
<1>8. Outstanding' \subseteq Outstanding \cup {NULL}
  BY <1>2, <1>4, <1>6, OutstandingIs
<1> QED
  BY <1>4, <1>7, <1>8, NullAssumption

Pcs == {"idle", "run", "cond", "usb", "got", "exited", "join", "detachDevice", "discard"}

AgentStates ==
  [pc : Pcs, sink : Sinks \cup {NULL}, buf : Tokens \cup {NULL}, got : Completions \cup {Nothing}]

LEMMA AgentRecords ==
  /\ Idle \in AgentStates /\ Idle.got = Nothing /\ Idle.pc = "idle"
  /\ \A s \in Sinks, pc \in Pcs :
       /\ Thread(s, pc) \in AgentStates /\ Thread(s, pc).pc = pc
       /\ Thread(s, pc).sink = s /\ Thread(s, pc).got = Nothing
  /\ \A s \in Sinks, p \in Seq(Tokens) :
       /\ Draining(s, p) \in AgentStates
       /\ Draining(s, p).sink = s /\ Draining(s, p).got = Nothing
       /\ \/ Draining(s, p).pc = "usb" /\ p # <<>> /\ Draining(s, p).buf = Head(p)
          \/ Draining(s, p).pc = "detachDevice"
<1>1. Idle \in AgentStates /\ Idle.got = Nothing /\ Idle.pc = "idle"
  BY DEF Idle, AgentStates, Pcs
<1>2. ASSUME NEW s \in Sinks, NEW pc \in Pcs
      PROVE  /\ Thread(s, pc) \in AgentStates /\ Thread(s, pc).pc = pc
             /\ Thread(s, pc).sink = s /\ Thread(s, pc).got = Nothing
  BY DEF Thread, Idle, AgentStates
<1>3. ASSUME NEW s \in Sinks, NEW p \in Seq(Tokens)
      PROVE  /\ Draining(s, p) \in AgentStates
             /\ Draining(s, p).sink = s /\ Draining(s, p).got = Nothing
             /\ \/ Draining(s, p).pc = "usb" /\ p # <<>> /\ Draining(s, p).buf = Head(p)
                \/ Draining(s, p).pc = "detachDevice"
  <2>1. CASE p # <<>>
    <3>1. Head(p) \in Tokens
      BY <2>1
    <3>2. [Idle EXCEPT !.pc = "usb", !.sink = s, !.buf = Head(p)] \in AgentStates
      BY <3>1 DEF Idle, AgentStates, Pcs
    <3> QED
      BY <2>1, <3>2 DEF Draining, Idle
  <2>2. CASE p = <<>>
    BY <2>2 DEF Draining, Idle, AgentStates, Pcs
  <2> QED
    BY <2>1, <2>2
<1> QED
  BY <1>1, <1>2, <1>3

LEMMA AgentsAre ==
  /\ CLIENT \in Agents /\ CLIENT \notin Sinks /\ NULL \notin Sinks /\ CLIENT # NULL
  /\ \A s \in Sinks : s \in Agents /\ s # CLIENT /\ s # NULL
  /\ \A a \in Agents : a \in Sinks \/ a = CLIENT
  /\ TypeOK => agent \in [Agents -> AgentStates]
BY TraceAssumption DEF Agents, CLIENT, TypeOK, AgentStates, Pcs

-----------------------------------------------------------------------------
(* API calls *)

LEMMA FlushKeeps ==
  ASSUME IInv, OneSink, NEW s \in Sinks, Flush(s)
  PROVE  IInv'
<1> USE DEF Flush, library
<1>1. TypeOK'
  BY DEF IInv, TypeOK, Fails, Returns
<1>2. Places' /\ Phases'
  BY DEF IInv, Places, Phases
<1>3. Flying' /\ Outstanding' \cap (Tokens \cup ControlTokens) \subseteq Outstanding
  BY CancelsOrNot
<1>4. Known' /\ Bounded' /\ HeadDead'
  BY <1>3, QuietStep DEF Onward
<1> QED
  BY <1>1, <1>2, <1>3, <1>4 DEF IInv

LEMMA StopKeeps ==
  ASSUME IInv, OneSink, NEW s \in Sinks, Stop(s)
  PROVE  IInv'
<1> USE DEF Stop, CancelTransfers
<1>t. TypeOK
  BY DEF IInv
<1>p. Placed(queued[s], pending[s], eventBufs[s], completed[s], attaches[s], holder,
             status[s] # "DETACHED")
  BY DEF IInv, Places
<1>q. /\ queued[s] \in Seq(Tokens) /\ pending[s] \in Seq(Tokens)
      /\ eventBufs[s] \in Seq(Tokens) /\ completed[s] \in Seq(Tokens)
  BY <1>t DEF TypeOK
<1>1. /\ completed[s] \o eventBufs[s] \in Seq(Tokens)
      /\ Placed(queued[s], pending[s], <<>>, completed[s] \o eventBufs[s], attaches[s], holder,
                status[s] # "DETACHED")
  BY <1>p, <1>q, PlacedStop
<1>2. /\ completed'[s] = completed[s] \o eventBufs[s] /\ eventBufs'[s] = <<>>
      /\ status[s] # "DETACHED" /\ status'[s] # "DETACHED"
  BY <1>t DEF TypeOK
<1>3. Places'
  <2>1. Placed(queued[s], pending[s], eventBufs[s], completed[s], attaches[s], holder,
               status[s] # "DETACHED")'
    BY <1>1, <1>2 DEF Placed, NotClients
  <2> QED
    BY <2>1 DEF Places, OneSink
<1>4. /\ Flying' /\ inFlight' \in Flights
      /\ Outstanding' \cap (Tokens \cup ControlTokens) \subseteq Outstanding
  BY CancelsOrNot
<1>5. Known' /\ Bounded' /\ HeadDead'
  BY <1>2, <1>4, QuietStep DEF Onward
<1>6. Phases'
  BY <1>2 DEF IInv, Phases, OneSink
<1>7. TypeOK'
  <2>1. bufType' \in [Buffers -> {"NONE", "DATA", "END_OF_DATA"}]
    BY <1>t DEF TypeOK
  <2>2. completed' \in [Sinks -> Seq(Tokens)] /\ eventBufs' \in [Sinks -> Seq(Tokens)]
    BY <1>t, <1>1, EmptyQueue DEF TypeOK
  <2> QED
    BY <1>t, <1>4, <2>1, <2>2 DEF TypeOK, Flights, Transfers, Returns
<1> QED
  BY <1>3, <1>4, <1>5, <1>6, <1>7 DEF IInv

LEMMA WaitForEventKeeps ==
  ASSUME IInv, OneSink, NEW s \in Sinks, WaitForEvent(s)
  PROVE  IInv'
<1> USE DEF WaitForEvent, usb
<1>t. TypeOK
  BY DEF IInv
<1>p. Placed(queued[s], pending[s], eventBufs[s], completed[s], attaches[s], holder,
             status[s] # "DETACHED")
  BY DEF IInv, Places
<1>q. /\ queued[s] \in Seq(Tokens) /\ pending[s] \in Seq(Tokens)
      /\ eventBufs[s] \in Seq(Tokens) /\ completed[s] \in Seq(Tokens) /\ completed[s] # <<>>
  BY <1>t DEF TypeOK
<1> DEFINE t == Head(completed[s])
<1>h. holder \in [Buffers -> Agents \cup {NULL}]
  BY <1>t DEF TypeOK
<1>1. /\ Tail(completed[s]) \in Seq(Tokens)
      /\ Placed(queued[s], pending[s], eventBufs[s], Tail(completed[s]), attaches[s], holder,
                status[s] # "DETACHED")
      /\ t.no = attaches[s] =>
           Placed(queued[s], pending[s], eventBufs[s], Tail(completed[s]), attaches[s],
                  [holder EXCEPT ![t.buf] = CLIENT], status[s] # "DETACHED")
  BY <1>p, <1>q, <1>h, PlacedTaken
<1>2. \/ holder' = holder
      \/ holder' = [holder EXCEPT ![t.buf] = CLIENT] /\ t.no = attaches[s]
  <2>1. holder' = [holder EXCEPT ![t.buf] = IF t = TokenOf(s, t.buf) /\ holder[t.buf] = s
                                            THEN CLIENT ELSE holder[t.buf]]
    OBVIOUS
  <2>2. t = TokenOf(s, t.buf) => t.no = attaches[s]
    <3>1. TokenOf(s, t.buf).no = attaches[s]
      BY DEF TokenOf
    <3> QED
      BY <3>1
  <2>3. [holder EXCEPT ![t.buf] = holder[t.buf]] = holder
    BY <1>h
  <2> QED
    BY <2>1, <2>2, <2>3
<1>3. /\ completed' = [completed EXCEPT ![s] = Tail(completed[s])]
      /\ completed'[s] = Tail(completed[s])
  BY <1>t DEF TypeOK
<1> HIDE DEF t
<1>4. Places'
  <2>1. Placed(queued[s], pending[s], eventBufs[s], completed[s], attaches[s], holder,
               status[s] # "DETACHED")'
    BY <1>1, <1>2, <1>3
  <2> QED
    BY <2>1 DEF Places, OneSink
<1>5. Flying' /\ Outstanding' \cap (Tokens \cup ControlTokens) \subseteq Outstanding
  BY CancelsOrNot
<1>6. Known' /\ Bounded' /\ HeadDead'
  BY <1>5, QuietStep DEF Onward
<1>7. Phases'
  BY DEF IInv, Phases
<1>8. TypeOK'
  <2>1. holder' \in [Buffers -> Agents \cup {NULL}]
    BY <1>h, <1>2, AgentsAre
  <2>2. completed' \in [Sinks -> Seq(Tokens)]
    BY <1>t, <1>1, <1>3 DEF TypeOK
  <2> QED
    BY <1>t, <2>1, <2>2 DEF TypeOK, Returns
<1> QED
  BY <1>4, <1>5, <1>6, <1>7, <1>8 DEF IInv

LEMMA DetachKeeps ==
  ASSUME IInv, OneSink, NEW s \in Sinks, Detach(s)
  PROVE  IInv'
<1> USE DEF Detach, CancelTransfers, client, ClientIdle
<1>t. TypeOK /\ agent \in [Agents -> AgentStates]
  BY AgentsAre DEF IInv
<1>q. /\ queued[s] \in Seq(Tokens) /\ pending[s] \in Seq(Tokens)
      /\ eventBufs[s] \in Seq(Tokens) /\ completed[s] \in Seq(Tokens)
  BY <1>t DEF TypeOK
<1>1. status'[s] = "DETACHED"
  BY <1>t DEF TypeOK
<1>2. Places'
  <2>1. Placed(queued[s], pending[s], eventBufs[s], completed[s], attaches[s], holder, FALSE)
    BY <1>q, PlacedDetach DEF IInv, Places
  <2>2. Placed(queued[s], pending[s], eventBufs[s], completed[s], attaches[s], holder,
               status[s] # "DETACHED")'
    BY <1>1, <2>1 DEF Placed, NotClients
  <2> QED
    BY <2>2 DEF Places, OneSink
<1> DEFINE gone == [Idle EXCEPT !.pc = "join", !.sink = s]
<1>3. /\ agent'[CLIENT] \in AgentStates /\ agent'[CLIENT].sink = s
      /\ agent'[CLIENT].got = Nothing /\ agent[CLIENT].got = Nothing
      /\ agent'[CLIENT].pc \in {"join", "usb", "detachDevice"}
      /\ agent'[CLIENT].pc = "join" => dataThread # NULL
      /\ agent'[CLIENT].pc # "join" => dataThread = NULL
      /\ agent'[CLIENT].pc = "usb" =>
           pending[s] # <<>> /\ agent'[CLIENT].buf = Head(pending[s])
  <2>1. /\ gone \in AgentStates /\ gone.sink = s /\ gone.got = Nothing /\ gone.pc = "join"
    BY AgentRecords DEF AgentStates, Pcs
  <2>2. agent[CLIENT].got = Nothing
    BY AgentsAre DEF IInv, Phases
  <2>3. CLIENT \in Agents /\ CLIENT # s
    BY AgentsAre
  <2>4. \/ agent'[CLIENT] = gone /\ dataThread # NULL
        \/ agent'[CLIENT] = Draining(s, pending[s]) /\ dataThread = NULL
    BY <1>t, <2>3
  <2> HIDE DEF gone
  <2> QED
    BY <1>q, <2>1, <2>2, <2>4, AgentRecords
<1>4. /\ agent'[s] \in AgentStates /\ agent'[s].sink = agent[s].sink
      /\ agent'[s].got = agent[s].got /\ agent'[s].buf = agent[s].buf
      /\ agent'[s].pc = agent[s].pc \/ (agent[s].pc = "cond" /\ agent'[s].pc = "run")
  <2>1. s \in Agents /\ CLIENT # s /\ agent[s] \in AgentStates
    BY <1>t, AgentsAre
  <2>2. agent'[s] = IF agent[s].pc = "cond" THEN [agent[s] EXCEPT !.pc = "run"] ELSE agent[s]
    BY <1>t, <2>1
  <2> QED
    BY <2>1, <2>2 DEF AgentStates, Pcs
<1>5. agent' \in [Agents -> AgentStates]
  <2>1. agent' = [a \in Agents |-> agent'[a]]
    BY <1>t
  <2> QED
    BY <1>3, <1>4, <2>1, AgentsAre DEF OneSink
<1>6. \A a \in Agents : agent'[a].got = agent[a].got
  BY <1>3, <1>4, AgentsAre DEF OneSink
<1>7. /\ Flying' /\ inFlight' \in Flights
      /\ Outstanding' \cap (Tokens \cup ControlTokens) \subseteq Outstanding
  BY <1>6, CancelsOrNot
<1>8. Known' /\ Bounded' /\ HeadDead'
  BY <1>1, <1>7, QuietStep DEF Onward
<1>9. Phases'
  <2>1. \A r \in Sinks : r = s
    BY DEF OneSink
  <2>2. \A a \in Agents : a = s \/ a = CLIENT
    BY <2>1, AgentsAre
  <2> QED
    BY <1>1, <1>3, <1>4, <2>1, <2>2 DEF IInv, Phases, Working
<1>10. TypeOK'
  <2>1. status' \in [Sinks -> {"DETACHED", "ATTACHED", "ACTIVE"}]
    BY <1>t DEF TypeOK
  <2> QED
    BY <1>t, <1>5, <1>7, <2>1 DEF TypeOK, Flights, Transfers, AgentStates, Pcs
<1> QED
  BY <1>2, <1>7, <1>8, <1>9, <1>10 DEF IInv

-----------------------------------------------------------------------------
(* The USB device, and completeTransfer *)

\* A step that touches neither the queues nor the status of a sink.
LEMMA StillStep ==
  ASSUME IInv, OneSink, UNCHANGED <<status, attaches, queued, pending, dataTokens>>,
         Outstanding' \cap (Tokens \cup ControlTokens) \subseteq Outstanding,
         controlToken' \in {controlToken, NULL}
  PROVE  Known' /\ Bounded' /\ HeadDead'
<1>1. CASE Sinks = {}
  <2>1. ControlsOut' \subseteq ControlsOut
    BY NullAssumption DEF ControlsOut
  <2> QED
    BY <1>1, <2>1, ControlsKept DEF IInv, Known, HeadDead
<1>2. ASSUME NEW s \in Sinks
      PROVE  Known' /\ Bounded' /\ HeadDead'
  BY QuietStep DEF Onward
<1> QED
  BY <1>1, <1>2

\* The oldest transfer of endpoint e is done.
LEMMA CompletesKeeps ==
  ASSUME IInv, OneSink, NEW e \in Endpoints \cup {CONTROL}, inFlight[e] # <<>>,
         NEW how \in {"SUCCESS", "FAILED"}, Completes(e, how),
         controlMsg' \in [status : {"END_SESSION", "OTHER"}, sink : Sinks],
         stream' \in [Sinks -> {"detached", "attached", "started", "stopping"}]
  PROVE  IInv'
<1> USE DEF library, client
<1>t. TypeOK /\ Flying /\ inFlight \in Flights /\ Once(inFlight) /\ done \in Seq(Completions)
  BY FlightTypes DEF IInv, Flying, TypeOK
<1> DEFINE t == Head(inFlight[e]).token
           x == [token |-> t, status |-> how]
           rest == [inFlight EXCEPT ![e] = Tail(inFlight[e])]
<1>1. /\ inFlight' = rest /\ done' = Append(done, x)
      /\ UNCHANGED <<library, agent, client>>
  BY DEF Completes
<1>2. /\ rest \in Flights /\ Once(rest)
      /\ t \in Tokens \cup ControlTokens /\ t \in FlightTokens(inFlight)
      /\ FlightTokens(rest) = FlightTokens(inFlight) \ {t}
  BY <1>t, FlightLands
<1>3. x \in Completions /\ x.token = t
  BY <1>2 DEF Completions
<1> HIDE DEF t, x, rest
<1>4. t \notin TokensIn(done)
  BY <1>t, <1>2 DEF Flying
<1>5. /\ done' \in Seq(Completions) /\ TokensIn(done)' = TokensIn(done) \cup {t}
      /\ DistinctTokens(done)'
  BY <1>t, <1>1, <1>3, <1>4, AppendTokens DEF Flying
<1>6. Hands' = Hands
  BY <1>1 DEF Hands
<1>7. FlightTokens(inFlight)' = FlightTokens(inFlight) \ {t} /\ Once(inFlight)'
  BY <1>1, <1>2
<1>8. Flying'
  BY <1>t, <1>2, <1>5, <1>6, <1>7 DEF Flying
<1>9. Outstanding' \subseteq Outstanding
  BY <1>2, <1>5, <1>6, <1>7, OutstandingIs
<1>10. Known' /\ Bounded' /\ HeadDead'
  BY <1>1, <1>9, StillStep
<1>11. Places' /\ Phases'
  BY <1>1 DEF IInv, Places, Phases
<1>12. TypeOK'
  BY <1>t, <1>1, <1>2, <1>5 DEF TypeOK, Flights, Transfers
<1> QED
  BY <1>8, <1>10, <1>11, <1>12 DEF IInv

LEMMA DeviceKeeps ==
  ASSUME IInv, OneSink, Device
  PROVE  IInv'
<1>t. /\ TypeOK /\ DOMAIN inFlight = Endpoints \cup {CONTROL}
      /\ controlMsg \in [status : {"END_SESSION", "OTHER"}, sink : Sinks]
      /\ stream \in [Sinks -> {"detached", "attached", "started", "stopping"}]
  BY DEF IInv, TypeOK
<1>1. ASSUME NEW e \in Endpoints, DataArrives(e)
      PROVE  IInv'
  BY <1>t, <1>1, CompletesKeeps DEF DataArrives
<1>2. ASSUME NEW s \in Sinks, MessageArrives(s)
      PROVE  IInv'
  <2>1. /\ stream' \in [Sinks -> {"detached", "attached", "started", "stopping"}]
        /\ controlMsg' \in [status : {"END_SESSION", "OTHER"}, sink : Sinks]
    BY <1>t, <1>2 DEF MessageArrives
  <2> QED
    BY <1>2, <2>1, CompletesKeeps DEF MessageArrives
<1>3. ASSUME NEW e \in DOMAIN inFlight, CancelCompletes(e) \/ TransferFails(e)
      PROVE  IInv'
  <2>1. e \in Endpoints \cup {CONTROL}
    BY <1>t
  <2> QED
    BY <1>t, <1>3, <2>1, CompletesKeeps DEF CancelCompletes, TransferFails
<1> QED
  BY <1>1, <1>2, <1>3 DEF Device

\* completeTransfer hands the next completion to the thread or to Detach.
LEMMA CompleteTransferKeeps ==
  ASSUME IInv, OneSink, NEW a \in Agents, agent[a].pc = "usb", CompleteTransfer(a),
         UNCHANGED <<library, client, inFlight, controlMsg, stream>>
  PROVE  IInv'
<1> USE DEF library, client
<1>t. /\ TypeOK /\ Flying /\ done \in Seq(Completions)
      /\ agent \in [Agents -> AgentStates] /\ agent[a].got = Nothing
  BY AgentsAre DEF IInv, TypeOK, Phases
<1>1. PICK g \in Completions \cup {Nothing} :
        /\ agent' = [agent EXCEPT ![a].got = g, ![a].pc = "got"]
        /\ \/ done # <<>> /\ g = Head(done) /\ done' = Tail(done)
           \/ g = Nothing /\ done' = done
  <2>1. done # <<>> => Head(done) \in Completions
    BY <1>t
  <2> QED
    BY <2>1 DEF CompleteTransfer
<1>2. /\ agent'[a] = [agent[a] EXCEPT !.got = g, !.pc = "got"]
      /\ agent[a] \in AgentStates
      /\ \A b \in Agents : b # a => agent'[b] = agent[b]
  BY <1>t, <1>1
<1>3. /\ agent'[a].got = g /\ agent'[a].pc = "got" /\ agent'[a].sink = agent[a].sink
      /\ agent'[a].buf = agent[a].buf /\ agent'[a] \in AgentStates
  BY <1>2 DEF AgentStates, Pcs
<1>4. agent' \in [Agents -> AgentStates]
  BY <1>t, <1>1, <1>2, <1>3
<1>5. Phases'
  <2>1. \A b \in Agents :
          /\ agent'[b].sink = agent[b].sink /\ agent'[b].buf = agent[b].buf
          /\ \/ agent'[b] = agent[b]
             \/ agent[b].pc = "usb" /\ agent'[b].pc = "got"
    BY <1>2, <1>3
  <2>2. \A b \in Agents : agent'[b].pc # "got" => agent'[b].got = Nothing
    BY <2>1 DEF IInv, Phases
  <2>3. \A b \in Agents : agent'[b].pc \in {"usb", "got"} =>
          /\ pending'[agent'[b].sink] # <<>>
          /\ agent'[b].buf = Head(pending'[agent'[b].sink])
    BY <2>1 DEF IInv, Phases
  <2> QED
    BY <2>1, <2>2, <2>3, AgentsAre DEF IInv, Phases, Working
<1>6. Places'
  BY DEF IInv, Places
<1>7. /\ Flying' /\ done' \in Seq(Completions)
      /\ Outstanding' \cap (Tokens \cup ControlTokens) \subseteq Outstanding
  <2>1. CASE done # <<>> /\ g = Head(done) /\ done' = Tail(done)
    <3>1. /\ TokensIn(done) = {g.token} \cup TokensIn(Tail(done))
          /\ Tail(done) \in Seq(Completions)
          /\ DistinctTokens(Tail(done)) /\ g.token \notin TokensIn(Tail(done))
      BY <1>t, <2>1, TailTokens DEF Flying
    <3>2. Hands' \subseteq Hands \cup {g.token}
      <4>1. \A b \in Agents : agent'[b].got.token \in {agent[b].got.token, g.token}
        BY <1>2, <1>3
      <4> QED
        BY <4>1 DEF Hands
    <3>3. FlightTokens(inFlight)' = FlightTokens(inFlight) /\ TokensIn(done)' = TokensIn(Tail(done))
      BY <2>1
    <3>4. Flying'
      BY <1>t, <2>1, <3>1, <3>2, <3>3 DEF Flying
    <3>5. Outstanding' \subseteq Outstanding
      BY <3>1, <3>2, <3>3, OutstandingIs
    <3> QED
      BY <2>1, <3>1, <3>4, <3>5
  <2>2. CASE g = Nothing /\ done' = done
    <3>1. \A b \in Agents : agent'[b].got \in {agent[b].got, Nothing}
      BY <1>2, <1>3, <2>2
    <3> QED
      BY <1>t, <2>2, <3>1, CancelsOrNot
  <2> QED
    BY <1>1, <2>1, <2>2
<1>8. Known' /\ Bounded' /\ HeadDead'
  BY <1>7, StillStep
<1>9. TypeOK'
  BY <1>t, <1>4, <1>7 DEF TypeOK, AgentStates, Pcs
<1> QED
  BY <1>5, <1>6, <1>7, <1>8, <1>9 DEF IInv

-----------------------------------------------------------------------------
(* The data thread looks at the queues; steps of Detach *)

LEMMA AgentMoves ==
  ASSUME TypeOK, NEW a \in Agents, NEW r \in AgentStates, agent' = [agent EXCEPT ![a] = r]
  PROVE  /\ agent' \in [Agents -> AgentStates] /\ agent'[a] = r
         /\ \A b \in Agents : b # a => agent'[b] = agent[b]
BY AgentsAre

\* A thread whose hands are empty afterwards.
LEMMA MovesKeep ==
  ASSUME IInv, OneSink, NEW a \in Agents, NEW r \in AgentStates, r.got = Nothing,
         agent' = [agent EXCEPT ![a] = r],
         inFlight' \in {inFlight, Cancelled(inFlight)},
         controlToken' = controlToken,
         UNCHANGED <<status, attaches, queued, pending, eventBufs, completed, holder,
                     dataTokens, done>>
  PROVE  /\ agent' \in [Agents -> AgentStates] /\ inFlight' \in Flights
         /\ Places' /\ Flying' /\ Known' /\ Bounded' /\ HeadDead'
<1>t. TypeOK
  BY DEF IInv
<1>1. /\ agent' \in [Agents -> AgentStates] /\ agent'[a] = r
      /\ \A b \in Agents : b # a => agent'[b] = agent[b]
  BY <1>t, AgentMoves
<1>2. \A b \in Agents : agent'[b].got \in {agent[b].got, Nothing}
  BY <1>1
<1>3. /\ Flying' /\ inFlight' \in Flights
      /\ Outstanding' \cap (Tokens \cup ControlTokens) \subseteq Outstanding
  BY <1>2, CancelsOrNot
<1>4. Known' /\ Bounded' /\ HeadDead'
  BY <1>3, StillStep
<1>5. Places'
  BY DEF IInv, Places
<1> QED
  BY <1>1, <1>3, <1>4, <1>5

LEMMA LooksKeeps ==
  ASSUME IInv, OneSink, NEW s \in Sinks, DataThreadLooks(s)
  PROVE  IInv'
<1> USE DEF library, client, usb
<1>t. TypeOK /\ s \in Agents /\ s # CLIENT /\ pending[s] \in Seq(Tokens)
  BY AgentsAre DEF IInv, TypeOK
<1>1. PICK r \in AgentStates :
        /\ r.got = Nothing /\ r.sink = s
        /\ \/ r.pc \in {"exited", "cond"}
           \/ r.pc = "usb" /\ pending[s] # <<>> /\ r.buf = Head(pending[s])
        /\ agent' = [agent EXCEPT ![s] = r]
  <2>1. CASE status[s] = "DETACHED" \/ pending[s] = <<>>
    <3>1. PICK pc \in {"exited", "cond"} : agent' = [agent EXCEPT ![s] = Thread(s, pc)]
      BY <2>1 DEF DataThreadLooks
    <3>2. pc \in Pcs
      BY DEF Pcs
    <3>3. /\ Thread(s, pc) \in AgentStates /\ Thread(s, pc).pc = pc
          /\ Thread(s, pc).sink = s /\ Thread(s, pc).got = Nothing
      BY <3>2, AgentRecords
    <3> QED
      BY <3>1, <3>3
  <2>2. CASE ~(status[s] = "DETACHED" \/ pending[s] = <<>>)
    <3> DEFINE r == [Thread(s, "usb") EXCEPT !.buf = Head(pending[s])]
    <3>1. Head(pending[s]) \in Tokens
      BY <1>t, <2>2
    <3>2. r \in AgentStates /\ r.got = Nothing /\ r.sink = s /\ r.pc = "usb"
          /\ r.buf = Head(pending[s])
      BY <3>1 DEF Thread, Idle, AgentStates, Pcs
    <3>3. agent' = [agent EXCEPT ![s] = r]
      BY <2>2 DEF DataThreadLooks
    <3> HIDE DEF r
    <3> QED
      BY <2>2, <3>2, <3>3
  <2> QED
    BY <2>1, <2>2
<1>2. /\ agent' \in [Agents -> AgentStates]
      /\ Places' /\ Flying' /\ Known' /\ Bounded' /\ HeadDead'
  BY <1>1, <1>t, MovesKeep DEF DataThreadLooks
<1>3. agent'[s] = r /\ \A b \in Agents : b # s => agent'[b] = agent[b]
  BY <1>t, <1>1, AgentMoves
<1>4. agent[s].pc = "run" /\ UNCHANGED <<status, pending, dataThread>>
  BY DEF DataThreadLooks
<1>5. Phases'
  <2>1. \A b \in Agents : b = s \/ b = CLIENT
    BY AgentsAre DEF OneSink
  <2> QED
    BY <1>t, <1>1, <1>3, <1>4, <2>1, AgentsAre DEF IInv, Phases, Working
<1>6. TypeOK'
  BY <1>t, <1>2 DEF DataThreadLooks, TypeOK, AgentStates, Pcs
<1> QED
  BY <1>2, <1>5, <1>6 DEF IInv

LEMMA JoinsKeeps ==
  ASSUME IInv, OneSink, DetachJoins
  PROVE  IInv'
<1> USE DEF client, CancelTransfers
<1> DEFINE s == agent[CLIENT].sink
           r == Draining(s, pending[s])
<1>t. TypeOK /\ agent \in [Agents -> AgentStates]
  BY AgentsAre DEF IInv
<1>1. /\ agent[CLIENT].pc = "join" /\ s \in Sinks /\ dataThread \in Sinks
      /\ CLIENT \in Agents
  BY <1>t, AgentsAre DEF IInv, Phases, DetachJoins, TypeOK
<1>2. /\ r \in AgentStates /\ r.got = Nothing /\ r.sink = s
      /\ \/ r.pc = "usb" /\ pending[s] # <<>> /\ r.buf = Head(pending[s])
         \/ r.pc = "detachDevice"
  <2>1. pending[s] \in Seq(Tokens)
    BY <1>t, <1>1 DEF TypeOK
  <2> QED
    BY <1>1, <2>1, AgentRecords
<1>3. agent' = [agent EXCEPT ![CLIENT] = r]
  BY DEF DetachJoins
<1> HIDE DEF r
<1>4. /\ agent' \in [Agents -> AgentStates] /\ inFlight' \in Flights
      /\ Places' /\ Flying' /\ Known' /\ Bounded' /\ HeadDead'
  BY <1>1, <1>2, <1>3, MovesKeep DEF DetachJoins
<1>5. agent'[CLIENT] = r /\ \A q \in Sinks : agent'[q] = agent[q]
  BY <1>t, <1>1, <1>2, <1>3, AgentMoves, AgentsAre
<1>6. \A q \in Sinks : agent'[q].pc \notin Working
  BY <1>1, <1>5 DEF IInv, Phases, Working, DetachJoins, OneSink
<1>7. dataThread' = NULL /\ UNCHANGED <<status, pending>>
  BY DEF DetachJoins
<1>8. Phases'
  <2>1. \A b \in Agents : agent'[b].pc \in {"usb", "got"} =>
          /\ pending[agent'[b].sink] # <<>>
          /\ agent'[b].buf = Head(pending[agent'[b].sink])
    BY <1>2, <1>5, <1>6, AgentsAre DEF Working
  <2> QED
    BY <1>1, <1>2, <1>5, <1>6, <1>7, <2>1, AgentsAre DEF IInv, Phases
<1>9. TypeOK'
  BY <1>t, <1>4 DEF DetachJoins, TypeOK, AgentStates, Pcs, Flights, Transfers
<1> QED
  BY <1>4, <1>8, <1>9 DEF IInv

LEMMA DetachDeviceKeeps ==
  ASSUME IInv, OneSink, DetachDevice
  PROVE  IInv'
<1> DEFINE s == agent[CLIENT].sink
<1>t. TypeOK /\ agent \in [Agents -> AgentStates]
  BY AgentsAre DEF IInv
<1>1. /\ agent[CLIENT].pc = "detachDevice" /\ s \in Sinks /\ dataThread = NULL
      /\ CLIENT \in Agents /\ agent[CLIENT] \in AgentStates
      /\ agent[CLIENT].got = Nothing
  BY <1>t, AgentsAre DEF IInv, Phases, DetachDevice
<1>2. PICK r \in AgentStates :
        /\ r.got = Nothing
        /\ \/ r.pc = "discard" /\ r.sink = s
           \/ r.pc = "idle"
        /\ agent' = [agent EXCEPT ![CLIENT] = r]
  <2>1. CASE agent' = [agent EXCEPT ![CLIENT] = Idle]
    BY <2>1, AgentRecords
  <2>2. CASE agent' = [agent EXCEPT ![CLIENT].pc = "discard"]
    <3> DEFINE r == [agent[CLIENT] EXCEPT !.pc = "discard"]
    <3>1. r \in AgentStates /\ r.got = Nothing /\ r.pc = "discard" /\ r.sink = s
      BY <1>1 DEF AgentStates, Pcs
    <3>2. agent' = [agent EXCEPT ![CLIENT] = r]
      BY <2>2
    <3> HIDE DEF r
    <3> QED
      BY <3>1, <3>2
  <2> QED
    BY <2>1, <2>2 DEF DetachDevice
<1>3. /\ agent' \in [Agents -> AgentStates]
      /\ Places' /\ Flying' /\ Known' /\ Bounded' /\ HeadDead'
  BY <1>1, <1>2, MovesKeep DEF DetachDevice
<1>4. agent'[CLIENT] = r /\ \A q \in Sinks : agent'[q] = agent[q]
  BY <1>t, <1>1, <1>2, AgentMoves, AgentsAre
<1>5. UNCHANGED <<status, pending, dataThread>>
  BY DEF DetachDevice
<1>6. Phases'
  BY <1>1, <1>2, <1>4, <1>5, AgentsAre DEF IInv, Phases
<1>7. TypeOK'
  <2>1. attachedSink' \in [Endpoints -> Sinks \cup {NULL}]
    BY <1>t DEF DetachDevice, TypeOK
  <2>2. stream' \in [Sinks -> {"detached", "attached", "started", "stopping"}]
    BY <1>t DEF DetachDevice, TypeOK
  <2>3. result' \in {"ok", "error"}
    BY <1>t DEF DetachDevice, TypeOK, Fails
  <2> QED
    BY <1>t, <1>3, <2>1, <2>2, <2>3 DEF DetachDevice, TypeOK, AgentStates, Pcs
<1> QED
  BY <1>3, <1>6, <1>7 DEF IInv

LEMMA DiscardsKeeps ==
  ASSUME IInv, OneSink, DetachDiscards
  PROVE  IInv'
<1> USE DEF DetachDiscards, library, client
<1>t. TypeOK /\ Flying /\ done \in Seq(Completions) /\ done # <<>>
  BY DEF IInv, TypeOK
<1>1. /\ Tail(done) \in Seq(Completions) /\ DistinctTokens(Tail(done))
      /\ TokensIn(Tail(done)) \subseteq TokensIn(done)
  BY <1>t, TailTokens DEF Flying
<1>2. Hands' = Hands /\ FlightTokens(inFlight)' = FlightTokens(inFlight)
  BY DEF Hands
<1>3. Flying'
  BY <1>t, <1>1, <1>2 DEF Flying
<1>4. Outstanding' \subseteq Outstanding
  BY <1>1, <1>2, OutstandingIs
<1>5. Known' /\ Bounded' /\ HeadDead'
  BY <1>4, StillStep
<1>6. Places' /\ Phases'
  BY DEF IInv, Places, Phases
<1>7. TypeOK'
  BY <1>t, <1>1 DEF TypeOK
<1> QED
  BY <1>3, <1>5, <1>6, <1>7 DEF IInv

LEMMA ReturnsKeeps ==
  ASSUME IInv, OneSink, DetachReturns
  PROVE  IInv'
<1> USE DEF DetachReturns, usb
<1>0. PICK s : s = agent[CLIENT].sink
  OBVIOUS
<1>t. TypeOK /\ agent \in [Agents -> AgentStates]
  BY AgentsAre DEF IInv
<1>1. /\ agent[CLIENT].pc = "discard" /\ s \in Sinks /\ dataThread = NULL
      /\ status[s] = "DETACHED" /\ CLIENT \in Agents
  BY <1>0, <1>t, AgentsAre DEF IInv, Phases
<1>2. agent' = [agent EXCEPT ![CLIENT] = Idle]
  OBVIOUS
<1>3. /\ agent' \in [Agents -> AgentStates] /\ agent'[CLIENT] = Idle
      /\ \A q \in Sinks : agent'[q] = agent[q]
  BY <1>t, <1>1, <1>2, AgentMoves, AgentRecords, AgentsAre
<1>4. \A a \in Agents : agent[a].got = Nothing /\ agent'[a].got = Nothing
  BY <1>1, <1>3, AgentsAre, AgentRecords DEF IInv, Phases, Working
<1>5. Outstanding' \subseteq {NULL}
  <2>1. FlightTokens(inFlight) = {} /\ done = <<>>
    BY OutstandingIs DEF NothingToDiscard
  <2>2. FlightTokens(inFlight)' = {} /\ TokensIn(done)' = {}
    BY <2>1 DEF TokensIn
  <2>3. Hands' \subseteq {NULL}
    BY <1>4 DEF Hands, Nothing
  <2> QED
    BY <2>2, <2>3, OutstandingIs
<1>6. /\ Flying' /\ Outstanding' \cap (Tokens \cup ControlTokens) \subseteq Outstanding
  BY <1>4, CancelsOrNot
<1>7. queued'[s] = <<>> /\ pending'[s] = <<>> /\ eventBufs'[s] = <<>>
  BY <1>0, <1>t, <1>1 DEF TypeOK
<1>8. Bounded'
  <2>1. ControlsOut' \subseteq ControlsOut
    BY <1>6 DEF ControlsOut
  <2> QED
    BY <2>1, ControlsKept DEF IInv
<1>9. Known'
  BY <1>5, NullAssumption DEF Known
<1>10. HeadDead'
  <2>1. CASE dataTokens = <<>>
    BY <1>1, <1>7, <2>1 DEF HeadDead, OneSink
  <2>2. CASE dataTokens # <<>>
    <3>0. PICK t : t = Head(dataTokens)
      OBVIOUS
    <3>1. t \in Tokens /\ t.no <= attaches[s]
      <4>1. CASE dataTokens = pending[s]
        <5>1. t \in Range(pending[s]) /\ t \in Tokens
          BY <1>t, <1>1, <2>2, <3>0, <4>1, TailDistinct DEF TypeOK
        <5> QED
          BY <1>1, <5>1 DEF IInv, Places, Placed, Numbered
      <4>2. CASE dataTokens # pending[s]
        BY <1>t, <1>1, <2>2, <3>0, <4>2 DEF IInv, HeadDead, Dead, TypeOK
      <4> QED
        BY <4>1, <4>2
    <3>2. t \notin Outstanding'
      BY <1>5, <3>1, NullAssumption
    <3>3. Range(queued[s])' = {} /\ Range(pending[s])' = {}
      BY <1>7, EmptyQueue
    <3>5. Dead(s, t)'
      BY <1>1, <3>1, <3>2, <3>3 DEF Dead
    <3>4. Dead(s, Head(dataTokens))'
      BY <3>0, <3>5 DEF Dead
    <3> QED
      BY <1>1, <2>2, <3>4 DEF HeadDead, OneSink
  <2> QED
    BY <2>1, <2>2
<1>11. Places'
  <2>0. /\ Placed(queued[s], pending[s], eventBufs[s], completed[s], attaches[s], holder,
                  status[s] # "DETACHED")
        /\ queued[s] \in Seq(Tokens) /\ pending[s] \in Seq(Tokens)
        /\ eventBufs[s] \in Seq(Tokens) /\ completed[s] \in Seq(Tokens)
    BY <1>t, <1>1 DEF IInv, Places, TypeOK
  <2>1. Placed(<<>>, <<>>, <<>>, completed[s], attaches[s], holder', FALSE)
    BY <2>0, PlacedDetach
  <2>2. Placed(queued[s], pending[s], eventBufs[s], completed[s], attaches[s], holder,
               status[s] # "DETACHED")'
    BY <1>1, <1>7, <2>1 DEF Placed, NotClients
  <2> QED
    BY <1>1, <2>2 DEF Places, OneSink
<1>12. Phases'
  <2>1. \A q \in Sinks : agent'[q].pc \notin Working
    BY <1>1, <1>3, AgentsAre DEF IInv, Phases
  <2> QED
    BY <1>1, <1>3, <1>4, <2>1, AgentsAre, AgentRecords DEF IInv, Phases, Working
<1>13. TypeOK'
  <2>1. holder' \in [Buffers -> Agents \cup {NULL}]
    BY <1>t, AgentsAre DEF TypeOK
  <2>2. /\ queued' \in [Sinks -> Seq(Tokens)] /\ pending' \in [Sinks -> Seq(Tokens)]
        /\ eventBufs' \in [Sinks -> Seq(Tokens)]
    BY <1>t, EmptyQueue DEF TypeOK
  <2> QED
    BY <1>t, <1>3, <2>1, <2>2 DEF TypeOK, Returns, AgentStates, Pcs
<1> QED
  BY <1>6, <1>8, <1>9, <1>10, <1>11, <1>12, <1>13 DEF IInv

-----------------------------------------------------------------------------
(* Steps that submit transfers *)

LEMMA TokensApart == Tokens \cap ControlTokens = {}
BY TraceAssumption DEF Tokens, ControlTokens, Buffers

\* New transfers M, which nobody has seen before.
LEMMA NewFlights ==
  ASSUME IInv, NEW M, M \cap Outstanding = {}, NULL \notin M,
         Once(inFlight)', FlightTokens(inFlight)' = FlightTokens(inFlight) \cup M,
         done' = done, \A a \in Agents : agent'[a].got \in {agent[a].got, Nothing}
  PROVE  /\ Flying'
         /\ Outstanding' \subseteq Outstanding \cup M \cup {NULL}
<1>1. Hands' \subseteq Hands \cup {NULL}
  BY DEF Hands, Nothing
<1>2. NULL \notin FlightTokens(inFlight) \cup TokensIn(done)
  BY FlightTypes, NullAssumption DEF IInv
<1>3. TokensIn(done)' = TokensIn(done) /\ DistinctTokens(done)'
  BY DEF IInv, Flying
<1>4. M \cap (TokensIn(done) \cup Hands) = {}
  BY OutstandingIs
<1>5. Flying'
  BY <1>1, <1>2, <1>3, <1>4 DEF IInv, Flying
<1>6. Outstanding' \subseteq Outstanding \cup M \cup {NULL}
  BY <1>1, <1>3, OutstandingIs
<1> QED
  BY <1>5, <1>6

\* submitBuffers, up to the first failure.
LEMMA DataSubmitted ==
  ASSUME IInv, NEW s \in Sinks, NEW q \in Seq(Tokens), DistinctIn(q, Tokens),
         Range(q) \cap Outstanding = {}, NEW n \in 0 .. Len(q),
         n > 0 => transportID[s] # NULL
  PROVE  LET flight == Submitted(s, q, n)
             M      == Range(SubSeq(q, 1, n))
         IN  /\ flight \in Flights /\ Once(flight)
             /\ FlightTokens(flight) = FlightTokens(inFlight) \cup M
             /\ M \subseteq Tokens /\ M \subseteq Range(q) /\ M \cap Outstanding = {}
<1> DEFINE flight == Submitted(s, q, n)
           M      == Range(SubSeq(q, 1, n))
<1>1. inFlight \in Flights /\ Once(inFlight)
  BY FlightTypes DEF IInv, Flying
<1>2. M \subseteq Range(q)
  BY SplitDistinct
<1>3. M \subseteq Tokens /\ M \cap Outstanding = {}
  BY <1>2, RangesAre
<1>4. ASSUME n = 0
      PROVE  /\ flight \in Flights /\ Once(flight)
             /\ FlightTokens(flight) = FlightTokens(inFlight) \cup M
  <2>1. flight = inFlight
    BY <1>4 DEF Submitted
  <2>2. M = {}
    <3>1. SubSeq(q, 1, 0) = <<>>
      OBVIOUS
    <3> QED
      BY <1>4, <3>1, EmptyQueue
  <2> HIDE DEF M, flight
  <2> QED
    BY <1>1, <2>1, <2>2
<1>5. ASSUME n # 0
      PROVE  /\ flight \in Flights /\ Once(flight)
             /\ FlightTokens(flight) = FlightTokens(inFlight) \cup M
  <2>1. transportID[s] \in Endpoints
    <3>1. n > 0
      BY <1>5
    <3> QED
      BY <3>1 DEF IInv, TypeOK
  <2>2. M \cap FlightTokens(inFlight) = {}
    BY <1>3, OutstandingIs
  <2>3. PICK e \in Endpoints : e = transportID[s]
    BY <2>1
  <2> DEFINE xs == TransfersOf(q, n)
             new == [inFlight EXCEPT ![e] = inFlight[e] \o xs]
  <2>x. xs \in Seq(Transfers) /\ DistinctTokens(xs) /\ TokensIn(xs) = M
    BY DataFlies
  <2>4. new \in Flights /\ Once(new) /\ FlightTokens(new) = FlightTokens(inFlight) \cup M
    <3> HIDE DEF xs, M
    <3> QED
      BY <1>1, <2>2, <2>3, <2>x, FlightGrows
  <2>5. flight = new
    BY <1>5, <2>3 DEF Submitted, TransfersOf
  <2> HIDE DEF new, flight
  <2> QED
    BY <2>4, <2>5
<1> QED
  BY <1>2, <1>3, <1>4, <1>5

\* submitControlChannelRequest, after the transfers M.
LEMMA ControlSubmitted ==
  ASSUME IInv, NEW flight \in Flights, Once(flight), NEW M, M \subseteq Tokens,
         FlightTokens(flight) = FlightTokens(inFlight) \cup M, SubmitControl(flight)
  PROVE  \E f \in ControlTokens :
           /\ f \notin Outstanding \cup {controlToken} \cup M
           /\ controlToken' = f
           /\ inFlight' \in Flights /\ Once(inFlight)'
           /\ FlightTokens(inFlight)' = FlightTokens(inFlight) \cup M \cup {f}
<1>1. FreshControl \in ControlTokens /\ FreshControl \notin Outstanding \cup {controlToken}
  BY FreshControlIsFree DEF IInv
<1>2. PICK f \in ControlTokens :
        f \notin Outstanding \cup {controlToken} /\ f = FreshControl
  BY <1>1
<1>3. f \notin M
  BY TokensApart
<1>4. f \notin FlightTokens(flight)
  BY <1>2, <1>3, OutstandingIs
<1>5. inFlight' = [flight EXCEPT ![CONTROL] = Append(@, Transfer(f))] /\ controlToken' = f
  BY <1>2 DEF SubmitControl
<1> DEFINE new == [flight EXCEPT ![CONTROL] = Append(@, Transfer(f))]
<1>6. new \in Flights /\ Once(new) /\ FlightTokens(new) = FlightTokens(flight) \cup {f}
  BY <1>4, ControlFlies
<1> QED
  BY <1>2, <1>3, <1>5, <1>6

LEMMA AttachKeeps ==
  ASSUME IInv, OneSink, NEW s \in Sinks, Attach(s)
  PROVE  IInv'
<1> USE DEF ClientIdle
<1>t. /\ TypeOK /\ agent \in [Agents -> AgentStates] /\ s \in Agents
      /\ inFlight \in Flights /\ Once(inFlight)
  BY AgentsAre, FlightTypes DEF IInv, Flying
<1>1. /\ status' = [status EXCEPT ![s] = "ATTACHED"] /\ status'[s] = "ATTACHED"
      /\ attaches' = [attaches EXCEPT ![s] = @ + 1] /\ attaches'[s] = attaches[s] + 1
      /\ attaches[s] \in Int
      /\ UNCHANGED <<queued, pending, eventBufs, completed, dataTokens, controlMsg,
                     holder, bufType, done>>
  BY <1>t DEF Attach, TypeOK
<1>2. Places'
  <2>1. Placed(queued[s], pending[s], eventBufs[s], completed[s], attaches[s] + 1, holder,
               status'[s] # "DETACHED")
    BY <1>1, <1>t, PlacedAttach DEF IInv, Places, TypeOK
  <2> QED
    BY <1>1, <2>1 DEF Places, OneSink
<1>3. /\ status' \in [Sinks -> {"DETACHED", "ATTACHED", "ACTIVE"}]
      /\ attaches' \in [Sinks -> 0 .. MaxAttach]
  <2>1. attaches[s] + 1 \in 0 .. MaxAttach
    <3>1. attaches[s] \in 0 .. MaxAttach /\ attaches[s] < MaxAttach /\ MaxAttach \in Nat
      BY <1>t, TraceAssumption DEF Attach, TypeOK
    <3> QED
      BY <3>1
  <2>2. /\ status \in [Sinks -> {"DETACHED", "ATTACHED", "ACTIVE"}]
        /\ attaches \in [Sinks -> 0 .. MaxAttach]
        /\ attaches' = [attaches EXCEPT ![s] = attaches[s] + 1]
    BY <1>t, <1>1 DEF TypeOK
  <2> QED
    BY <1>1, <2>1, <2>2
<1>4. agent[CLIENT].pc = "idle" /\ agent[s].pc \in {"idle", "exited"}
  BY DEF Attach
<1>5. CASE AttachFails(s)
  <2>1. UNCHANGED <<inFlight, controlToken, attachedSink, transportID, agent, dataThread>>
    BY <1>5 DEF AttachFails
  <2>2. Flying' /\ Outstanding' \cap (Tokens \cup ControlTokens) \subseteq Outstanding
    BY <1>1, <2>1, CancelsOrNot
  <2>3. Known' /\ Bounded' /\ HeadDead'
    BY <1>1, <2>1, <2>2, QuietStep DEF Onward
  <2>4. Phases'
    BY <1>1, <1>4, <2>1, AgentsAre DEF IInv, Phases, OneSink
  <2>5. stream' \in [Sinks -> {"detached", "attached", "started", "stopping"}]
        /\ result' \in {"ok", "error"}
    BY <1>5, <1>t DEF AttachFails, TypeOK, Fails
  <2>6. TypeOK'
    BY <1>t, <1>1, <1>3, <2>1, <2>5 DEF TypeOK
  <2> QED
    BY <1>2, <2>2, <2>3, <2>4, <2>6 DEF IInv
<1>6. ASSUME NEW e \in Endpoints, AttachSucceeds(s, e)
      PROVE  IInv'
  <2> DEFINE r == Thread(s, "run")
  <2>1. /\ agent' = [agent EXCEPT ![s] = r] /\ dataThread' = s
        /\ SubmitControl(inFlight)
    BY <1>6 DEF AttachSucceeds, Thread
  <2>2. r \in AgentStates /\ r.pc = "run" /\ r.sink = s /\ r.got = Nothing
    BY AgentRecords DEF Pcs
  <2> HIDE DEF r
  <2>3. /\ agent' \in [Agents -> AgentStates] /\ agent'[s] = r
        /\ \A b \in Agents : b # s => agent'[b] = agent[b]
    BY <1>t, <2>1, <2>2, AgentMoves
  <2>4. \A a \in Agents : agent'[a].got \in {agent[a].got, Nothing}
    BY <2>2, <2>3
  <2>5. PICK f \in ControlTokens :
          /\ f \notin Outstanding \cup {controlToken}
          /\ controlToken' = f
          /\ inFlight' \in Flights /\ Once(inFlight)'
          /\ FlightTokens(inFlight)' = FlightTokens(inFlight) \cup {f}
    <3> DEFINE M == {}
    <3>1. M \subseteq Tokens /\ FlightTokens(inFlight) = FlightTokens(inFlight) \cup M
      OBVIOUS
    <3>2. \E f \in ControlTokens :
           /\ f \notin Outstanding \cup {controlToken} \cup M
           /\ controlToken' = f
           /\ inFlight' \in Flights /\ Once(inFlight)'
           /\ FlightTokens(inFlight)' = FlightTokens(inFlight) \cup M \cup {f}
      <4> HIDE DEF M
      <4> QED
        BY <1>t, <2>1, <3>1, ControlSubmitted
    <3> QED
      BY <3>2
  <2>6. Flying' /\ Outstanding' \subseteq Outstanding \cup {f} \cup {NULL}
    <3>1. {f} \cap Outstanding = {} /\ NULL \notin {f}
      BY <2>5, NullAssumption
    <3> QED
      BY <1>1, <2>4, <2>5, <3>1, NewFlights
  <2>7. Bounded'
    <3>1. ControlsOut' \subseteq ControlsOut \cup {f}
      BY <2>5, <2>6, NullAssumption DEF ControlsOut
    <3> QED
      BY <3>1, ControlAdded DEF Attach
  <2>8. Known' /\ HeadDead'
    <3> DEFINE M == {}
    <3>1. /\ Outstanding' \cap Tokens \subseteq Outstanding \cup M
          /\ M \subseteq Range(pending[s])'
          /\ Range(pending[s]) = Range(pending[s])'
          /\ \A t \in M : t.no = attaches[s] /\ status[s] # "DETACHED"
      BY <1>1, <2>6, TokensApart, NullAssumption
    <3>2. Range(queued[s])' \cup Range(pending[s])'
             \subseteq Range(queued[s]) \cup Range(pending[s]) \cup M
      BY <1>1
    <3> HIDE DEF M
    <3> QED
      BY <1>1, <3>1, <3>2, FlowStep DEF Onward
  <2>9. Phases'
    <3>1. \A b \in Agents : b = s \/ b = CLIENT
      BY AgentsAre DEF OneSink
    <3> QED
      BY <1>1, <1>4, <2>1, <2>2, <2>3, <3>1, AgentsAre DEF IInv, Phases, Working, OneSink
  <2>10. TypeOK'
    <3>1. /\ stream' \in [Sinks -> {"detached", "attached", "started", "stopping"}]
          /\ attachedSink' \in [Endpoints -> Sinks \cup {NULL}]
          /\ transportID' \in [Sinks -> Endpoints \cup {NULL}]
          /\ result' \in {"ok", "error"}
      BY <1>6, <1>t DEF AttachSucceeds, TypeOK, Returns
    <3> QED
      BY <1>t, <1>1, <1>3, <2>1, <2>3, <2>5, <3>1
      DEF TypeOK, Flights, Transfers, AgentStates, Pcs
  <2> QED
    BY <1>2, <2>6, <2>7, <2>8, <2>9, <2>10 DEF IInv
<1> QED
  BY <1>5, <1>6 DEF Attach

\* submitBuffers of the queue q, which may have the new tokens N in it, with the
\* control transfers F.
LEMMA QueueSubmitted ==
  ASSUME IInv, OneSink, NEW s \in Sinks, Onward(s), NEW q \in Seq(Tokens), NEW N,
         Range(q) \subseteq Range(queued[s]) \cup N, Range(q) \cap Outstanding = {},
         \A t \in N : t.no = attaches[s] /\ status[s] # "DETACHED",
         NEW n \in 0 .. Len(q), Submit(s, q, pending[s], dataTokens, n),
         NEW F, F \subseteq ControlTokens, F \cap Outstanding = {}, Once(inFlight)',
         FlightTokens(inFlight)' = FlightTokens(inFlight) \cup Range(SubSeq(q, 1, n)) \cup F,
         done' = done, \A a \in Agents : agent'[a].got \in {agent[a].got, Nothing}
  PROVE  /\ Flying' /\ Known' /\ HeadDead'
         /\ queued' \in [Sinks -> Seq(Tokens)] /\ pending' \in [Sinks -> Seq(Tokens)]
         /\ dataTokens' \in Seq(Tokens)
         /\ queued'[s] = SubSeq(q, n + 1, Len(q))
         /\ pending'[s] = pending[s] \o SubSeq(q, 1, n)
         /\ pending[s] # <<>> => pending'[s] # <<>> /\ Head(pending'[s]) = Head(pending[s])
         /\ ControlsOut' \subseteq ControlsOut \cup F \cup {controlToken'}
<1> DEFINE moved == SubSeq(q, 1, n)
           rest  == SubSeq(q, n + 1, Len(q))
           M     == Range(moved)
<1>t. /\ TypeOK /\ queued[s] \in Seq(Tokens) /\ pending[s] \in Seq(Tokens)
      /\ dataTokens \in Seq(Tokens)
  BY DEF IInv, TypeOK
<1>1. /\ moved \in Seq(Tokens) /\ rest \in Seq(Tokens)
      /\ M \subseteq Range(q) /\ Range(rest) \subseteq Range(q)
  BY SplitDistinct
<1>2. /\ queued' = [queued EXCEPT ![s] = rest]
      /\ pending' = [pending EXCEPT ![s] = pending[s] \o moved]
      /\ dataTokens' = dataTokens \o moved
  BY DEF Submit
<1> HIDE DEF moved, rest
<1>3. /\ pending[s] \o moved \in Seq(Tokens)
      /\ Range(pending[s] \o moved) = Range(pending[s]) \cup M
      /\ pending[s] # <<>> =>
           pending[s] \o moved # <<>> /\ Head(pending[s] \o moved) = Head(pending[s])
      /\ dataTokens \o moved \in Seq(Tokens)
      /\ dataTokens # <<>> =>
           dataTokens \o moved # <<>> /\ Head(dataTokens \o moved) = Head(dataTokens)
  BY <1>t, <1>1, ConcatDistinct
<1>4. /\ queued' \in [Sinks -> Seq(Tokens)] /\ pending' \in [Sinks -> Seq(Tokens)]
      /\ dataTokens' \in Seq(Tokens)
      /\ queued'[s] = rest /\ pending'[s] = pending[s] \o moved
  BY <1>t, <1>1, <1>2, <1>3 DEF TypeOK
<1>5. /\ M \subseteq Tokens /\ (M \cup F) \cap Outstanding = {} /\ NULL \notin M \cup F
  BY <1>1, RangesAre, NullAssumption
<1>6. Flying' /\ Outstanding' \subseteq Outstanding \cup (M \cup F) \cup {NULL}
  <2>1. FlightTokens(inFlight)' = FlightTokens(inFlight) \cup (M \cup F)
    BY DEF moved
  <2> HIDE DEF M
  <2> QED
    BY <1>5, <2>1, NewFlights
<1>7. Known' /\ HeadDead'
  <2>1. Outstanding' \cap Tokens \subseteq Outstanding \cup M
    BY <1>6, TokensApart, NullAssumption
  <2>2. M \subseteq Range(pending[s])' /\ Range(pending[s]) \subseteq Range(pending[s])'
    BY <1>3, <1>4
  <2>3. Range(queued[s])' \cup Range(pending[s])'
           \subseteq Range(queued[s]) \cup Range(pending[s]) \cup N
    BY <1>1, <1>3, <1>4
  <2>4. /\ dataTokens = pending[s] => dataTokens' = pending[s]'
        /\ dataTokens # <<>> => dataTokens' # <<>> /\ Head(dataTokens') = Head(dataTokens)
    BY <1>2, <1>3, <1>4
  <2> HIDE DEF M
  <2> QED
    BY <2>1, <2>2, <2>3, <2>4, FlowStep
<1>8. ControlsOut' \subseteq ControlsOut \cup F \cup {controlToken'}
  BY <1>5, <1>6, TokensApart, NullAssumption DEF ControlsOut
<1> QED
  BY <1>3, <1>4, <1>6, <1>7, <1>8 DEF moved, rest

LEMMA NotifiedKeeps ==
  ASSUME IInv, OneSink, NEW s \in Sinks, NEW n, agent' = Notified(s, n),
         dataThread' = dataThread, agent[CLIENT].pc = "idle", status'[s] # "DETACHED",
         pending[s] # <<>> => pending'[s] # <<>> /\ Head(pending'[s]) = Head(pending[s])
  PROVE  /\ agent' \in [Agents -> AgentStates] /\ Phases'
         /\ \A a \in Agents : agent'[a].got = agent[a].got
<1>t. /\ TypeOK /\ agent \in [Agents -> AgentStates]
      /\ s \in Agents /\ CLIENT \in Agents /\ s # CLIENT
      /\ \A b \in Agents : b = s \/ b = CLIENT
  BY AgentsAre DEF IInv, OneSink
<1>1. agent'[CLIENT] = agent[CLIENT]
  BY <1>t DEF Notified
<1>2. agent'[s] = agent[s] \/ (agent[s].pc = "cond" /\ agent'[s] = [agent[s] EXCEPT !.pc = "run"])
  BY <1>t DEF Notified
<1>3. /\ agent'[s] \in AgentStates /\ agent'[s].sink = agent[s].sink
      /\ agent'[s].got = agent[s].got /\ agent'[s].buf = agent[s].buf
      /\ agent'[s].pc = agent[s].pc \/ (agent[s].pc = "cond" /\ agent'[s].pc = "run")
  BY <1>t, <1>2 DEF AgentStates, Pcs
<1>4. agent' \in [Agents -> AgentStates]
  BY <1>t DEF Notified, AgentStates, Pcs
<1>5. \A a \in Agents : agent'[a].got = agent[a].got
  BY <1>t, <1>1, <1>3
<1>6. Phases'
  <2>1. \A r \in Sinks : r = s
    BY DEF OneSink
  <2>2. agent[s].pc \in {"usb", "got"} => agent[s].sink = s
    BY DEF IInv, Phases
  <2>3. agent'[s].pc \in {"usb", "got"} =>
          /\ pending'[agent'[s].sink] # <<>>
          /\ agent'[s].buf = Head(pending'[agent'[s].sink])
    BY <1>t, <1>3, <2>2 DEF IInv, Phases
  <2> QED
    BY <1>t, <1>1, <1>3, <1>5, <2>1, <2>3 DEF IInv, Phases, Working
<1> QED
  BY <1>4, <1>5, <1>6

LEMMA StartKeeps ==
  ASSUME IInv, OneSink, NEW s \in Sinks, Start(s)
  PROVE  IInv'
<1> USE DEF ClientIdle
<1> DEFINE q == queued[s]
<1>t. TypeOK /\ q \in Seq(Tokens) /\ pending[s] \in Seq(Tokens)
  BY DEF IInv, TypeOK
<1>p. Placed(q, pending[s], eventBufs[s], completed[s], attaches[s], holder, TRUE)
  BY DEF IInv, Places, Placed, NotClients, Start
<1>1. /\ status' = [status EXCEPT ![s] = "ACTIVE"] /\ status[s] # "DETACHED"
      /\ status'[s] = "ACTIVE" /\ agent[CLIENT].pc = "idle"
      /\ UNCHANGED <<eventBufs, completed, transportID, dataThread, attachedSink,
                     holder, bufType, attaches, done, controlMsg>>
  BY <1>t DEF Start, TypeOK
<1>2. PICK n \in 0 .. Len(q) :
        /\ \/ SubmitsAll(s, q, pending[s], n) /\ StartsDevice(s, Submitted(s, q, n))
           \/ /\ SubmitThrows(s, q, pending[s], n)
              /\ Fails
              /\ inFlight' = Submitted(s, q, n)
              /\ UNCHANGED <<controlToken, stream>>
        /\ Submit(s, q, pending[s], dataTokens, n)
        /\ agent' = Notified(s, n)
  BY DEF Start
<1>3. Range(q) \cap Outstanding = {}
  <2>1. Outstanding \cap Tokens \subseteq Range(pending[s])
    BY DEF IInv, Known
  <2>2. Range(q) \subseteq Tokens /\ ApartIn(Range(q), Range(pending[s]), Tokens)
    BY <1>t, <1>p, RangesAre DEF Placed, Apart
  <2> QED
    BY <2>1, <2>2 DEF ApartIn
<1> DEFINE flight == Submitted(s, q, n)
           M      == Range(SubSeq(q, 1, n))
<1>4. /\ flight \in Flights /\ Once(flight)
      /\ FlightTokens(flight) = FlightTokens(inFlight) \cup M
      /\ M \subseteq Tokens
  <2>1. n > 0 => transportID[s] # NULL
    BY <1>2 DEF SubmitsAll, SubmitThrows
  <2> QED
    BY <1>t, <1>p, <1>2, <1>3, <2>1, DataSubmitted DEF Placed, Apart
<1>5. PICK F :
        /\ F \subseteq ControlTokens /\ F \cap Outstanding = {}
        /\ inFlight' \in Flights /\ Once(inFlight)'
        /\ FlightTokens(inFlight)' = FlightTokens(inFlight) \cup M \cup F
        /\ \/ F = {} /\ controlToken' \in {controlToken, NULL}
           \/ F = {controlToken'} /\ Cardinality(ControlsOut) < MaxControl
  <2> HIDE DEF flight, M
  <2>1. CASE SubmitControl(flight) /\ Cardinality(ControlsOut) < MaxControl
    <3>1. PICK f \in ControlTokens :
           /\ f \notin Outstanding \cup {controlToken} \cup M
           /\ controlToken' = f
           /\ inFlight' \in Flights /\ Once(inFlight)'
           /\ FlightTokens(inFlight)' = FlightTokens(inFlight) \cup M \cup {f}
      BY <1>4, <2>1, ControlSubmitted
    <3> DEFINE F == {f}
    <3>2. /\ F \subseteq ControlTokens /\ F \cap Outstanding = {}
          /\ FlightTokens(inFlight)' = FlightTokens(inFlight) \cup M \cup F
          /\ F = {controlToken'}
      BY <3>1
    <3> HIDE DEF F
    <3> QED
      BY <2>1, <3>1, <3>2
  <2>2. CASE inFlight' = flight /\ controlToken' \in {controlToken, NULL}
    <3> DEFINE F == {}
    <3>1. /\ F \subseteq ControlTokens /\ F \cap Outstanding = {} /\ F = {}
          /\ FlightTokens(flight) = FlightTokens(inFlight) \cup M \cup F
      BY <1>4
    <3> HIDE DEF F
    <3> QED
      BY <1>4, <2>2, <3>1
  <2> QED
    BY <1>2, <2>1, <2>2 DEF StartsDevice, flight
<1>6. \A a \in Agents : agent'[a].got = agent[a].got
  BY <1>2, AgentsAre DEF Notified, IInv, AgentStates
<1>7. /\ Flying' /\ Known' /\ HeadDead'
      /\ queued' \in [Sinks -> Seq(Tokens)] /\ pending' \in [Sinks -> Seq(Tokens)]
      /\ dataTokens' \in Seq(Tokens)
      /\ queued'[s] = SubSeq(q, n + 1, Len(q))
      /\ pending'[s] = pending[s] \o SubSeq(q, 1, n)
      /\ pending[s] # <<>> => pending'[s] # <<>> /\ Head(pending'[s]) = Head(pending[s])
      /\ ControlsOut' \subseteq ControlsOut \cup F \cup {controlToken'}
  <2> DEFINE N == {}
  <2>1. /\ Range(q) \subseteq Range(queued[s]) \cup N
        /\ \A t \in N : t.no = attaches[s] /\ status[s] # "DETACHED"
    OBVIOUS
  <2> HIDE DEF N
  <2>2. Onward(s)
    BY <1>1 DEF Onward
  <2>3. q \in Seq(Tokens) /\ n \in 0 .. Len(q) /\ Submit(s, q, pending[s], dataTokens, n)
    BY <1>t, <1>2
  <2>4. \A a \in Agents : agent'[a].got \in {agent[a].got, Nothing}
    BY <1>6
  <2>5. done' = done
    BY <1>1
  <2> HIDE DEF q, M
  <2>6. FlightTokens(inFlight)' = FlightTokens(inFlight) \cup Range(SubSeq(q, 1, n)) \cup F
    BY <1>5 DEF M
  <2>7. F \subseteq ControlTokens /\ F \cap Outstanding = {} /\ Once(inFlight)'
    BY <1>5
  <2> QED
    BY <1>3, <2>1, <2>2, <2>3, <2>4, <2>5, <2>6, <2>7, QueueSubmitted
<1>8. Bounded'
  <2>1. CASE F = {} /\ controlToken' \in {controlToken, NULL}
    <3>1. ControlsOut' \subseteq ControlsOut
      BY <1>7, <2>1, NullAssumption DEF ControlsOut
    <3> QED
      BY <3>1, ControlsKept DEF IInv
  <2>2. CASE F = {controlToken'} /\ Cardinality(ControlsOut) < MaxControl
    <3>1. PICK f : f = controlToken'
      OBVIOUS
    <3>2. ControlsOut' \subseteq ControlsOut \cup {f}
      BY <1>7, <2>2, <3>1
    <3> QED
      BY <2>2, <3>2, ControlAdded
  <2> QED
    BY <1>5, <2>1, <2>2
<1>9. agent' \in [Agents -> AgentStates] /\ Phases'
  BY <1>1, <1>2, <1>7, NotifiedKeeps
<1>10. Places'
  <2>1. Placed(SubSeq(q, n + 1, Len(q)), pending[s] \o SubSeq(q, 1, n), eventBufs[s],
               completed[s], attaches[s], holder, TRUE)
    BY <1>t, <1>p, PlacedSubmit DEF TypeOK
  <2>2. Placed(queued[s], pending[s], eventBufs[s], completed[s], attaches[s], holder,
               status[s] # "DETACHED")'
    BY <1>1, <1>7, <2>1 DEF Placed, NotClients
  <2> QED
    BY <2>2 DEF Places, OneSink
<1>11. TypeOK'
  <2>1. /\ stream' \in [Sinks -> {"detached", "attached", "started", "stopping"}]
        /\ result' \in {"ok", "error"}
    BY <1>t, <1>2 DEF StartsDevice, Fails, Returns, TypeOK
  <2>2. controlToken' \in ControlTokens \cup {NULL}
    BY <1>t, <1>5 DEF TypeOK
  <2>3. status' \in [Sinks -> {"DETACHED", "ATTACHED", "ACTIVE"}]
    BY <1>t, <1>1 DEF TypeOK
  <2> HIDE DEF q
  <2> QED
    BY <1>t, <1>1, <1>5, <1>7, <1>9, <2>1, <2>2, <2>3
    DEF TypeOK, Flights, Transfers, AgentStates, Pcs
<1> QED
  BY <1>7, <1>8, <1>9, <1>10, <1>11 DEF IInv

LEMMA SubmitEventBufferKeeps ==
  ASSUME IInv, OneSink, NEW s \in Sinks, NEW b \in Buffers, SubmitEventBuffer(s, b)
  PROVE  IInv'
<1> USE DEF ClientIdle
<1> DEFINE t == TokenOf(s, b)
<1>t. /\ TypeOK /\ queued[s] \in Seq(Tokens) /\ pending[s] \in Seq(Tokens)
      /\ eventBufs[s] \in Seq(Tokens) /\ completed[s] \in Seq(Tokens)
      /\ attaches[s] \in Int /\ holder \in [Buffers -> Agents \cup {NULL}]
      /\ inFlight \in Flights /\ Once(inFlight)
      /\ s \in Agents \cup {NULL} /\ s # CLIENT
      /\ NULL \in Agents \cup {NULL} /\ NULL # CLIENT
  <2>1. TypeOK /\ inFlight \in Flights /\ Once(inFlight)
    BY FlightTypes DEF IInv, Flying
  <2>2. /\ s \in Agents \cup {NULL} /\ s # CLIENT
        /\ NULL \in Agents \cup {NULL} /\ NULL # CLIENT
    BY AgentsAre
  <2>3. /\ queued[s] \in Seq(Tokens) /\ pending[s] \in Seq(Tokens)
        /\ eventBufs[s] \in Seq(Tokens) /\ completed[s] \in Seq(Tokens)
        /\ attaches[s] \in Int /\ holder \in [Buffers -> Agents \cup {NULL}]
    BY <2>1 DEF TypeOK
  <2> QED
    BY <2>1, <2>2, <2>3
<1>p. Placed(queued[s], pending[s], eventBufs[s], completed[s], attaches[s], holder, TRUE)
  BY DEF IInv, Places, Placed, NotClients, SubmitEventBuffer
<1>1. /\ agent[CLIENT].pc = "idle" /\ status[s] # "DETACHED" /\ holder[b] = CLIENT
      /\ bufType' = [bufType EXCEPT ![b] = "NONE"]
      /\ UNCHANGED <<status, completed, transportID, dataThread, controlToken,
                     attachedSink, attaches, done, controlMsg, stream>>
  BY DEF SubmitEventBuffer
<1>2. t \in Tokens /\ t.no = attaches[s] /\ t.buf = b
  BY <1>t DEF TokenOf, Tokens, TypeOK
<1> HIDE DEF t
<1>3. bufType' \in [Buffers -> {"NONE", "DATA", "END_OF_DATA"}]
  BY <1>t, <1>1 DEF TypeOK
<1>4. ASSUME NEW h \in {s, NULL}, holder' = [holder EXCEPT ![b] = h]
      PROVE  /\ Placed(Append(queued[s], t), pending[s], eventBufs[s], completed[s], attaches[s],
                       holder', TRUE)
             /\ Placed(queued[s], pending[s], Append(eventBufs[s], t), completed[s], attaches[s],
                       holder', TRUE)
             /\ holder' \in [Buffers -> Agents \cup {NULL}]
  <2>1. h \in Agents \cup {NULL} /\ h # CLIENT
    BY <1>4, <1>t
  <2>2. holder' = [holder EXCEPT ![t.buf] = h]
    BY <1>2, <1>4
  <2>3. holder[t.buf] = CLIENT
    BY <1>1, <1>2
  <2>4. /\ Placed(Append(queued[s], t), pending[s], eventBufs[s], completed[s], attaches[s],
                  [holder EXCEPT ![t.buf] = h], TRUE)
        /\ Placed(queued[s], pending[s], Append(eventBufs[s], t), completed[s], attaches[s],
                  [holder EXCEPT ![t.buf] = h], TRUE)
    BY <1>t, <1>p, <1>2, <2>1, <2>3, PlacedEnters
  <2>5. holder' \in [Buffers -> Agents \cup {NULL}]
    BY <1>t, <1>4, <2>1
  <2> QED
    BY <2>2, <2>4, <2>5
<1>5. CASE SubmitEvent(s, b) /\ UNCHANGED <<queued, pending, dataTokens, inFlight, agent>>
  <2>1. eventBufs' = [eventBufs EXCEPT ![s] = Append(eventBufs[s], t)]
        /\ holder' = [holder EXCEPT ![b] = s] /\ result' = "ok"
    BY <1>5 DEF SubmitEvent, Returns, t
  <2>2. Append(eventBufs[s], t) \in Seq(Tokens)
    BY <1>t, <1>2
  <2>3. eventBufs' \in [Sinks -> Seq(Tokens)] /\ eventBufs'[s] = Append(eventBufs[s], t)
    BY <1>t, <2>1, <2>2 DEF TypeOK
  <2>4. Places' /\ holder' \in [Buffers -> Agents \cup {NULL}]
    <3>1. /\ Placed(queued[s], pending[s], Append(eventBufs[s], t), completed[s], attaches[s],
                    holder', TRUE)
          /\ holder' \in [Buffers -> Agents \cup {NULL}]
      BY <1>4, <2>1
    <3>2. Placed(queued[s], pending[s], eventBufs[s], completed[s], attaches[s], holder,
                 status[s] # "DETACHED")'
      BY <1>1, <1>5, <2>3, <3>1 DEF Placed, NotClients
    <3> QED
      BY <3>1, <3>2 DEF Places, OneSink
  <2>5. Flying' /\ Outstanding' \cap (Tokens \cup ControlTokens) \subseteq Outstanding
    BY <1>1, <1>5, CancelsOrNot
  <2>6. Known' /\ Bounded' /\ HeadDead'
    BY <1>1, <1>5, <2>5, StillStep
  <2>7. Phases'
    BY <1>1, <1>5 DEF IInv, Phases
  <2>8. TypeOK'
    BY <1>t, <1>1, <1>3, <1>5, <2>1, <2>3, <2>4 DEF TypeOK
  <2> QED
    BY <2>4, <2>5, <2>6, <2>7, <2>8 DEF IInv
<1> DEFINE q == Append(queued[s], t)
<1>6. /\ q \in Seq(Tokens) /\ Range(q) = Range(queued[s]) \cup {t}
  BY <1>t, <1>2, AppendDistinct
<1>7. CASE /\ queued' = [queued EXCEPT ![s] = q]
           /\ holder' = [holder EXCEPT ![b] = s] /\ Returns
           /\ UNCHANGED <<eventBufs, pending, dataTokens, inFlight, agent>>
  <2>1. queued' \in [Sinks -> Seq(Tokens)] /\ queued'[s] = q
    BY <1>t, <1>6, <1>7 DEF TypeOK
  <2>2. /\ Placed(q, pending[s], eventBufs[s], completed[s], attaches[s], holder', TRUE)
        /\ holder' \in [Buffers -> Agents \cup {NULL}]
    BY <1>4, <1>7
  <2>3. Places'
    <3>1. Placed(queued[s], pending[s], eventBufs[s], completed[s], attaches[s], holder,
                 status[s] # "DETACHED")'
      BY <1>1, <1>7, <2>1, <2>2 DEF Placed, NotClients
    <3> QED
      BY <3>1 DEF Places, OneSink
  <2>4. Flying' /\ Outstanding' \cap (Tokens \cup ControlTokens) \subseteq Outstanding
    BY <1>1, <1>7, CancelsOrNot
  <2>5. Bounded'
    <3>1. ControlsOut' \subseteq ControlsOut
      BY <1>1, <2>4 DEF ControlsOut
    <3> QED
      BY <3>1, ControlsKept DEF IInv
  <2>6. Known' /\ HeadDead'
    <3> DEFINE M == {}
               N == {t}
    <3>1. /\ Outstanding' \cap Tokens \subseteq Outstanding \cup M
          /\ M \subseteq Range(pending[s])'
          /\ Range(pending[s]) = Range(pending[s])'
          /\ \A u \in N : u.no = attaches[s] /\ status[s] # "DETACHED"
      BY <1>1, <1>2, <1>7, <2>4
    <3>2. Range(queued[s])' \cup Range(pending[s])'
             \subseteq Range(queued[s]) \cup Range(pending[s]) \cup N
      BY <1>6, <1>7, <2>1
    <3>3. dataTokens = pending[s] => dataTokens' = pending[s]'
      BY <1>7
    <3>4. dataTokens # <<>> => dataTokens' # <<>> /\ Head(dataTokens') = Head(dataTokens)
      BY <1>7
    <3> HIDE DEF M, N
    <3> QED
      BY <1>1, <3>1, <3>2, <3>3, <3>4, FlowStep DEF Onward
  <2>7. Phases'
    BY <1>1, <1>7 DEF IInv, Phases
  <2>8. TypeOK'
    BY <1>t, <1>1, <1>3, <1>7, <2>1, <2>2 DEF TypeOK, Returns
  <2> QED
    BY <2>3, <2>4, <2>5, <2>6, <2>7, <2>8 DEF IInv
<1>8. ASSUME NEW n \in 0 .. Len(q), NEW h \in {s, NULL},
             SubmitsAll(s, q, pending[s], n) \/ SubmitThrows(s, q, pending[s], n),
             holder' = [holder EXCEPT ![b] = h], result' \in {"ok", "error"},
             Submit(s, q, pending[s], dataTokens, n),
             inFlight' = Submitted(s, q, n), agent' = Notified(s, n), eventBufs' = eventBufs
      PROVE  IInv'
  <2> DEFINE M == Range(SubSeq(q, 1, n))
             F == {}
             N == {t}
  <2>1. /\ Placed(q, pending[s], eventBufs[s], completed[s], attaches[s], holder', TRUE)
        /\ holder' \in [Buffers -> Agents \cup {NULL}]
    BY <1>4, <1>8
  <2>2. Range(q) \cap Outstanding = {}
    <3>1. Outstanding \cap Tokens \subseteq Range(pending[s])
      BY DEF IInv, Known
    <3>2. Range(q) \subseteq Tokens /\ ApartIn(Range(q), Range(pending[s]), Tokens)
      BY <1>6, <2>1, RangesAre DEF Placed, Apart
    <3> QED
      BY <3>1, <3>2 DEF ApartIn
  <2>3. /\ inFlight' \in Flights /\ Once(inFlight)'
        /\ FlightTokens(inFlight)' = FlightTokens(inFlight) \cup M
    <3>1. DistinctIn(q, Tokens)
      BY <2>1 DEF Placed, Apart
    <3>2. n > 0 => transportID[s] # NULL
      BY <1>8 DEF SubmitsAll, SubmitThrows
    <3> HIDE DEF q
    <3> QED
      BY <1>6, <1>8, <2>2, <3>1, <3>2, DataSubmitted
  <2>4. agent' \in [Agents -> AgentStates] /\ \A a \in Agents : agent'[a].got = agent[a].got
    BY <1>1, <1>8, AgentsAre DEF Notified, IInv, AgentStates, Pcs
  <2>5. /\ Flying' /\ Known' /\ HeadDead'
        /\ queued' \in [Sinks -> Seq(Tokens)] /\ pending' \in [Sinks -> Seq(Tokens)]
        /\ dataTokens' \in Seq(Tokens)
        /\ queued'[s] = SubSeq(q, n + 1, Len(q))
        /\ pending'[s] = pending[s] \o SubSeq(q, 1, n)
        /\ pending[s] # <<>> => pending'[s] # <<>> /\ Head(pending'[s]) = Head(pending[s])
        /\ ControlsOut' \subseteq ControlsOut \cup F \cup {controlToken'}
    <3>1. /\ Range(q) \subseteq Range(queued[s]) \cup N
          /\ \A u \in N : u.no = attaches[s] /\ status[s] # "DETACHED"
      BY <1>1, <1>2, <1>6
    <3>2. Onward(s)
      BY <1>1 DEF Onward
    <3>3. FlightTokens(inFlight)' = FlightTokens(inFlight) \cup M \cup F
      BY <2>3
    <3>4. F \subseteq ControlTokens /\ F \cap Outstanding = {}
      OBVIOUS
    <3>5. q \in Seq(Tokens) /\ n \in 0 .. Len(q) /\ Submit(s, q, pending[s], dataTokens, n)
      BY <1>6, <1>8
    <3>6. \A a \in Agents : agent'[a].got \in {agent[a].got, Nothing}
      BY <2>4
    <3>7. done' = done
      BY <1>1
    <3> HIDE DEF q, N, F
    <3> QED
      BY <2>2, <2>3, <3>1, <3>2, <3>3, <3>4, <3>5, <3>6, <3>7, QueueSubmitted
  <2>6. Bounded'
    <3>1. ControlsOut' \subseteq ControlsOut
      BY <1>1, <2>5 DEF ControlsOut
    <3> QED
      BY <3>1, ControlsKept DEF IInv
  <2>7. Phases'
    BY <1>1, <1>8, <2>5, NotifiedKeeps
  <2>8. Places'
    <3> HIDE DEF q
    <3>1. Placed(SubSeq(q, n + 1, Len(q)), pending[s] \o SubSeq(q, 1, n), eventBufs[s],
                 completed[s], attaches[s], holder', TRUE)
      BY <1>t, <1>6, <1>8, <2>1, PlacedSubmit
    <3>2. Placed(queued[s], pending[s], eventBufs[s], completed[s], attaches[s], holder,
                 status[s] # "DETACHED")'
      BY <1>1, <1>8, <2>5, <3>1 DEF Placed, NotClients
    <3> QED
      BY <3>2 DEF Places, OneSink
  <2>9. TypeOK'
    BY <1>t, <1>1, <1>3, <1>8, <2>1, <2>3, <2>4, <2>5
    DEF TypeOK, Flights, Transfers, AgentStates, Pcs
  <2> QED
    BY <2>5, <2>6, <2>7, <2>8, <2>9 DEF IInv
<1>9. CASE SubmitData(s, b) /\ UNCHANGED eventBufs
  <2>1. SubmitData(s, b) <=>
          \/ /\ status[s] = "ATTACHED"
             /\ queued' = [queued EXCEPT ![s] = q]
             /\ holder' = [holder EXCEPT ![b] = s]
             /\ Returns
             /\ UNCHANGED <<pending, dataTokens, inFlight, agent>>
          \/ /\ status[s] = "ACTIVE"
             /\ \E n \in 0 .. Len(q) :
                  /\ \/ /\ SubmitsAll(s, q, pending[s], n)
                        /\ holder' = [holder EXCEPT ![b] = s]
                        /\ Returns
                     \/ /\ SubmitThrows(s, q, pending[s], n)
                        /\ holder' = [holder EXCEPT ![b] = NULL]
                        /\ Fails
                  /\ Submit(s, q, pending[s], dataTokens, n)
                  /\ inFlight' = Submitted(s, q, n)
                  /\ agent' = Notified(s, n)
    BY DEF SubmitData, t
  <2> HIDE DEF q
  <2> QED
    BY <1>7, <1>8, <1>9, <2>1 DEF Returns, Fails
<1> QED
  BY <1>5, <1>9 DEF SubmitEventBuffer

-----------------------------------------------------------------------------
(* waitForBuffer after completeTransfer *)

LEMMA SubmitNone ==
  ASSUME NEW q \in Seq(Tokens), NEW p \in Seq(Tokens)
  PROVE  SubSeq(q, 0 + 1, Len(q)) = q /\ p \o SubSeq(q, 1, 0) = p
<1>1. SubSeq(q, 1, 0) = <<>>
  OBVIOUS
<1>2. p \o <<>> = p
  BY ConcatEmptySeq
<1>3. SubSeq(q, 1, Len(q)) = q
  BY SubSeqFull
<1> QED
  BY <1>1, <1>2, <1>3

\* Thread a puts down what it has in hand.
LEMMA HandsDown ==
  ASSUME IInv, OneSink, NEW a \in Agents, agent[a].pc = "got", Got(a) # Nothing,
         NEW r \in AgentStates, r.got = Nothing, agent' = [agent EXCEPT ![a] = r]
  PROVE  /\ agent' \in [Agents -> AgentStates] /\ agent'[a] = r
         /\ \A b \in Agents : b # a => agent'[b] = agent[b]
         /\ \A b \in Agents : agent'[b].got = Nothing
         /\ Hands' \subseteq {NULL}
<1>1. /\ agent' \in [Agents -> AgentStates] /\ agent'[a] = r
      /\ \A b \in Agents : b # a => agent'[b] = agent[b]
  BY AgentMoves DEF IInv
<1>2. \A b \in Agents : agent'[b].got = Nothing
  BY <1>1, OneHand DEF Got
<1> QED
  BY <1>1, <1>2 DEF Hands, Nothing

\* The first pending buffer is taken, and more are submitted.
LEMMA TakesPending ==
  ASSUME IInv, OneSink, NEW a \in Agents, NEW s \in Sinks, agent[a].sink = s,
         agent[a].pc = "got", Expected(a),
         NEW r \in AgentStates, r.got = Nothing, agent' = [agent EXCEPT ![a] = r],
         NEW n \in 0 .. Len(queued[s]),
         \/ n = 0 \/ SubmitsAll(s, queued[s], Tail(pending[s]), n)
         \/ SubmitThrows(s, queued[s], Tail(pending[s]), n),
         Submit(s, queued[s], Tail(pending[s]), Tail(dataTokens), n),
         inFlight' = Submitted(s, queued[s], n),
         \/ completed' = completed
         \/ completed' = [completed EXCEPT ![s] = Append(@, agent[a].buf)],
         UNCHANGED <<status, attaches, holder, eventBufs, controlToken, done>>
  PROVE  /\ Places' /\ Flying' /\ Known' /\ Bounded' /\ HeadDead'
         /\ agent' \in [Agents -> AgentStates] /\ agent'[a] = r
         /\ \A b \in Agents : b # a => agent'[b] = agent[b]
         /\ inFlight' \in Flights
         /\ queued' \in [Sinks -> Seq(Tokens)] /\ pending' \in [Sinks -> Seq(Tokens)]
         /\ completed' \in [Sinks -> Seq(Tokens)] /\ dataTokens' \in Seq(Tokens)
<1> DEFINE q     == queued[s]
           p     == pending[s]
           x     == Head(p)
           pt    == Tail(p)
           moved == SubSeq(q, 1, n)
           rest  == SubSeq(q, n + 1, Len(q))
           M     == Range(moved)
<1>t. /\ TypeOK /\ q \in Seq(Tokens) /\ p \in Seq(Tokens)
      /\ eventBufs[s] \in Seq(Tokens) /\ completed[s] \in Seq(Tokens)
  BY DEF IInv, TypeOK
<1>p. Placed(q, p, eventBufs[s], completed[s], attaches[s], holder, status[s] # "DETACHED")
  BY DEF IInv, Places
<1>1. /\ p # <<>> /\ dataTokens = p /\ Got(a).token = x /\ agent[a].buf = x
      /\ Got(a) # Nothing
  BY ExpectedIs DEF Expected
<1>2. x \in Tokens /\ pt \in Seq(Tokens) /\ Range(p) = {x} \cup Range(pt)
  BY <1>t, <1>1, TailDistinct
<1>3. /\ agent' \in [Agents -> AgentStates] /\ agent'[a] = r
      /\ \A b \in Agents : b # a => agent'[b] = agent[b]
      /\ \A b \in Agents : agent'[b].got = Nothing
      /\ Hands' \subseteq {NULL}
  BY <1>1, HandsDown
<1>4. Range(q) \cap Outstanding = {}
  <2>1. Outstanding \cap Tokens \subseteq Range(p)
    BY DEF IInv, Known
  <2>2. Range(q) \subseteq Tokens /\ ApartIn(Range(q), Range(p), Tokens)
    BY <1>t, <1>p, RangesAre DEF Placed, Apart
  <2> QED
    BY <2>1, <2>2 DEF ApartIn
<1>5. /\ inFlight' \in Flights /\ Once(inFlight)'
      /\ FlightTokens(inFlight)' = FlightTokens(inFlight) \cup M
      /\ M \subseteq Tokens /\ M \cap Outstanding = {}
  <2>1. DistinctIn(q, Tokens)
    BY <1>p DEF Placed, Apart
  <2>2. n > 0 => transportID[s] # NULL
    BY DEF SubmitsAll, SubmitThrows
  <2>3. n \in 0 .. Len(q) /\ inFlight' = Submitted(s, q, n)
    OBVIOUS
  <2> HIDE DEF q
  <2> QED
    BY <1>t, <1>4, <2>1, <2>2, <2>3, DataSubmitted
<1>6. Flying' /\ Outstanding' \subseteq (Outstanding \ {x}) \cup M \cup {NULL}
  <2>1. NULL \notin M
    BY <1>5, NullAssumption
  <2>2. Flying'
    <3> HIDE DEF M
    <3> QED
      BY <1>3, <1>5, <2>1, NewFlights
  <2>3. x \notin FlightTokens(inFlight) \cup TokensIn(done)
    BY <1>1, OneHand
  <2>4. TokensIn(done)' = TokensIn(done)
    OBVIOUS
  <2> HIDE DEF M, x
  <2> QED
    BY <1>3, <1>5, <2>2, <2>3, <2>4, OutstandingIs
<1>7. Bounded'
  <2>1. ControlsOut' \subseteq ControlsOut
    BY <1>5, <1>6, TokensApart, NullAssumption DEF ControlsOut
  <2> QED
    BY <2>1, ControlsKept DEF IInv
<1>8. /\ rest \in Seq(Tokens) /\ pt \o moved \in Seq(Tokens)
      /\ Placed(rest, pt \o moved, eventBufs[s], completed[s], attaches[s], holder,
                status[s] # "DETACHED")
      /\ Placed(rest, pt \o moved, eventBufs[s], Append(completed[s], x), attaches[s], holder,
                status[s] # "DETACHED")
      /\ Append(completed[s], x) \in Seq(Tokens)
      /\ Range(pt \o moved) = Range(pt) \cup M
  <2>1. /\ Placed(q, pt, eventBufs[s], completed[s], attaches[s], holder, status[s] # "DETACHED")
        /\ Placed(q, pt, eventBufs[s], Append(completed[s], x), attaches[s], holder,
                  status[s] # "DETACHED")
    BY <1>t, <1>p, <1>1, PlacedReturns
  <2>2. Append(completed[s], x) \in Seq(Tokens)
    BY <1>t, <1>2
  <2>3. n \in 0 .. Len(q)
    OBVIOUS
  <2> HIDE DEF pt, x, q
  <2>4. /\ rest \in Seq(Tokens) /\ pt \o moved \in Seq(Tokens)
        /\ Placed(rest, pt \o moved, eventBufs[s], completed[s], attaches[s], holder,
                  status[s] # "DETACHED")
        /\ Range(pt \o moved) = Range(pt) \cup M
    BY <1>t, <1>2, <2>1, <2>3, PlacedSubmit
  <2> DEFINE cx == Append(completed[s], x)
  <2>5. /\ cx \in Seq(Tokens)
        /\ Placed(q, pt, eventBufs[s], cx, attaches[s], holder, status[s] # "DETACHED")
    BY <2>1, <2>2
  <2> HIDE DEF cx
  <2>6. Placed(rest, pt \o moved, eventBufs[s], cx, attaches[s], holder, status[s] # "DETACHED")
    BY <1>t, <1>2, <2>3, <2>5, PlacedSubmit
  <2> QED
    BY <2>2, <2>4, <2>6 DEF cx
<1>9. /\ queued' = [queued EXCEPT ![s] = rest] /\ pending' = [pending EXCEPT ![s] = pt \o moved]
      /\ dataTokens' = pt \o moved
  BY <1>1 DEF Submit
<1> HIDE DEF q, p, x, pt, moved, rest, M
<1>10. /\ queued' \in [Sinks -> Seq(Tokens)] /\ pending' \in [Sinks -> Seq(Tokens)]
       /\ queued'[s] = rest /\ pending'[s] = pt \o moved /\ dataTokens' \in Seq(Tokens)
  BY <1>t, <1>8, <1>9 DEF TypeOK
<1>11. /\ completed' \in [Sinks -> Seq(Tokens)]
       /\ completed'[s] \in {completed[s], Append(completed[s], x)}
  <2>1. completed \in [Sinks -> Seq(Tokens)]
    BY <1>t DEF TypeOK
  <2>2. CASE completed' = completed
    BY <1>t, <2>1, <2>2
  <2>3. CASE completed' = [completed EXCEPT ![s] = Append(@, agent[a].buf)]
    <3>1. completed' = [completed EXCEPT ![s] = Append(completed[s], x)]
      BY <1>1, <2>3
    <3> QED
      BY <1>8, <2>1, <3>1
  <2> QED
    BY <2>2, <2>3
<1>12. Places'
  <2>1. Placed(rest, pt \o moved, eventBufs[s], completed'[s], attaches[s], holder,
               status[s] # "DETACHED")
    BY <1>8, <1>11
  <2>2. Placed(queued[s], pending[s], eventBufs[s], completed[s], attaches[s], holder,
               status[s] # "DETACHED")'
    BY <1>10, <2>1
  <2> QED
    BY <2>2 DEF Places, OneSink
<1>13. Known'
  <2>1. Outstanding \cap Tokens \subseteq {x} \cup Range(pt)
    BY <1>2 DEF IInv, Known, p
  <2>2. Outstanding' \cap Tokens \subseteq Range(pending[s])'
    BY <1>6, <1>8, <1>10, <2>1, NullAssumption
  <2> QED
    BY <2>2 DEF Known, OneSink
<1>14. HeadDead'
  BY <1>9, <1>10 DEF HeadDead, OneSink
<1> QED
  BY <1>3, <1>5, <1>6, <1>7, <1>10, <1>11, <1>12, <1>13, <1>14

\* doSendStateEvent completes an event buffer, if the client left one.
LEMMA MessageHandled ==
  ASSUME IInv, OneSink, HandleMessage \/ UNCHANGED <<completed, eventBufs, bufType>>,
         UNCHANGED <<status, attaches, queued, pending, holder>>
  PROVE  /\ Places'
         /\ eventBufs' \in [Sinks -> Seq(Tokens)] /\ completed' \in [Sinks -> Seq(Tokens)]
         /\ bufType' \in [Buffers -> {"NONE", "DATA", "END_OF_DATA"}]
<1>t. TypeOK
  BY DEF IInv
<1>1. CASE UNCHANGED <<completed, eventBufs, bufType>>
  BY <1>t, <1>1 DEF IInv, Places, TypeOK
<1>2. CASE ~UNCHANGED <<completed, eventBufs, bufType>>
  <2>1. PICK s \in Sinks : s = controlMsg.sink
    BY <1>t DEF TypeOK
  <2>2. /\ eventBufs[s] # <<>>
        /\ completed' = [completed EXCEPT ![s] = Append(@, Head(eventBufs[s]))]
        /\ eventBufs' = [eventBufs EXCEPT ![s] = Tail(@)]
        /\ bufType' = [bufType EXCEPT ![Head(eventBufs[s]).buf] = "END_OF_DATA"]
    BY <1>2, <2>1 DEF HandleMessage, EndOfData
  <2>3. /\ queued[s] \in Seq(Tokens) /\ pending[s] \in Seq(Tokens)
        /\ eventBufs[s] \in Seq(Tokens) /\ completed[s] \in Seq(Tokens)
        /\ eventBufs \in [Sinks -> Seq(Tokens)] /\ completed \in [Sinks -> Seq(Tokens)]
    BY <1>t DEF TypeOK
  <2>4. PICK x \in Tokens : x = Head(eventBufs[s])
    BY <2>2, <2>3
  <2> DEFINE cx == Append(completed[s], x)
             et == Tail(eventBufs[s])
  <2>5. Placed(queued[s], pending[s], eventBufs[s], completed[s], attaches[s], holder,
               status[s] # "DETACHED")
    BY DEF IInv, Places
  <2>6. /\ cx \in Seq(Tokens) /\ et \in Seq(Tokens)
        /\ Placed(queued[s], pending[s], et, cx, attaches[s], holder, status[s] # "DETACHED")
    BY <2>2, <2>3, <2>4, <2>5, PlacedEvent
  <2>7. completed' = [completed EXCEPT ![s] = cx] /\ eventBufs' = [eventBufs EXCEPT ![s] = et]
    BY <2>2, <2>4
  <2> HIDE DEF cx, et
  <2>8. /\ eventBufs' \in [Sinks -> Seq(Tokens)] /\ completed' \in [Sinks -> Seq(Tokens)]
        /\ eventBufs'[s] = et /\ completed'[s] = cx
    BY <2>3, <2>6, <2>7
  <2>9. Placed(queued[s], pending[s], eventBufs[s], completed[s], attaches[s], holder,
               status[s] # "DETACHED")'
    BY <2>6, <2>8
  <2>10. bufType' \in [Buffers -> {"NONE", "DATA", "END_OF_DATA"}]
    BY <1>t, <2>2, <2>4, TokenFields DEF TypeOK
  <2> QED
    BY <2>8, <2>9, <2>10 DEF Places, OneSink
<1> QED
  BY <1>1, <1>2

\* completeUsbTransfer of the control transfer, which is submitted again.
LEMMA HandleControlKeeps ==
  ASSUME IInv, OneSink, NEW a \in Agents, agent[a].pc = "got", IsControl(a),
         NEW after \in AgentStates, after.got = Nothing,
         NEW thrown \in AgentStates, thrown.got = Nothing,
         HandleControl(a, after, thrown),
         UNCHANGED <<status, attaches, queued, pending, holder, dataTokens, done>>
  PROVE  /\ Places' /\ Flying' /\ Known' /\ Bounded' /\ HeadDead'
         /\ \E r \in {after, thrown} :
              /\ agent' = [agent EXCEPT ![a] = r] /\ agent'[a] = r
              /\ agent' \in [Agents -> AgentStates]
              /\ \A b \in Agents : b # a => agent'[b] = agent[b]
         /\ inFlight' \in Flights /\ controlToken' \in ControlTokens \cup {NULL}
         /\ eventBufs' \in [Sinks -> Seq(Tokens)] /\ completed' \in [Sinks -> Seq(Tokens)]
         /\ bufType' \in [Buffers -> {"NONE", "DATA", "END_OF_DATA"}]
<1>t. TypeOK /\ inFlight \in Flights /\ Once(inFlight) /\ Bounded /\ Got(a) # Nothing
  BY FlightTypes DEF IInv, Flying, IsControl
<1>1. /\ Places'
      /\ eventBufs' \in [Sinks -> Seq(Tokens)] /\ completed' \in [Sinks -> Seq(Tokens)]
      /\ bufType' \in [Buffers -> {"NONE", "DATA", "END_OF_DATA"}]
  <2>1. HandleMessage \/ UNCHANGED <<completed, eventBufs, bufType>>
    BY DEF HandleControl
  <2> QED
    BY <2>1, MessageHandled
<1>2. PICK r \in {after, thrown} : agent' = [agent EXCEPT ![a] = r]
  BY DEF HandleControl
<1>3. r \in AgentStates /\ r.got = Nothing
  BY <1>2
<1>4. /\ agent' \in [Agents -> AgentStates] /\ agent'[a] = r
      /\ \A b \in Agents : b # a => agent'[b] = agent[b]
      /\ \A b \in Agents : agent'[b].got = Nothing
      /\ Hands' \subseteq {NULL}
  BY <1>t, <1>2, <1>3, HandsDown
<1>5. /\ Flying' /\ Known' /\ Bounded' /\ HeadDead' /\ inFlight' \in Flights
      /\ controlToken' \in ControlTokens \cup {NULL}
  <2>1. CASE inFlight' = inFlight /\ controlToken' \in {controlToken, NULL}
    <3>1. Flying' /\ Outstanding' \cap (Tokens \cup ControlTokens) \subseteq Outstanding
      BY <1>4, <2>1, CancelsOrNot
    <3>2. Known' /\ Bounded' /\ HeadDead'
      BY <2>1, <3>1, StillStep
    <3> QED
      BY <1>t, <2>1, <3>1, <3>2 DEF TypeOK
  <2>2. CASE SubmitControl(inFlight)
    <3>1. PICK f \in ControlTokens :
            /\ f \notin Outstanding \cup {controlToken}
            /\ controlToken' = f
            /\ inFlight' \in Flights /\ Once(inFlight)'
            /\ FlightTokens(inFlight)' = FlightTokens(inFlight) \cup {f}
      <4> DEFINE M == {}
      <4>1. M \subseteq Tokens /\ FlightTokens(inFlight) = FlightTokens(inFlight) \cup M
        OBVIOUS
      <4>2. \E f \in ControlTokens :
             /\ f \notin Outstanding \cup {controlToken} \cup M
             /\ controlToken' = f
             /\ inFlight' \in Flights /\ Once(inFlight)'
             /\ FlightTokens(inFlight)' = FlightTokens(inFlight) \cup M \cup {f}
        <5> HIDE DEF M
        <5> QED
          BY <1>t, <2>2, <4>1, ControlSubmitted
      <4> QED
        BY <4>2
    <3>2. PICK c : c = controlToken
      OBVIOUS
    <3>3. /\ c \in ControlTokens /\ c \in ControlsOut
          /\ c \notin FlightTokens(inFlight) \cup TokensIn(done)
      BY <1>t, <3>2, OneHand DEF IsControl, TypeOK, ControlsOut
    <3>4. Flying'
      <4>1. {f} \cap Outstanding = {} /\ NULL \notin {f}
        BY <3>1, NullAssumption
      <4> QED
        BY <1>4, <3>1, <4>1, NewFlights
    <3>5. Outstanding' \subseteq (Outstanding \ {c}) \cup {f} \cup {NULL}
      <4>1. TokensIn(done)' = TokensIn(done)
        OBVIOUS
      <4> QED
        BY <1>4, <3>1, <3>3, <4>1, OutstandingIs
    <3>6. Bounded'
      <4>1. ControlsOut' \subseteq (ControlsOut \ {c}) \cup {f}
        BY <3>1, <3>2, <3>5, NullAssumption DEF ControlsOut
      <4> QED
        BY <1>t, <3>3, <4>1, ControlReplaced
    <3>7. Known' /\ HeadDead'
      <4> DEFINE M == {}
      <4>1. PICK s \in Sinks : s = agent[a].sink
        BY <1>t, OneHand
      <4>2. /\ Outstanding' \cap Tokens \subseteq Outstanding \cup M
            /\ M \subseteq Range(pending[s])'
            /\ Range(pending[s]) = Range(pending[s])'
            /\ \A t \in M : t.no = attaches[s] /\ status[s] # "DETACHED"
        BY <3>5, TokensApart, NullAssumption
      <4>3. Range(queued[s])' \cup Range(pending[s])'
               \subseteq Range(queued[s]) \cup Range(pending[s]) \cup M
        OBVIOUS
      <4> HIDE DEF M
      <4> QED
        BY <4>1, <4>2, <4>3, FlowStep DEF Onward
    <3> QED
      BY <3>1, <3>4, <3>6, <3>7
  <2> QED
    BY <2>1, <2>2 DEF HandleControl
<1> QED
  BY <1>1, <1>2, <1>4, <1>5

\* Data, or an empty buffer.
LEMMA FillsBuffer ==
  ASSUME IInv, OneSink, NEW a \in Agents, agent[a].pc = "got", FillBuffer(a)
  PROVE  bufType' \in [Buffers -> {"NONE", "DATA", "END_OF_DATA"}]
<1> DEFINE type == IF Got(a).status = "SUCCESS" THEN "DATA" ELSE "NONE"
<1>1. bufType' = [bufType EXCEPT ![agent[a].buf.buf] = type]
  BY DEF FillBuffer
<1>2. type \in {"NONE", "DATA", "END_OF_DATA"}
  OBVIOUS
<1> HIDE DEF type
<1> QED
  BY <1>1, <1>2 DEF IInv, TypeOK

\* The data thread goes back to its queues, or ends.
LEMMA ThreadGoesOn ==
  ASSUME IInv, OneSink, NEW s \in Sinks, agent[s].pc = "got",
         NEW r \in {Thread(s, "run"), Thread(s, "exited")}, agent'[s] = r,
         \A b \in Agents : b # s => agent'[b] = agent[b],
         UNCHANGED <<status, dataThread>>
  PROVE  Phases'
<1>1. r.pc \in {"run", "exited"} /\ r.sink = s /\ r.got = Nothing
  BY DEF Thread, Idle
<1>2. /\ s \in Agents /\ s # CLIENT /\ CLIENT \in Agents
      /\ \A b \in Agents : b = s \/ b = CLIENT
      /\ \A b \in Sinks : b = s
  BY AgentsAre DEF OneSink
<1>3. dataThread = s /\ s # NULL
  BY AgentsAre DEF IInv, Phases, Working
<1>4. agent'[CLIENT] = agent[CLIENT] /\ agent[CLIENT].pc \notin {"usb", "got"}
  BY <1>2, <1>3 DEF IInv, Phases
<1>5. \A b \in Agents : agent'[b].pc \notin {"usb", "got"} /\ agent'[b].got = Nothing
  BY <1>1, <1>2, <1>4 DEF IInv, Phases
<1> QED
  BY <1>1, <1>2, <1>3, <1>4, <1>5 DEF IInv, Phases, Working

LEMMA DataThreadHandlesKeeps ==
  ASSUME IInv, OneSink, NEW s \in Sinks, DataThreadHandles(s)
  PROVE  IInv'
<1>t. /\ TypeOK /\ s \in Agents /\ agent[s].pc = "got" /\ agent[s].sink = s
      /\ UNCHANGED <<status, transportID, dataThread, attachedSink, holder, result,
                     attaches, done, controlMsg, stream>>
      /\ inFlight \in Flights /\ queued[s] \in Seq(Tokens)
  BY AgentsAre, FlightTypes DEF IInv, Phases, DataThreadHandles, TypeOK
<1>r. /\ Thread(s, "run") \in AgentStates /\ Thread(s, "run").got = Nothing
      /\ Thread(s, "exited") \in AgentStates /\ Thread(s, "exited").got = Nothing
  BY AgentRecords DEF Pcs
<1>1. CASE DataThreadReturnsBuffer(s)
  <2>1. PICK n \in 0 .. (IF status[s] = "ACTIVE" THEN Len(queued[s]) ELSE 0) :
          /\ \/ /\ status[s] = "ACTIVE" => SubmitsAll(s, queued[s], Tail(pending[s]), n)
                /\ completed' = [completed EXCEPT ![s] = Append(@, agent[s].buf)]
                /\ agent' = [agent EXCEPT ![s] = Thread(s, "run")]
             \/ /\ status[s] = "ACTIVE" /\ SubmitThrows(s, queued[s], Tail(pending[s]), n)
                /\ agent' = [agent EXCEPT ![s] = Thread(s, "exited")]
                /\ UNCHANGED completed
          /\ Submit(s, queued[s], Tail(pending[s]), Tail(dataTokens), n)
          /\ inFlight' = Submitted(s, queued[s], n)
    BY <1>1 DEF DataThreadReturnsBuffer
  <2>2. n \in 0 .. Len(queued[s]) /\ (status[s] = "ACTIVE" \/ n = 0)
    BY <1>t, <2>1
  <2>3. PICK r \in {Thread(s, "run"), Thread(s, "exited")} : agent' = [agent EXCEPT ![s] = r]
    BY <2>1
  <2>4. r \in AgentStates /\ r.got = Nothing
    BY <1>r, <2>3
  <2>5. \/ completed' = completed
        \/ completed' = [completed EXCEPT ![s] = Append(@, agent[s].buf)]
    BY <2>1
  <2>6. \/ n = 0 \/ SubmitsAll(s, queued[s], Tail(pending[s]), n)
        \/ SubmitThrows(s, queued[s], Tail(pending[s]), n)
    BY <2>1, <2>2
  <2>7. /\ Expected(s) /\ FillBuffer(s) /\ UNCHANGED <<eventBufs, controlToken>>
    BY <1>1 DEF DataThreadReturnsBuffer
  <2>8. /\ Places' /\ Flying' /\ Known' /\ Bounded' /\ HeadDead'
        /\ agent' \in [Agents -> AgentStates] /\ agent'[s] = r
        /\ \A b \in Agents : b # s => agent'[b] = agent[b]
        /\ inFlight' \in Flights
        /\ queued' \in [Sinks -> Seq(Tokens)] /\ pending' \in [Sinks -> Seq(Tokens)]
        /\ completed' \in [Sinks -> Seq(Tokens)] /\ dataTokens' \in Seq(Tokens)
    BY <1>t, <2>1, <2>2, <2>3, <2>4, <2>5, <2>6, <2>7, TakesPending
  <2>9. Phases'
    BY <1>t, <2>3, <2>8, ThreadGoesOn
  <2>10. bufType' \in [Buffers -> {"NONE", "DATA", "END_OF_DATA"}]
    BY <1>t, <2>7, FillsBuffer
  <2>11. TypeOK'
    BY <1>t, <2>7, <2>8, <2>10 DEF TypeOK, Flights, Transfers, AgentStates, Pcs
  <2> QED
    BY <2>8, <2>9, <2>11 DEF IInv
<1>2. CASE /\ IsControl(s)
           /\ HandleControl(s, Thread(s, "run"), Thread(s, "exited"))
           /\ UNCHANGED <<queued, pending, dataTokens>>
  <2>1. /\ Places' /\ Flying' /\ Known' /\ Bounded' /\ HeadDead'
        /\ \E r \in {Thread(s, "run"), Thread(s, "exited")} :
             /\ agent' = [agent EXCEPT ![s] = r] /\ agent'[s] = r
             /\ agent' \in [Agents -> AgentStates]
             /\ \A b \in Agents : b # s => agent'[b] = agent[b]
        /\ inFlight' \in Flights /\ controlToken' \in ControlTokens \cup {NULL}
        /\ eventBufs' \in [Sinks -> Seq(Tokens)] /\ completed' \in [Sinks -> Seq(Tokens)]
        /\ bufType' \in [Buffers -> {"NONE", "DATA", "END_OF_DATA"}]
    BY <1>t, <1>r, <1>2, HandleControlKeeps
  <2>2. Phases'
    BY <1>t, <2>1, ThreadGoesOn
  <2>3. TypeOK'
    BY <1>t, <1>2, <2>1 DEF TypeOK, Flights, Transfers, AgentStates, Pcs
  <2> QED
    BY <2>1, <2>2, <2>3 DEF IInv
<1>3. CASE /\ IsIgnored(s)
           /\ agent' = [agent EXCEPT ![s] = Thread(s, "run")]
           /\ UNCHANGED <<queued, pending, eventBufs, completed, dataTokens,
                          controlToken, bufType, inFlight>>
  <2>1. /\ agent' \in [Agents -> AgentStates] /\ inFlight' \in Flights
        /\ Places' /\ Flying' /\ Known' /\ Bounded' /\ HeadDead'
    BY <1>t, <1>r, <1>3, MovesKeep
  <2>2. /\ agent'[s] = Thread(s, "run")
        /\ \A b \in Agents : b # s => agent'[b] = agent[b]
    BY <1>t, <1>r, <1>3, AgentMoves
  <2>3. Phases'
    BY <1>t, <2>2, ThreadGoesOn
  <2>4. TypeOK'
    BY <1>t, <1>3, <2>1 DEF TypeOK, Flights, Transfers, AgentStates, Pcs
  <2> QED
    BY <2>1, <2>3, <2>4 DEF IInv
<1> QED
  BY <1>1, <1>2, <1>3 DEF DataThreadHandles

\* Detach goes on, waits for the next buffer of its sink s, or gives up.
LEMMA DetachGoesOn ==
  ASSUME IInv, OneSink, agent[CLIENT].pc = "got",
         NEW s \in Sinks, s = agent[CLIENT].sink, NEW r, agent'[CLIENT] = r,
         r.got = Nothing,
         \/ r.pc = "idle"
         \/ r.pc = "detachDevice" /\ r.sink = s
         \/ r.pc = "usb" /\ r.sink = s /\ pending'[s] # <<>> /\ r.buf = Head(pending'[s]),
         \A b \in Agents : b # CLIENT => agent'[b] = agent[b],
         UNCHANGED <<status, dataThread>>
  PROVE  Phases'
<1>1. /\ s \in Agents /\ s # CLIENT /\ CLIENT \in Agents /\ s # NULL
      /\ \A b \in Agents : b = s \/ b = CLIENT
      /\ \A b \in Sinks : b = s
  BY AgentsAre DEF OneSink
<1>2. dataThread = NULL /\ status[s] = "DETACHED"
  BY DEF IInv, Phases
<1>3. agent'[s] = agent[s] /\ agent[s].pc \notin Working
  BY <1>1, <1>2 DEF IInv, Phases
<1> QED
  BY <1>1, <1>2, <1>3 DEF IInv, Phases, Working

LEMMA DetachHandlesKeeps ==
  ASSUME IInv, OneSink, DetachHandles
  PROVE  IInv'
<1>1. PICK s \in Sinks : s = agent[CLIENT].sink /\ agent[CLIENT].pc = "got"
  BY DEF DetachHandles, IInv, Phases
<1> DEFINE leave == [Idle EXCEPT !.pc = "detachDevice", !.sink = s]
<1>t. /\ TypeOK /\ CLIENT \in Agents /\ result \in {"ok", "error"}
      /\ UNCHANGED <<status, queued, transportID, dataThread, attachedSink, holder,
                     attaches, done, controlMsg, stream>>
      /\ inFlight \in Flights /\ queued[s] \in Seq(Tokens) /\ pending[s] \in Seq(Tokens)
  BY AgentsAre, FlightTypes DEF IInv, Phases, DetachHandles, TypeOK
<1>r. /\ leave \in AgentStates /\ leave.got = Nothing /\ leave.pc = "detachDevice"
      /\ leave.sink = s
      /\ Idle \in AgentStates /\ Idle.got = Nothing /\ Idle.pc = "idle"
  <2>1. leave = Draining(s, <<>>) /\ leave.pc = "detachDevice" /\ <<>> \in Seq(Tokens)
    BY DEF Draining, Idle
  <2> HIDE DEF leave
  <2> QED
    BY <2>1, AgentRecords
<1>2. CASE /\ Expected(CLIENT)
           /\ FillBuffer(CLIENT)
           /\ dataTokens' = Tail(dataTokens)
           /\ pending' = [pending EXCEPT ![s] = Tail(@)]
           /\ agent' = [agent EXCEPT ![CLIENT] = Draining(s, Tail(pending[s]))]
           /\ UNCHANGED <<eventBufs, completed, controlToken, inFlight, result>>
  <2>1. /\ pending[s] # <<>> /\ dataTokens = pending[s]
    BY <1>1, <1>t, <1>2, ExpectedIs
  <2> HIDE DEF leave
  <2>2. PICK p \in Seq(Tokens) : p = Tail(pending[s])
    <3>1. pending[s] \in Seq(Tokens) /\ pending[s] # <<>>
      BY <1>t, <2>1
    <3> QED
      BY <3>1, TailDistinct
  <2>3. PICK r \in AgentStates :
          /\ r = Draining(s, p) /\ r.got = Nothing /\ r.sink = s
          /\ \/ r.pc = "usb" /\ p # <<>> /\ r.buf = Head(p)
             \/ r.pc = "detachDevice"
    BY AgentRecords
  <2>4. agent' = [agent EXCEPT ![CLIENT] = r]
    BY <1>2, <2>2, <2>3
  <2>5. /\ Submit(s, queued[s], Tail(pending[s]), Tail(dataTokens), 0)
        /\ inFlight' = Submitted(s, queued[s], 0)
        /\ 0 \in 0 .. Len(queued[s])
    <3>1. /\ SubSeq(queued[s], 0 + 1, Len(queued[s])) = queued[s]
          /\ p \o SubSeq(queued[s], 1, 0) = p
      BY <1>t, SubmitNone
    <3>2. queued' = [queued EXCEPT ![s] = queued[s]]
      BY <1>t DEF TypeOK
    <3>3. pending' = [pending EXCEPT ![s] = p] /\ dataTokens' = p
      BY <1>2, <2>1, <2>2
    <3>4. Submit(s, queued[s], p, p, 0)
      BY <3>1, <3>2, <3>3 DEF Submit
    <3>5. inFlight' = Submitted(s, queued[s], 0) /\ 0 \in 0 .. Len(queued[s])
      BY <1>2, <1>t DEF Submitted
    <3> QED
      BY <2>1, <2>2, <3>4, <3>5
  <2>6. /\ Places' /\ Flying' /\ Known' /\ Bounded' /\ HeadDead'
        /\ agent' \in [Agents -> AgentStates] /\ agent'[CLIENT] = r
        /\ \A b \in Agents : b # CLIENT => agent'[b] = agent[b]
        /\ inFlight' \in Flights
        /\ queued' \in [Sinks -> Seq(Tokens)] /\ pending' \in [Sinks -> Seq(Tokens)]
        /\ completed' \in [Sinks -> Seq(Tokens)] /\ dataTokens' \in Seq(Tokens)
    <3>1. PICK n \in 0 .. Len(queued[s]) :
            /\ n = 0
            /\ Submit(s, queued[s], Tail(pending[s]), Tail(dataTokens), n)
            /\ inFlight' = Submitted(s, queued[s], n)
      BY <2>5
    <3>2. /\ UNCHANGED <<status, attaches, holder, eventBufs, controlToken, done>>
          /\ completed' = completed
          /\ agent[CLIENT].sink = s /\ agent[CLIENT].pc = "got" /\ Expected(CLIENT)
          /\ CLIENT \in Agents
      BY <1>1, <1>t, <1>2
    <3> QED
      BY <2>3, <2>4, <3>1, <3>2, TakesPending
  <2>7. pending'[s] = p
    BY <1>t, <1>2, <2>2 DEF TypeOK
  <2>8. Phases'
    BY <1>1, <1>t, <2>3, <2>6, <2>7, DetachGoesOn
  <2>9. bufType' \in [Buffers -> {"NONE", "DATA", "END_OF_DATA"}]
    BY <1>1, <1>t, <1>2, FillsBuffer
  <2>10. TypeOK'
    BY <1>t, <1>2, <2>6, <2>9 DEF TypeOK, Flights, Transfers, AgentStates, Pcs
  <2> QED
    BY <2>6, <2>8, <2>10 DEF IInv
<1>3. CASE /\ IsControl(CLIENT)
           /\ HandleControl(CLIENT, leave, Idle)
           /\ result' = IF agent'[CLIENT] = Idle THEN "error" ELSE result
           /\ UNCHANGED <<pending, dataTokens>>
  <2> HIDE DEF leave
  <2>1. /\ Places' /\ Flying' /\ Known' /\ Bounded' /\ HeadDead'
        /\ \E r \in {leave, Idle} :
             /\ agent' = [agent EXCEPT ![CLIENT] = r] /\ agent'[CLIENT] = r
             /\ agent' \in [Agents -> AgentStates]
             /\ \A b \in Agents : b # CLIENT => agent'[b] = agent[b]
        /\ inFlight' \in Flights /\ controlToken' \in ControlTokens \cup {NULL}
        /\ eventBufs' \in [Sinks -> Seq(Tokens)] /\ completed' \in [Sinks -> Seq(Tokens)]
        /\ bufType' \in [Buffers -> {"NONE", "DATA", "END_OF_DATA"}]
    BY <1>1, <1>t, <1>r, <1>3, HandleControlKeeps
  <2>2. Phases'
    BY <1>1, <1>t, <1>r, <2>1, DetachGoesOn
  <2>3. result' \in {"ok", "error"}
    BY <1>t, <1>3
  <2>4. TypeOK'
    BY <1>t, <1>3, <2>1, <2>3 DEF TypeOK, Flights, Transfers, AgentStates, Pcs
  <2> QED
    BY <2>1, <2>2, <2>4 DEF IInv
<1>4. CASE /\ IsIgnored(CLIENT)
           /\ agent' = [agent EXCEPT ![CLIENT] = leave]
           /\ UNCHANGED <<pending, eventBufs, completed, dataTokens, controlToken,
                          bufType, inFlight, result>>
  <2> HIDE DEF leave
  <2>1. /\ agent' \in [Agents -> AgentStates] /\ inFlight' \in Flights
        /\ Places' /\ Flying' /\ Known' /\ Bounded' /\ HeadDead'
    BY <1>t, <1>r, <1>4, MovesKeep
  <2>2. /\ agent'[CLIENT] = leave
        /\ \A b \in Agents : b # CLIENT => agent'[b] = agent[b]
    BY <1>t, <1>r, <1>4, AgentMoves
  <2>3. Phases'
    BY <1>1, <1>t, <1>r, <2>2, DetachGoesOn
  <2>4. TypeOK'
    BY <1>t, <1>4, <2>1 DEF TypeOK, Flights, Transfers, AgentStates, Pcs
  <2> QED
    BY <2>1, <2>3, <2>4 DEF IInv
<1> QED
  BY <1>1, <1>2, <1>3, <1>4 DEF DetachHandles

-----------------------------------------------------------------------------
(* The theorems *)

LEMMA InitHolds == Init => IInv
<1> SUFFICES ASSUME Init PROVE IInv
  OBVIOUS
<1> DEFINE z == <<>>
<1>0. /\ z \in Seq(Tokens) /\ Range(z) = {} /\ \A S : DistinctIn(z, S)
      /\ z \in Seq(Completions) /\ z \in Seq(Transfers) /\ TokensIn(z) = {}
      /\ DistinctTokens(z) /\ DOMAIN z = {}
  <2>1. z \in Seq(Tokens) /\ z \in Seq(Completions) /\ z \in Seq(Transfers) /\ DOMAIN z = {}
    OBVIOUS
  <2> QED
    BY <2>1, EmptyQueue DEF TokensIn, DistinctTokens
<1>1. /\ queued = [s \in Sinks |-> z] /\ pending = [s \in Sinks |-> z]
      /\ eventBufs = [s \in Sinks |-> z] /\ completed = [s \in Sinks |-> z]
      /\ dataTokens = z /\ done = z /\ inFlight = [e \in Endpoints \cup {CONTROL} |-> z]
      /\ status = [s \in Sinks |-> "DETACHED"] /\ attaches = [s \in Sinks |-> 0]
      /\ agent = [a \in Agents |-> Idle] /\ controlToken = NULL /\ dataThread = NULL
  BY DEF Init
<1> HIDE DEF z
<1>2. Hands \subseteq {NULL}
  BY <1>1, AgentRecords DEF Hands, Nothing
<1>3. FlightTokens(inFlight) = {} /\ Once(inFlight) /\ inFlight \in Flights
  <2>1. \A e \in DOMAIN inFlight : TokensIn(inFlight[e]) = {}
    BY <1>0, <1>1
  <2>2. inFlight \in Flights
    BY <1>0, <1>1 DEF Flights
  <2>3. Once(inFlight)
    BY <1>0, <1>1, <2>1 DEF Once
  <2> QED
    BY <2>1, <2>2, <2>3, FlightTokensAre
<1>4. Outstanding \subseteq {NULL}
  BY <1>0, <1>1, <1>2, <1>3, OutstandingIs
<1>5. TypeOK
  <2>1. agent \in [Agents -> AgentStates]
    BY <1>1, AgentRecords
  <2>2. /\ transportID \in [Sinks -> Endpoints \cup {NULL}]
        /\ controlMsg \in [status : {"END_SESSION", "OTHER"}, sink : Sinks]
        /\ attachedSink \in [Endpoints -> Sinks \cup {NULL}]
        /\ holder \in [Buffers -> Agents \cup {NULL}]
        /\ bufType \in [Buffers -> {"NONE", "DATA", "END_OF_DATA"}]
        /\ result \in {"ok", "error"}
        /\ stream \in [Sinks -> {"detached", "attached", "started", "stopping"}]
    BY AgentsAre DEF Init
  <2>3. attaches \in [Sinks -> 0 .. MaxAttach]
    BY <1>1, TraceAssumption
  <2> QED
    BY <1>0, <1>1, <1>3, <2>1, <2>2, <2>3
    DEF TypeOK, Flights, Transfers, AgentStates, Pcs
<1>6. Places
  <2>1. Placed(z, z, z, z, 0, holder, FALSE)
    BY <1>0 DEF Placed, Apart, ApartIn, NotClients, Numbered
  <2> QED
    BY <1>1, <2>1 DEF Places
<1>7. Flying
  BY <1>0, <1>1, <1>3 DEF Flying
<1>8. Known
  BY <1>4, NullAssumption DEF Known
<1>9. Bounded
  <2>1. ControlsOut = {}
    BY <1>1, <1>4, NullAssumption DEF ControlsOut
  <2> QED
    BY <2>1, FS_EmptySet, TraceAssumption DEF Bounded
<1>10. HeadDead
  BY <1>1 DEF HeadDead
<1>11. Phases
  BY <1>1, AgentRecords, AgentsAre DEF Phases, Working
<1> QED
  BY <1>5, <1>6, <1>7, <1>8, <1>9, <1>10, <1>11 DEF IInv

LEMMA NothingHappens ==
  ASSUME IInv, UNCHANGED vars
  PROVE  IInv'
<1> USE DEF vars, library, client, usb
<1>1. TypeOK'
  BY DEF IInv, TypeOK
<1>2. FlightTokens(inFlight)' = FlightTokens(inFlight) /\ Hands' = Hands
  BY DEF FlightTokens, Hands
<1>3. Outstanding' = Outstanding
  BY <1>2, OutstandingIs
<1>4. Places' /\ Flying' /\ Known' /\ HeadDead'
  BY <1>2, <1>3 DEF IInv, Places, Flying, Once, Known, HeadDead, Dead
<1>5. Bounded'
  BY <1>3 DEF IInv, Bounded, ControlsOut
<1>6. Phases'
  BY DEF IInv, Phases
<1> QED
  BY <1>1, <1>4, <1>5, <1>6 DEF IInv

LEMMA StepKeeps ==
  ASSUME IInv, OneSink, [Next]_vars
  PROVE  IInv'
<1>1. ASSUME NEW s \in Sinks, Call(s)
      PROVE  IInv'
  BY <1>1, AttachKeeps, StartKeeps, StopKeeps, FlushKeeps, DetachKeeps, WaitForEventKeeps,
     SubmitEventBufferKeeps DEF Call
<1>2. ASSUME NEW s \in Sinks, DataThread(s)
      PROVE  IInv'
  BY <1>2, LooksKeeps, CompleteTransferKeeps, DataThreadHandlesKeeps, AgentsAre
  DEF DataThread, DataThreadCompletes
<1>3. CASE DetachContinues
  BY <1>3, JoinsKeeps, CompleteTransferKeeps, DetachHandlesKeeps, DetachDeviceKeeps,
     DiscardsKeeps, ReturnsKeeps, AgentsAre
  DEF DetachContinues, DetachCompletes
<1>4. CASE Device
  BY <1>4, DeviceKeeps
<1>5. CASE UNCHANGED vars
  BY <1>5, NothingHappens
<1> QED
  BY <1>1, <1>2, <1>3, <1>4, <1>5 DEF Next

\* Whatever the client of one sink calls, and whatever the device, its data
\* thread and the failures of USB do in between, the state stays one in which
\* every buffer is in one place and every transfer in one hand.
THEOREM InvariantHolds ==
  ASSUME OneSink
  PROVE  Spec => []IInv
<1>1. IInv /\ [Next]_vars => IInv'
  BY StepKeeps
<1> QED
  BY <1>1, InitHolds, PTL DEF Spec

\* Type correctness, in which the number that submitControlChannelRequest finds
\* for one more control transfer and the types a client sees are.
THEOREM TypesHold ==
  ASSUME OneSink
  PROVE  Spec => []TypeOK
<1>1. IInv => TypeOK
  BY DEF IInv
<1> QED
  BY <1>1, InvariantHolds, PTL

\* waitForBuffer accounts the data of a transfer to the buffer it was read into.
THEOREM DataIsInItsBuffer ==
  ASSUME OneSink
  PROVE  Spec => []DataGoesToItsBuffer
<1>1. IInv => DataGoesToItsBuffer
  BY InvariantImplies
<1> QED
  BY <1>1, InvariantHolds, PTL

\* When completeTransfer returns a transfer, m_dataTransferTokens is not empty,
\* nor pendingBuffers when the transfer is the one expected.
THEOREM QueuesAreNotEmpty ==
  ASSUME OneSink
  PROVE  Spec => []NoEmptyQueueTaken
<1>1. IInv => NoEmptyQueueTaken
  BY InvariantImplies
<1> QED
  BY <1>1, InvariantHolds, PTL

\* No transfer is under way into a buffer that WaitForEvent or Detach gave back.
THEOREM ClientsBuffersAreIdle ==
  ASSUME OneSink
  PROVE  Spec => []OwnedNotInFlight
<1>1. IInv => OwnedNotInFlight
  BY InvariantImplies
<1> QED
  BY <1>1, InvariantHolds, PTL

\* Detach does not return before the data thread ended, also when it throws.
THEOREM DetachEndsTheThread ==
  ASSUME OneSink
  PROVE  Spec => []DetachedHasNoThread
<1>1. IInv => DetachedHasNoThread
  BY InvariantImplies
<1> QED
  BY <1>1, InvariantHolds, PTL
=============================================================================
