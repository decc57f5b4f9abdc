--------------------------- MODULE UsbDeviceProofs ---------------------------
(***************************************************************************)
(* Theorems about the USB devices, on Linux and on Windows, for every      *)
(* number of endpoints, transfers and threads.                             *)
(***************************************************************************)
EXTENDS MCUsbDevice, SequenceTheorems, FiniteSetTheorems, TLAPS

\* One thread calls completeTransfer, as in both users of the class.
OneCompleter == \A c, d \in Completers : c = d

\* Windows with several of them is left out of what is said of the driver.
OwnWaits == platform = "Linux" \/ OneCompleter

Distinct(ts)  == \A i, j \in DOMAIN ts : ts[i] = ts[j] => i = j
Ascending(ts) == \A i, j \in DOMAIN ts : i < j => ts[i] < ts[j]

Queued == ToSet(queued)
Done   == {completed[i].token : i \in DOMAIN completed}

-----------------------------------------------------------------------------
(* The inductive invariant, in parts *)

\* No token is in a list twice.
Once ==
  /\ Distinct(driver) /\ Distinct(queued)
  /\ \A e \in Endpoints : Distinct(inFlight[e])

\* Tokens wait in the order of their submission, and nothing is submitted past
\* those that are queued.
InOrder ==
  /\ platform = "Windows" => \A e \in Endpoints : Ascending(inFlight[e])
  /\ platform = "Linux" /\ ~ResubmitsFail =>
       /\ Ascending(driver) /\ Ascending(queued)
       /\ \A t \in InDriver, u \in Queued : t < u
       /\ queued # <<>> => MAX_IN_FLIGHT <= Len(inFlight[oneEndpoint])

\* A transfer that is owed is in one place.
Apart ==
  /\ \A e \in Endpoints : \A t \in HeldAt(e) : endpointOf[t] = e /\ t \in Owed
  /\ Queued \subseteq Owed /\ Done \subseteq Owed
  /\ Queued \cap Done = {}
  /\ \A e \in Endpoints : HeldAt(e) \cap (Queued \cup Done) = {}
  /\ \A i, j \in DOMAIN completed : completed[i].token = completed[j].token => i = j

\* What the driver has is in flight, on Linux what is in flight the driver has.
DriverHolds ==
  /\ \A t \in InDriver : endpointOf[t] \in Endpoints
  /\ OwnWaits => \A t \in InDriver : t \in HeldAt(endpointOf[t])
  /\ platform = "Linux" => \A e \in Endpoints : HeldAt(e) \subseteq InDriver

\* Tokens count up.
Numbered ==
  \A t \in Token :
    endpointOf[t] # NULL \/ t \in ReturnedTokens \/ event[t] # "unset" => t < nextToken

\* Only a client that uses one endpoint has transfers queued.
Discipline ==
  /\ queued # <<>> => oneEndpoint # NULL
  /\ oneEndpoint # NULL => \A t \in Token : endpointOf[t] \in {NULL, oneEndpoint}

\* On Windows a transfer is returned from where it is in flight, and what the
\* waiting thread looks at is still the oldest of its endpoint.
Windows ==
  platform = "Windows" =>
    /\ queued = <<>> /\ completed = <<>>
    /\ \A t \in InDriver : event[t] = "unset"
    /\ \A c \in Completers : caller[c].at = "waiting" =>
         \A w \in caller[c].watch :
           /\ endpointOf[w] \in Endpoints
           /\ OneCompleter =>
                inFlight[endpointOf[w]] # <<>> /\ w = inFlight[endpointOf[w]][1]

\* The counter of transfers in flight.
Counted ==
  /\ platform = "Linux" => numInFlight = Len(driver)
  /\ platform = "Windows" => numInFlight = Cardinality(Owed)
  /\ platform = "Linux" /\ ~ResubmitsFail =>
       Len(queued) + Len(driver) + Len(completed) = Cardinality(Owed)

PlaceInv ==
  Once /\ InOrder /\ Apart /\ DriverHolds /\ Numbered /\ Discipline /\ Windows /\ Counted

\* A transfer that succeeded and is not returned yet is the oldest of its
\* endpoint but for those that will be returned before it.
OldestFirst ==
  ~ResubmitsFail => \A e \in Endpoints, i \in DOMAIN completed :
    completed[i].status = "SUCCESS" /\ endpointOf[completed[i].token] = e =>
      \A u \in Held(e) :
        completed[i].token <= u \/ \E j \in 1 .. i - 1 : completed[j].token = u

-----------------------------------------------------------------------------
(* Sequences of tokens in ascending order *)

LEMMA TokensAreInts == (\A t \in Token : t \in Nat) /\ IsFiniteSet(Token)
<1>1. IsFiniteSet(0 .. MaxTokens - 1)
  <2>1. 0 \in Int /\ MaxTokens - 1 \in Int
    BY UsbAssumption
  <2> QED
    BY <2>1, FS_Interval
<1> QED
  BY <1>1, UsbAssumption DEF Token

\* A token later than all others is put behind them.
LEMMA AppendLater ==
  ASSUME NEW s \in Seq(Token), Distinct(s), NEW x \in Token, \A u \in ToSet(s) : u < x
  PROVE  /\ Append(s, x) \in Seq(Token) /\ Len(Append(s, x)) = Len(s) + 1
         /\ Distinct(Append(s, x)) /\ (Ascending(s) => Ascending(Append(s, x)))
         /\ ToSet(Append(s, x)) = ToSet(s) \cup {x}
<1> DEFINE new == Append(s, x)
           n   == Len(s)
<1>1. /\ new \in Seq(Token) /\ Len(new) = n + 1 /\ n \in Nat
      /\ \A i \in 1 .. n : new[i] = s[i]
      /\ new[n + 1] = x
  BY AppendProperties
<1>2. DOMAIN new = 1 .. n + 1 /\ DOMAIN s = 1 .. n /\ \A i \in 1 .. n : s[i] \in Token
  BY <1>1
<1> HIDE DEF new, n
<1>5. Distinct(new)
  <2>1. SUFFICES ASSUME NEW i \in 1 .. n + 1, NEW j \in 1 .. n + 1, new[i] = new[j]
                 PROVE  i = j
    BY <1>2 DEF Distinct
  <2>2. ASSUME NEW k \in 1 .. n
        PROVE  new[k] # x
    <3>1. s[k] \in ToSet(s) /\ s[k] \in Token
      BY <1>2 DEF ToSet
    <3> QED
      BY <1>1, <3>1, TokensAreInts
  <2>3. \A k \in 1 .. n + 1 : k \in 1 .. n \/ k = n + 1
    BY <1>1
  <2>4. CASE i \in 1 .. n /\ j \in 1 .. n
    BY <1>1, <1>2, <2>1, <2>4 DEF Distinct
  <2> QED
    BY <1>1, <2>1, <2>2, <2>3, <2>4
<1>3. ASSUME Ascending(s)
      PROVE  Ascending(new)
  <2>1. SUFFICES ASSUME NEW i \in 1 .. n + 1, NEW j \in 1 .. n + 1, i < j
                 PROVE  new[i] < new[j]
    BY <1>2 DEF Ascending
  <2>2. i \in 1 .. n /\ new[i] = s[i]
    BY <1>1, <2>1
  <2>3. CASE j = n + 1
    BY <1>1, <1>2, <2>2, <2>3 DEF ToSet
  <2>4. CASE j # n + 1
    <3>1. j \in 1 .. n
      BY <1>1, <2>4
    <3> QED
      BY <1>1, <1>2, <1>3, <2>1, <2>2, <3>1 DEF Ascending
  <2> QED
    BY <2>3, <2>4
<1>4. ToSet(new) = ToSet(s) \cup {x}
  <2>1. \A i \in 1 .. n + 1 : i \in 1 .. n \/ i = n + 1
    BY <1>1
  <2>2. \A i \in 1 .. n : i \in 1 .. n + 1
    BY <1>1
  <2>3. n + 1 \in 1 .. n + 1
    BY <1>1
  <2> QED
    BY <1>1, <1>2, <2>1, <2>2, <2>3 DEF ToSet
<1> QED
  BY <1>1, <1>3, <1>4, <1>5 DEF new, n

\* The entry for t is erased and the others stay in order.
LEMMA WithoutOne ==
  ASSUME NEW s \in Seq(Token), Distinct(s), NEW t \in ToSet(s)
  PROVE  /\ Without(s, t) \in Seq(Token) /\ Len(Without(s, t)) = Len(s) - 1
         /\ Len(s) \in Nat \ {0}
         /\ Distinct(Without(s, t)) /\ (Ascending(s) => Ascending(Without(s, t)))
         /\ ToSet(Without(s, t)) = ToSet(s) \ {t}
<1> DEFINE n   == Len(s)
           p   == CHOOSE i \in DOMAIN s : s[i] = t
           a   == SubSeq(s, 1, p - 1)
           b   == SubSeq(s, p + 1, n)
           new == a \o b
<1>1. n \in Nat /\ DOMAIN s = 1 .. n /\ \A i \in 1 .. n : s[i] \in Token
  OBVIOUS
<1>2. p \in 1 .. n /\ s[p] = t
  BY <1>1 DEF ToSet
<1>3. Without(s, t) = new
  BY DEF Without, RemoveAt
<1> HIDE DEF n, p
<1>4. /\ a \in Seq(Token) /\ Len(a) = p - 1
      /\ \A i \in 1 .. p - 1 : a[i] = s[i]
  <2>1. 1 \in Int /\ p - 1 \in Int /\ \A i \in 1 .. p - 1 : s[i] \in Token
    BY <1>1, <1>2
  <2>2. /\ a \in Seq(Token) /\ Len(a) = IF 1 <= p - 1 THEN p - 1 - 1 + 1 ELSE 0
        /\ \A i \in 1 .. p - 1 - 1 + 1 : a[i] = s[1 + i - 1]
    BY <2>1, SubSeqProperties
  <2> HIDE DEF a
  <2> QED
    BY <1>2, <2>2
<1>5. /\ b \in Seq(Token) /\ Len(b) = n - p
      /\ \A i \in 1 .. n - p : b[i] = s[p + i]
  <2>1. p + 1 \in Int /\ n \in Int /\ \A i \in p + 1 .. n : s[i] \in Token
    BY <1>1, <1>2
  <2>2. /\ b \in Seq(Token) /\ Len(b) = IF p + 1 <= n THEN n - (p + 1) + 1 ELSE 0
        /\ \A i \in 1 .. n - (p + 1) + 1 : b[i] = s[p + 1 + i - 1]
    BY <2>1, SubSeqProperties
  <2> HIDE DEF b
  <2> QED
    BY <1>1, <1>2, <2>2
<1> HIDE DEF a, b
<1>6. /\ new \in Seq(Token) /\ Len(new) = p - 1 + (n - p)
      /\ \A i \in 1 .. p - 1 + (n - p) : new[i] = IF i <= p - 1 THEN a[i] ELSE b[i - (p - 1)]
  <2>1. a \in Seq(Token) /\ b \in Seq(Token)
    BY <1>4, <1>5
  <2>2. /\ new \in Seq(Token) /\ Len(new) = Len(a) + Len(b)
        /\ \A i \in 1 .. Len(a) + Len(b) :
             new[i] = IF i <= Len(a) THEN a[i] ELSE b[i - Len(a)]
    BY <2>1, ConcatProperties
  <2> HIDE DEF new
  <2> QED
    BY <1>4, <1>5, <2>2
<1> HIDE DEF new
<1>7. /\ Len(new) = n - 1 /\ DOMAIN new = 1 .. n - 1
      /\ \A i \in 1 .. n - 1 : new[i] = IF i < p THEN s[i] ELSE s[i + 1]
  <2>1. Len(new) = n - 1
    BY <1>1, <1>2, <1>6
  <2>2. DOMAIN new = 1 .. n - 1
    BY <1>6, <2>1
  <2>3. ASSUME NEW i \in 1 .. n - 1
        PROVE  new[i] = IF i < p THEN s[i] ELSE s[i + 1]
    <3>1. new[i] = IF i <= p - 1 THEN a[i] ELSE b[i - (p - 1)]
      BY <1>1, <1>2, <1>6
    <3>2. CASE i < p
      <4>1. i \in 1 .. p - 1 /\ i <= p - 1
        BY <1>2, <3>2
      <4> QED
        BY <1>4, <3>1, <3>2, <4>1
    <3>3. CASE ~(i < p)
      <4>1. ~(i <= p - 1) /\ i - (p - 1) \in 1 .. n - p /\ p + (i - (p - 1)) = i + 1
        BY <1>1, <1>2, <3>3
      <4> QED
        BY <1>5, <3>1, <3>3, <4>1
    <3> QED
      BY <3>2, <3>3
  <2> QED
    BY <2>1, <2>2, <2>3
<1>11. Distinct(new)
  <2>1. SUFFICES ASSUME NEW i \in 1 .. n - 1, NEW j \in 1 .. n - 1, new[i] = new[j]
                 PROVE  i = j
    BY <1>7 DEF Distinct
  <2>2. \A k, l \in 1 .. n : s[k] = s[l] => k = l
    BY <1>1 DEF Distinct
  <2>3. PICK k \in 1 .. n, l \in 1 .. n : /\ k = (IF i < p THEN i ELSE i + 1)
                                         /\ l = (IF j < p THEN j ELSE j + 1)
    BY <1>1
  <2>4. new[i] = s[k] /\ new[j] = s[l]
    BY <1>7, <2>3
  <2>5. k = l
    BY <2>1, <2>2, <2>4
  <2> QED
    BY <1>2, <2>3, <2>5
<1>8. ASSUME Ascending(s)
      PROVE  Ascending(new)
  <2>1. SUFFICES ASSUME NEW i \in 1 .. n - 1, NEW j \in 1 .. n - 1, i < j
                 PROVE  new[i] < new[j]
    BY <1>7 DEF Ascending
  <2>2. \A k, l \in 1 .. n : k < l => s[k] < s[l]
    BY <1>1, <1>8 DEF Ascending
  <2>3. i \in 1 .. n /\ j \in 1 .. n /\ i + 1 \in 1 .. n /\ j + 1 \in 1 .. n
    BY <1>1
  <2>4. new[i] = (IF i < p THEN s[i] ELSE s[i + 1]) /\ new[j] = IF j < p THEN s[j] ELSE s[j + 1]
    BY <1>7
  <2> QED
    BY <1>2, <2>1, <2>2, <2>3, <2>4
<1>9. ToSet(new) = ToSet(s) \ {t}
  <2>1. ASSUME NEW i \in 1 .. n - 1
        PROVE  new[i] \in ToSet(s) /\ new[i] # t
    <3>1. \A k, l \in 1 .. n : s[k] = s[l] => k = l
      BY <1>1 DEF Distinct
    <3>3. i \in 1 .. n /\ i + 1 \in 1 .. n
      BY <1>1
    <3>4. new[i] = IF i < p THEN s[i] ELSE s[i + 1]
      BY <1>7
    <3>5. new[i] # s[p]
      BY <1>2, <3>1, <3>3, <3>4
    <3> QED
      BY <1>1, <1>2, <3>3, <3>4, <3>5 DEF ToSet
  <2>2. ASSUME NEW k \in 1 .. n, s[k] # t
        PROVE  s[k] \in ToSet(new)
    <3>1. CASE k < p
      <4>1. k \in 1 .. n - 1
        BY <1>1, <1>2, <3>1
      <4> QED
        BY <1>7, <3>1, <4>1 DEF ToSet
    <3>2. CASE k > p
      <4>1. k - 1 \in 1 .. n - 1 /\ ~(k - 1 < p) /\ k - 1 + 1 = k
        BY <1>1, <1>2, <3>2
      <4> QED
        BY <1>7, <3>2, <4>1 DEF ToSet
    <3> QED
      BY <1>2, <2>2, <3>1, <3>2
  <2> QED
    BY <1>1, <1>7, <2>1, <2>2 DEF ToSet
<1>10. n # 0
  BY <1>1, <1>2
<1> QED
  BY <1>1, <1>3, <1>6, <1>7, <1>8, <1>9, <1>10, <1>11 DEF n

\* Later tokens are put behind earlier ones.
LEMMA ConcatLater ==
  ASSUME NEW a \in Seq(Token), NEW b \in Seq(Token), Distinct(a), Distinct(b),
         ToSet(a) \cap ToSet(b) = {}
  PROVE  /\ a \o b \in Seq(Token) /\ Len(a \o b) = Len(a) + Len(b)
         /\ Distinct(a \o b)
         /\ Ascending(a) /\ Ascending(b) /\ (\A t \in ToSet(a), u \in ToSet(b) : t < u) =>
              Ascending(a \o b)
         /\ ToSet(a \o b) = ToSet(a) \cup ToSet(b)
<1> DEFINE m   == Len(a)
           n   == Len(b)
           new == a \o b
<1>1. /\ new \in Seq(Token) /\ Len(new) = m + n
      /\ \A i \in 1 .. m + n : new[i] = IF i <= m THEN a[i] ELSE b[i - m]
  BY ConcatProperties
<1>2. m \in Nat /\ n \in Nat /\ DOMAIN a = 1 .. m /\ DOMAIN b = 1 .. n
  OBVIOUS
<1>3. DOMAIN new = 1 .. m + n
  BY <1>1
<1> HIDE DEF new, m, n
<1>6. Distinct(new)
  <2>1. SUFFICES ASSUME NEW i \in 1 .. m + n, NEW j \in 1 .. m + n, i < j
                 PROVE  new[i] # new[j]
    BY <1>2, <1>3 DEF Distinct
  <2>2. CASE j <= m
    <3>1. i \in 1 .. m /\ j \in 1 .. m /\ i <= m
      BY <1>2, <2>1, <2>2
    <3>2. a[i] # a[j]
      BY <1>2, <2>1, <3>1 DEF Distinct
    <3> QED
      BY <1>1, <2>2, <3>1, <3>2
  <2>3. CASE i <= m /\ ~(j <= m)
    <3>1. i \in 1 .. m /\ j - m \in 1 .. n
      BY <1>2, <2>1, <2>3
    <3>2. a[i] \in ToSet(a) /\ b[j - m] \in ToSet(b)
      BY <1>2, <3>1 DEF ToSet
    <3> QED
      BY <1>1, <2>3, <3>2
  <2>4. CASE ~(i <= m)
    <3>1. i - m \in 1 .. n /\ j - m \in 1 .. n /\ i - m # j - m /\ ~(j <= m)
      BY <1>2, <2>1, <2>4
    <3>2. b[i - m] # b[j - m]
      BY <1>2, <3>1 DEF Distinct
    <3> QED
      BY <1>1, <2>4, <3>1, <3>2
  <2> QED
    BY <1>2, <2>2, <2>3, <2>4
<1>4. ASSUME Ascending(a), Ascending(b), \A t \in ToSet(a), u \in ToSet(b) : t < u
      PROVE  Ascending(new)
  <2>1. SUFFICES ASSUME NEW i \in 1 .. m + n, NEW j \in 1 .. m + n, i < j
                 PROVE  new[i] < new[j]
    BY <1>3 DEF Ascending
  <2>2. CASE j <= m
    <3>1. i \in 1 .. m /\ j \in 1 .. m /\ i <= m
      BY <1>2, <2>1, <2>2
    <3> QED
      BY <1>1, <1>2, <1>4, <2>1, <2>2, <3>1 DEF Ascending
  <2>3. CASE i <= m /\ ~(j <= m)
    <3>1. i \in 1 .. m /\ j - m \in 1 .. n
      BY <1>2, <2>1, <2>3
    <3>2. a[i] \in ToSet(a) /\ b[j - m] \in ToSet(b)
      BY <1>2, <3>1 DEF ToSet
    <3> QED
      BY <1>1, <1>4, <2>3, <3>2
  <2>4. CASE ~(i <= m)
    <3>1. i - m \in 1 .. n /\ j - m \in 1 .. n /\ i - m < j - m /\ ~(j <= m)
      BY <1>2, <2>1, <2>4
    <3>2. b[i - m] < b[j - m]
      BY <1>2, <1>4, <3>1 DEF Ascending
    <3> QED
      BY <1>1, <2>4, <3>1, <3>2
  <2> QED
    BY <1>2, <2>2, <2>3, <2>4
<1>5. ToSet(new) = ToSet(a) \cup ToSet(b)
  <2>1. ASSUME NEW i \in 1 .. m + n
        PROVE  new[i] \in ToSet(a) \cup ToSet(b)
    <3>1. CASE i <= m
      <4>1. i \in 1 .. m
        BY <1>2, <3>1
      <4> QED
        BY <1>1, <1>2, <3>1, <4>1 DEF ToSet
    <3>2. CASE ~(i <= m)
      <4>1. i - m \in 1 .. n
        BY <1>2, <3>2
      <4> QED
        BY <1>1, <1>2, <3>2, <4>1 DEF ToSet
    <3> QED
      BY <3>1, <3>2
  <2>2. ASSUME NEW i \in 1 .. m
        PROVE  a[i] \in ToSet(new)
    <3>1. i \in 1 .. m + n /\ i <= m
      BY <1>2
    <3> QED
      BY <1>1, <1>3, <3>1 DEF ToSet
  <2>3. ASSUME NEW i \in 1 .. n
        PROVE  b[i] \in ToSet(new)
    <3>1. PICK k \in 1 .. m + n : k = i + m
      BY <1>2
    <3>2. ~(k <= m) /\ k - m = i
      BY <1>2, <3>1
    <3>3. new[k] = IF k <= m THEN a[k] ELSE b[k - m]
      BY <1>1
    <3>4. new[k] = b[i]
      BY <3>2, <3>3
    <3> QED
      BY <1>3, <3>4 DEF ToSet
  <2> QED
    BY <1>2, <1>3, <2>1, <2>2, <2>3 DEF ToSet
<1> QED
  BY <1>1, <1>4, <1>5, <1>6 DEF new, m, n

\* A part of a sequence is in order too.
LEMMA PartOf ==
  ASSUME NEW s \in Seq(Token), Distinct(s), NEW m \in Nat \ {0}, NEW n \in Nat,
         n <= Len(s), m <= n + 1
  PROVE  LET part == SubSeq(s, m, n)
         IN  /\ part \in Seq(Token) /\ Len(part) = n - m + 1 /\ DOMAIN part = 1 .. n - m + 1
             /\ Distinct(part) /\ (Ascending(s) => Ascending(part))
             /\ \A i \in 1 .. n - m + 1 : part[i] = s[m + i - 1]
             /\ ToSet(part) = {s[i] : i \in m .. n}
<1> DEFINE part == SubSeq(s, m, n)
<1>1. Len(s) \in Nat /\ DOMAIN s = 1 .. Len(s) /\ \A i \in m .. n : i \in 1 .. Len(s)
  OBVIOUS
<1>2. /\ part \in Seq(Token) /\ Len(part) = IF m <= n THEN n - m + 1 ELSE 0
      /\ \A i \in 1 .. n - m + 1 : part[i] = s[m + i - 1]
  <2>1. m \in Int /\ n \in Int /\ \A i \in m .. n : s[i] \in Token
    BY <1>1
  <2> QED
    BY <2>1, SubSeqProperties
<1> HIDE DEF part
<1>3. Len(part) = n - m + 1
  BY <1>2
<1>4. DOMAIN part = 1 .. n - m + 1
  BY <1>2, <1>3
<1>7. Distinct(part)
  <2>1. SUFFICES ASSUME NEW i \in 1 .. n - m + 1, NEW j \in 1 .. n - m + 1, part[i] = part[j]
                 PROVE  i = j
    BY <1>4 DEF Distinct
  <2>2. m + i - 1 \in 1 .. Len(s) /\ m + j - 1 \in 1 .. Len(s)
    BY <1>1, <2>1
  <2>3. s[m + i - 1] = s[m + j - 1]
    BY <1>2, <2>1
  <2>4. m + i - 1 = m + j - 1
    BY <1>1, <2>2, <2>3 DEF Distinct
  <2> QED
    BY <2>4
<1>5. ASSUME Ascending(s)
      PROVE  Ascending(part)
  <2>1. SUFFICES ASSUME NEW i \in 1 .. n - m + 1, NEW j \in 1 .. n - m + 1, i < j
                 PROVE  part[i] < part[j]
    BY <1>4 DEF Ascending
  <2>2. m + i - 1 \in 1 .. Len(s) /\ m + j - 1 \in 1 .. Len(s) /\ m + i - 1 < m + j - 1
    BY <1>1, <2>1
  <2> QED
    BY <1>1, <1>2, <1>5, <2>2 DEF Ascending
<1>6. ToSet(part) = {s[i] : i \in m .. n}
  <2>1. \A i \in 1 .. n - m + 1 : m + i - 1 \in m .. n
    OBVIOUS
  <2>2. \A i \in m .. n : i - m + 1 \in 1 .. n - m + 1 /\ m + (i - m + 1) - 1 = i
    OBVIOUS
  <2>3. \A i \in m .. n : s[i] = part[i - m + 1]
    BY <1>2, <2>2
  <2>4. \A i \in 1 .. n - m + 1 : part[i] \in {s[j] : j \in m .. n}
    BY <1>2, <2>1
  <2>5. \A i \in m .. n : s[i] \in {part[j] : j \in 1 .. n - m + 1}
    BY <2>2, <2>3
  <2>6. ToSet(part) = {part[j] : j \in 1 .. n - m + 1}
    BY <1>4 DEF ToSet
  <2> QED
    BY <2>4, <2>5, <2>6
<1> QED
  BY <1>2, <1>3, <1>4, <1>5, <1>6, <1>7 DEF part

-----------------------------------------------------------------------------
(* What a state is made of *)

LEMMA Typed ==
  ASSUME UsbTypeOK
  PROVE  /\ platform \in {"Linux", "Windows"}
         /\ nextToken \in Nat /\ nextToken <= MaxTokens /\ MaxTokens \in Nat
         /\ endpointOf \in [Token -> Endpoints \cup {NULL}]
         /\ inFlight \in [Endpoints -> Seq(Token)]
         /\ driver \in Seq(Token) /\ queued \in Seq(Token)
         /\ completed \in Seq(Answer) /\ returned \in Seq(Answer)
         /\ numInFlight \in Nat
         /\ event \in [Token -> Statuses \cup {"unset"}]
         /\ caller \in [Completers -> [at : {"idle", "waiting"}, watch : SUBSET Token]]
BY UsbAssumption DEF UsbTypeOK, CommonTypeOK, LinuxTypeOK, WindowsTypeOK

LEMMA Sets ==
  ASSUME UsbTypeOK
  PROVE  /\ Owed \subseteq Token /\ IsFiniteSet(Owed) /\ Cardinality(Owed) \in Nat
         /\ Owed = {t \in Token : endpointOf[t] # NULL} \ ReturnedTokens
         /\ ReturnedTokens \subseteq Token /\ Done \subseteq Token
         /\ InDriver \subseteq Token /\ Queued \subseteq Token
         /\ \A e \in Endpoints : HeldAt(e) \subseteq Token
<1>1. Owed \subseteq Token
  BY DEF Owed
<1>2. IsFiniteSet(Owed)
  BY <1>1, TokensAreInts, FS_Subset
<1>3. Cardinality(Owed) \in Nat
  BY <1>2, FS_CardinalityType
<1>4. ReturnedTokens \subseteq Token /\ Done \subseteq Token
  <2>1. \A i \in DOMAIN returned : returned[i] \in Answer
    BY Typed
  <2>2. \A i \in DOMAIN completed : completed[i] \in Answer
    BY Typed
  <2> QED
    BY <2>1, <2>2 DEF ReturnedTokens, Done, Answer
<1>5. InDriver \subseteq Token /\ Queued \subseteq Token
  BY Typed DEF InDriver, Queued, ToSet
<1>6. ASSUME NEW e \in Endpoints
      PROVE  HeldAt(e) \subseteq Token
  <2>1. inFlight[e] \in Seq(Token)
    BY Typed
  <2> QED
    BY <2>1 DEF HeldAt, ToSet
<1> QED
  BY <1>1, <1>2, <1>3, <1>4, <1>5, <1>6 DEF Owed

\* The next token is new everywhere.
LEMMA NextIsNew ==
  ASSUME UsbTypeOK, Numbered, DriverHolds, nextToken \in Token
  PROVE  /\ endpointOf[nextToken] = NULL /\ nextToken \notin ReturnedTokens
         /\ nextToken \notin Owed /\ nextToken \notin InDriver /\ event[nextToken] = "unset"
         /\ \A t \in Owed \cup InDriver \cup ReturnedTokens : t < nextToken
<1>1. ~(nextToken < nextToken)
  BY Typed
<1>2. /\ endpointOf[nextToken] = NULL /\ nextToken \notin ReturnedTokens
      /\ event[nextToken] = "unset"
  BY <1>1 DEF Numbered
<1>3. \A t \in Owed : t < nextToken
  BY Sets DEF Numbered, Owed
<1>4. ASSUME NEW t \in InDriver
      PROVE  t < nextToken
  <2>1. t \in Token /\ endpointOf[t] # NULL
    BY Sets, UsbAssumption DEF DriverHolds
  <2> QED
    BY <2>1 DEF Numbered
<1>5. \A t \in ReturnedTokens : t < nextToken
  BY Sets DEF Numbered
<1> QED
  BY <1>1, <1>2, <1>3, <1>4, <1>5

-----------------------------------------------------------------------------
(* Each kind of step keeps the invariant *)

\* Where tokens are is not changed; a thread may begin to wait.
LEMMA QuietStep ==
  ASSUME UsbTypeOK, PlaceInv,
         UNCHANGED <<platform, nextToken, endpointOf, inFlight, numInFlight, completed,
                     returned, driver, queued, event, oneEndpoint>>,
         \A c \in Completers : caller'[c].at = "waiting" =>
           caller'[c] = caller[c] \/ (platform = "Windows" => caller'[c].watch = Oldest)
  PROVE  PlaceInv'
<1>1. Once' /\ InOrder'
  BY DEF PlaceInv, Once, InOrder, InDriver, Queued, HeldAt
<1>2. Apart' /\ DriverHolds'
  BY DEF PlaceInv, Apart, DriverHolds, OwnWaits, InDriver, Queued, Done, HeldAt, Owed,
         ReturnedTokens
<1>3. Numbered' /\ Discipline'
  BY DEF PlaceInv, Numbered, Discipline, ReturnedTokens
<1>4. Windows'
  <2>1. SUFFICES ASSUME platform = "Windows" PROVE Windows'
    BY DEF Windows
  <2>2. ASSUME NEW w \in Oldest
        PROVE  /\ endpointOf[w] \in Endpoints /\ inFlight[endpointOf[w]] # <<>>
               /\ w = inFlight[endpointOf[w]][1]
    <3>1. PICK e \in Endpoints : inFlight[e] # <<>> /\ w = inFlight[e][1]
      BY DEF Oldest
    <3>2. inFlight[e] \in Seq(Token)
      BY Typed
    <3>3. w \in HeldAt(e)
      BY <3>1, <3>2 DEF HeldAt, ToSet
    <3>4. endpointOf[w] = e
      BY <3>3 DEF PlaceInv, Apart
    <3> QED
      BY <3>1, <3>4
  <2> QED
    BY <2>1, <2>2 DEF PlaceInv, Windows, InDriver
<1>5. Counted'
  BY DEF PlaceInv, Counted, Owed, ReturnedTokens
<1> QED
  BY <1>1, <1>2, <1>3, <1>4, <1>5 DEF PlaceInv

\* A transfer is accepted: nothing is known of its token before.
LEMMA AcceptedOwed ==
  ASSUME UsbTypeOK, PlaceInv, NEW e \in Endpoints, nextToken \in Token,
         endpointOf' = [endpointOf EXCEPT ![nextToken] = e], returned' = returned
  PROVE  /\ Owed' = Owed \cup {nextToken} /\ ReturnedTokens' = ReturnedTokens
         /\ Cardinality(Owed)' = Cardinality(Owed) + 1
         /\ endpointOf'[nextToken] = e
         /\ \A t \in Token : t # nextToken => endpointOf'[t] = endpointOf[t]
<1>1. /\ endpointOf \in [Token -> Endpoints \cup {NULL}] /\ e # NULL
      /\ nextToken \notin Owed /\ nextToken \notin ReturnedTokens
  BY Typed, NextIsNew, UsbAssumption DEF PlaceInv
<1>2. /\ endpointOf'[nextToken] = e
      /\ \A t \in Token : t # nextToken => endpointOf'[t] = endpointOf[t]
  BY <1>1
<1>3. ReturnedTokens' = ReturnedTokens
  BY DEF ReturnedTokens
<1>4. Owed' = Owed \cup {nextToken}
  BY <1>1, <1>2, <1>3 DEF Owed
<1>5. Cardinality(Owed \cup {nextToken}) = Cardinality(Owed) + 1
  BY <1>1, Sets, FS_AddElement
<1> QED
  BY <1>2, <1>3, <1>4, <1>5

\* It is started at once.
LEMMA SubmitStarts ==
  ASSUME UsbTypeOK, PlaceInv, NEW e \in Endpoints, nextToken \in Token,
         oneEndpoint \in {NULL, e},
         endpointOf' = [endpointOf EXCEPT ![nextToken] = e],
         inFlight' = [inFlight EXCEPT ![e] = Append(@, nextToken)],
         numInFlight' = numInFlight + 1, nextToken' = nextToken + 1,
         \/ driver' = Append(driver, nextToken) /\ event' = event
         \/ /\ platform = "Windows" /\ driver' = driver
            /\ event' = [event EXCEPT ![nextToken] = "SUCCESS"],
         platform = "Linux" => Len(inFlight[e]) < MAX_IN_FLIGHT,
         UNCHANGED <<platform, completed, returned, caller, queued, oneEndpoint>>
  PROVE  PlaceInv'
<1>1. /\ nextToken \in Nat /\ nextToken \in Token /\ inFlight[e] \in Seq(Token)
      /\ driver \in Seq(Token) /\ queued \in Seq(Token)
      /\ e # NULL /\ DOMAIN inFlight = Endpoints
  BY Typed, UsbAssumption
<1>2. /\ nextToken \notin Owed /\ nextToken \notin ReturnedTokens /\ nextToken \notin InDriver
      /\ \A t \in Owed \cup InDriver \cup ReturnedTokens : t < nextToken
      /\ event[nextToken] = "unset"
  BY NextIsNew DEF PlaceInv
<1>3. /\ Owed' = Owed \cup {nextToken} /\ ReturnedTokens' = ReturnedTokens
      /\ Cardinality(Owed)' = Cardinality(Owed) + 1
      /\ endpointOf'[nextToken] = e
      /\ \A t \in Token : t # nextToken => endpointOf'[t] = endpointOf[t]
  BY AcceptedOwed
<1>4. HeldAt(e) \subseteq Owed
  BY DEF PlaceInv, Apart
<1>5. /\ Len(inFlight'[e]) = Len(inFlight[e]) + 1
      /\ Distinct(inFlight'[e]) /\ (Ascending(inFlight[e]) => Ascending(inFlight'[e]))
      /\ HeldAt(e)' = HeldAt(e) \cup {nextToken}
      /\ inFlight'[e] = Append(inFlight[e], nextToken)
  <2>1. inFlight'[e] = Append(inFlight[e], nextToken)
    BY <1>1
  <2>2. Distinct(inFlight[e]) /\ \A u \in ToSet(inFlight[e]) : u < nextToken
    BY <1>2, <1>4 DEF PlaceInv, Once, HeldAt
  <2> QED
    BY <1>1, <2>1, <2>2, AppendLater DEF HeldAt
<1>6. \A a \in Endpoints : a # e => inFlight'[a] = inFlight[a] /\ HeldAt(a)' = HeldAt(a)
  BY <1>1 DEF HeldAt
<1>7. \/ /\ driver' = driver /\ InDriver' = InDriver /\ platform = "Windows"
         /\ event' = [event EXCEPT ![nextToken] = "SUCCESS"]
      \/ /\ driver' = Append(driver, nextToken) /\ Len(driver') = Len(driver) + 1
         /\ InDriver' = InDriver \cup {nextToken}
         /\ Distinct(driver') /\ (Ascending(driver) => Ascending(driver'))
         /\ event' = event
  <2>1. Distinct(driver) /\ \A u \in ToSet(driver) : u < nextToken
    BY <1>2 DEF PlaceInv, Once, InDriver
  <2>2. CASE driver' = Append(driver, nextToken) /\ event' = event
    BY <1>1, <2>1, <2>2, AppendLater DEF InDriver
  <2>3. CASE /\ platform = "Windows" /\ driver' = driver
             /\ event' = [event EXCEPT ![nextToken] = "SUCCESS"]
    BY <2>3 DEF InDriver
  <2> QED
    BY <2>2, <2>3
<1>8. platform = "Linux" => driver' = Append(driver, nextToken)
  BY <1>7
<1>9. Queued' = Queued /\ Done' = Done
  BY DEF Queued, Done
<1>10. Once'
  BY <1>5, <1>6, <1>7 DEF PlaceInv, Once
<1>11. InOrder'
  <2>1. ASSUME platform = "Windows"
        PROVE  \A a \in Endpoints : Ascending(inFlight'[a])
    BY <1>5, <1>6, <2>1 DEF PlaceInv, InOrder
  <2>2. ASSUME platform = "Linux", ~ResubmitsFail
        PROVE  queued = <<>>
    <3>1. SUFFICES ASSUME queued # <<>> PROVE FALSE
      OBVIOUS
    <3>2. oneEndpoint = e
      BY <3>1 DEF PlaceInv, Discipline
    <3>3. MAX_IN_FLIGHT <= Len(inFlight[e])
      BY <2>2, <3>1, <3>2 DEF PlaceInv, InOrder
    <3> QED
      BY <1>1, <2>2, <3>3, UsbAssumption
  <2>3. ASSUME platform = "Linux", ~ResubmitsFail
        PROVE  Ascending(driver') /\ Ascending(queued') /\ queued' = <<>> /\ Queued' = {}
    BY <1>7, <2>2, <2>3 DEF PlaceInv, InOrder, Queued, ToSet
  <2> QED
    BY <2>1, <2>3 DEF InOrder
<1>12. Apart'
  <2>1. Queued \subseteq Owed /\ Done \subseteq Owed /\ Queued \cap Done = {}
    BY DEF PlaceInv, Apart
  <2>2. ASSUME NEW a \in Endpoints
        PROVE  /\ \A t \in HeldAt(a)' : endpointOf'[t] = a /\ t \in Owed'
               /\ HeldAt(a)' \cap (Queued' \cup Done') = {}
    <3>1. /\ HeldAt(a) \subseteq Owed /\ \A t \in HeldAt(a) : endpointOf[t] = a
          /\ HeldAt(a) \cap (Queued \cup Done) = {}
      BY DEF PlaceInv, Apart
    <3>2. HeldAt(a)' = IF a = e THEN HeldAt(a) \cup {nextToken} ELSE HeldAt(a)
      BY <1>5, <1>6
    <3> QED
      BY <1>2, <1>3, <1>9, <2>1, <3>1, <3>2, Sets
  <2> QED
    BY <1>3, <1>9, <2>1, <2>2 DEF PlaceInv, Apart
<1>13. DriverHolds'
  <2>1. ASSUME NEW t \in InDriver
        PROVE  t \in Token /\ endpointOf'[t] = endpointOf[t] /\ endpointOf[t] \in Endpoints
    BY <1>2, <1>3, Sets DEF PlaceInv, DriverHolds
  <2>2. ASSUME OwnWaits, NEW t \in InDriver'
        PROVE  t \in HeldAt(endpointOf[t])'
    <3>1. CASE t = nextToken /\ t \notin InDriver
      BY <1>3, <1>5, <3>1
    <3>2. CASE t \in InDriver
      <4>1. t \in HeldAt(endpointOf[t])
        BY <2>2, <3>2 DEF PlaceInv, DriverHolds
      <4>2. t \in HeldAt(endpointOf[t])' /\ endpointOf'[t] = endpointOf[t]
        BY <1>5, <1>6, <2>1, <3>2, <4>1
      <4> QED
        BY <4>2
    <3> QED
      BY <1>7, <2>2, <3>1, <3>2
  <2>3. ASSUME platform = "Linux", NEW a \in Endpoints
        PROVE  HeldAt(a)' \subseteq InDriver'
    BY <1>5, <1>6, <1>7, <2>3 DEF PlaceInv, DriverHolds
  <2> QED
    BY <1>3, <1>7, <2>1, <2>2, <2>3 DEF DriverHolds, OwnWaits
<1>14. Numbered'
  BY <1>1, <1>3, <1>7, Typed, TokensAreInts DEF PlaceInv, Numbered
<1>15. Discipline'
  BY <1>3 DEF PlaceInv, Discipline
<1>16. Windows'
  <2>1. SUFFICES ASSUME platform = "Windows" PROVE Windows'
    BY DEF Windows
  <2>2. \A t \in InDriver' : event'[t] = "unset"
    BY <1>2, <1>7, <2>1, Typed, Sets DEF PlaceInv, Windows
  <2>3. ASSUME NEW c \in Completers, caller'[c].at = "waiting", NEW w \in caller'[c].watch
        PROVE  /\ endpointOf'[w] \in Endpoints
               /\ OneCompleter =>
                    inFlight'[endpointOf'[w]] # <<>> /\ w = inFlight'[endpointOf'[w]][1]
    <3> DEFINE b == endpointOf[w]
    <3>1. /\ w \in Token /\ b \in Endpoints
          /\ OneCompleter => inFlight[b] # <<>> /\ w = inFlight[b][1]
      BY <2>1, <2>3, Typed DEF PlaceInv, Windows
    <3>2. inFlight[b] \in Seq(Token)
      BY <3>1, Typed
    <3>4. w # nextToken
      BY <1>2, <3>1, NextIsNew, UsbAssumption DEF PlaceInv
    <3>5. endpointOf'[w] = b
      BY <1>3, <3>1, <3>4
    <3> HIDE DEF b
    <3>6. ASSUME OneCompleter, b = e
          PROVE  inFlight'[e] # <<>> /\ inFlight'[e][1] = w
      <4>1. Len(inFlight[e]) # 0 /\ Len(inFlight[e]) \in Nat
        BY <3>1, <3>2, <3>6
      <4> QED
        BY <1>1, <1>5, <3>1, <3>6, <4>1, AppendProperties
    <3>7. b # e => inFlight'[b] = inFlight[b]
      BY <1>6, <3>1
    <3> QED
      BY <3>1, <3>5, <3>6, <3>7
  <2> QED
    BY <2>1, <2>2, <2>3 DEF PlaceInv, Windows
<1>17. Counted'
  <2>1. Len(driver) \in Nat /\ Len(queued) \in Nat /\ Len(completed) \in Nat
    BY Typed
  <2>2. platform = "Linux" => Len(driver') = Len(driver) + 1
    BY <1>7
  <2>3. Cardinality(Owed) \in Nat
    BY Sets
  <2> HIDE DEF PlaceInv
  <2>4. Counted
    BY DEF PlaceInv
  <2> QED
    BY <1>3, <2>1, <2>2, <2>3, <2>4 DEF Counted
<1> QED
  BY <1>10, <1>11, <1>12, <1>13, <1>14, <1>15, <1>16, <1>17 DEF PlaceInv

\* It is queued, which only Linux does.
LEMMA SubmitQueues ==
  ASSUME UsbTypeOK, PlaceInv, NEW e \in Endpoints, nextToken \in Token,
         platform = "Linux", oneEndpoint = e, ~(Len(inFlight[e]) < MAX_IN_FLIGHT),
         endpointOf' = [endpointOf EXCEPT ![nextToken] = e],
         nextToken' = nextToken + 1, queued' = Append(queued, nextToken),
         UNCHANGED <<platform, inFlight, numInFlight, driver, event, completed, returned,
                     caller, oneEndpoint>>
  PROVE  PlaceInv'
<1>1. /\ nextToken \in Nat /\ nextToken \in Token /\ inFlight[e] \in Seq(Token)
      /\ driver \in Seq(Token) /\ queued \in Seq(Token)
      /\ e # NULL /\ DOMAIN inFlight = Endpoints
  BY Typed, UsbAssumption
<1>2. /\ nextToken \notin Owed /\ nextToken \notin ReturnedTokens /\ nextToken \notin InDriver
      /\ \A t \in Owed \cup InDriver \cup ReturnedTokens : t < nextToken
      /\ event[nextToken] = "unset"
  BY NextIsNew DEF PlaceInv
<1>3. /\ Owed' = Owed \cup {nextToken} /\ ReturnedTokens' = ReturnedTokens
      /\ Cardinality(Owed)' = Cardinality(Owed) + 1
      /\ endpointOf'[nextToken] = e
      /\ \A t \in Token : t # nextToken => endpointOf'[t] = endpointOf[t]
  BY AcceptedOwed
<1>4. /\ Queued' = Queued \cup {nextToken} /\ Len(queued') = Len(queued) + 1
      /\ Distinct(queued') /\ (Ascending(queued) => Ascending(queued'))
      /\ Queued \subseteq Owed
  <2>1. Distinct(queued) /\ \A u \in ToSet(queued) : u < nextToken
    BY <1>2 DEF PlaceInv, Once, Apart, Queued
  <2> QED
    BY <1>1, <2>1, AppendLater DEF Queued, PlaceInv, Apart
<1>5. InDriver' = InDriver /\ Done' = Done /\ \A a \in Endpoints : HeldAt(a)' = HeldAt(a)
  BY DEF InDriver, Done, HeldAt
<1>6. Once'
  BY <1>4 DEF PlaceInv, Once
<1>7. InOrder'
  <2>1. ASSUME ~ResubmitsFail
        PROVE  /\ Ascending(driver') /\ Ascending(queued')
               /\ \A t \in InDriver', u \in Queued' : t < u
    BY <1>2, <1>4, <1>5, <2>1 DEF PlaceInv, InOrder
  <2>2. MAX_IN_FLIGHT <= Len(inFlight'[oneEndpoint'])
    BY <1>1, UsbAssumption
  <2> QED
    BY <2>1, <2>2 DEF InOrder
<1>8. Apart'
  <2>1. Queued \subseteq Owed /\ Done \subseteq Owed /\ Queued \cap Done = {}
    BY DEF PlaceInv, Apart
  <2>2. ASSUME NEW a \in Endpoints
        PROVE  /\ \A t \in HeldAt(a)' : endpointOf'[t] = a /\ t \in Owed'
               /\ HeldAt(a)' \cap (Queued' \cup Done') = {}
    <3>1. /\ HeldAt(a) \subseteq Owed /\ \A t \in HeldAt(a) : endpointOf[t] = a
          /\ HeldAt(a) \cap (Queued \cup Done) = {}
      BY DEF PlaceInv, Apart
    <3> QED
      BY <1>2, <1>3, <1>4, <1>5, <2>1, <3>1, Sets
  <2> QED
    BY <1>2, <1>3, <1>4, <1>5, <2>1, <2>2 DEF PlaceInv, Apart
<1>9. DriverHolds'
  <2>1. ASSUME NEW t \in InDriver
        PROVE  endpointOf'[t] = endpointOf[t] /\ endpointOf[t] \in Endpoints
    BY <1>2, <1>3, Sets DEF PlaceInv, DriverHolds
  <2>2. \A t \in InDriver : t \in HeldAt(endpointOf[t])
    BY DEF PlaceInv, DriverHolds, OwnWaits
  <2>3. \A t \in InDriver : t \in HeldAt(endpointOf'[t])
    BY <2>1, <2>2
  <2> QED
    BY <1>5, <2>1, <2>3 DEF PlaceInv, DriverHolds, HeldAt
<1>10. Numbered'
  BY <1>1, <1>3, Typed, TokensAreInts DEF PlaceInv, Numbered
<1>11. Discipline'
  BY <1>1, <1>3 DEF PlaceInv, Discipline
<1>12. Windows' /\ Counted'
  <2>1. Len(driver) \in Nat /\ Len(queued) \in Nat /\ Len(completed) \in Nat
    BY Typed
  <2> QED
    BY <1>3, <1>4, <2>1, Sets DEF PlaceInv, Counted, Windows
<1> QED
  BY <1>6, <1>7, <1>8, <1>9, <1>10, <1>11, <1>12 DEF PlaceInv

\* A transfer that is refused costs a token.
LEMMA TokenLost ==
  ASSUME UsbTypeOK, PlaceInv, nextToken' = nextToken + 1,
         UNCHANGED <<platform, endpointOf, inFlight, numInFlight, completed, returned, driver,
                     queued, event, caller, oneEndpoint>>
  PROVE  PlaceInv'
<1>1. Once' /\ InOrder'
  BY DEF PlaceInv, Once, InOrder, InDriver, Queued, HeldAt
<1>2. Apart' /\ DriverHolds'
  BY DEF PlaceInv, Apart, DriverHolds, OwnWaits, InDriver, Queued, Done, HeldAt, Owed,
         ReturnedTokens
<1>3. Numbered' /\ Discipline'
  <2>1. nextToken \in Nat /\ \A t \in Token : t \in Nat
    BY Typed, TokensAreInts
  <2> QED
    BY <2>1 DEF PlaceInv, Numbered, Discipline, ReturnedTokens
<1>4. Windows' /\ Counted'
  BY DEF PlaceInv, Windows, InDriver, Counted, Owed, ReturnedTokens
<1> QED
  BY <1>1, <1>2, <1>3, <1>4 DEF PlaceInv

\* What was queued is completed as cancelled.
LEMMA CancelCompletes ==
  ASSUME UsbTypeOK, platform = "Linux", LinuxCancelTransfers
  PROVE  /\ completed' \in Seq(Answer) /\ Len(completed') = Len(completed) + Len(queued)
         /\ Len(queued') = 0 /\ Queued' = {}
         /\ \A i \in 1 .. Len(completed) : completed'[i] = completed[i]
         /\ \A i \in Len(completed) + 1 .. Len(completed) + Len(queued) :
              completed'[i].token = queued[i - Len(completed)] /\ completed'[i].status = "CANCELLED"
         /\ Done' = Done \cup Queued
<1> DEFINE cs == Cancelled(queued)
           m  == Len(completed)
           n  == Len(queued)
<1>1. /\ completed \in Seq(Answer) /\ m \in Nat /\ DOMAIN completed = 1 .. m
      /\ n \in Nat /\ DOMAIN queued = 1 .. n /\ \A i \in 1 .. n : queued[i] \in Token
  BY Typed
<1>2. completed' = completed \o cs /\ queued' = <<>>
  BY DEF LinuxCancelTransfers
<1>3. cs = [i \in 1 .. n |-> [token |-> queued[i], status |-> "CANCELLED"]]
  BY <1>1 DEF Cancelled
<1> HIDE DEF m, n, cs
<1>4. \A i \in 1 .. n : [token |-> queued[i], status |-> "CANCELLED"] \in Answer
  BY <1>1 DEF Answer, Statuses
<1>5. cs \in Seq(Answer) /\ Len(cs) = n
  BY <1>1, <1>3, <1>4
<1>6. /\ completed' \in Seq(Answer) /\ Len(completed') = m + n
      /\ \A i \in 1 .. m + n : completed'[i] = IF i <= m THEN completed[i] ELSE cs[i - m]
  BY <1>1, <1>2, <1>5, ConcatProperties DEF m
<1>7. \A i \in 1 .. m : completed'[i] = completed[i]
  BY <1>1, <1>6
<1>8. ASSUME NEW i \in m + 1 .. m + n
      PROVE  completed'[i].token = queued[i - m] /\ completed'[i].status = "CANCELLED"
  <2>1. i - m \in 1 .. n /\ ~(i <= m) /\ i \in 1 .. m + n
    BY <1>1
  <2>2. completed'[i] = cs[i - m]
    BY <1>6, <2>1
  <2>3. cs[i - m].token = queued[i - m] /\ cs[i - m].status = "CANCELLED"
    BY <1>3, <2>1
  <2> QED
    BY <2>2, <2>3
<1>9. DOMAIN completed' = 1 .. m + n
  BY <1>6
<1>10. Done' = Done \cup Queued
  <2>1. ASSUME NEW i \in 1 .. m + n
        PROVE  completed'[i].token \in Done \cup Queued
    <3>1. CASE i <= m
      BY <1>1, <1>6, <3>1 DEF Done
    <3>2. CASE ~(i <= m)
      <4>1. i \in m + 1 .. m + n /\ i - m \in 1 .. n
        BY <1>1, <3>2
      <4>2. completed'[i].token = queued[i - m]
        BY <1>8, <4>1
      <4> QED
        BY <1>1, <4>1, <4>2 DEF Queued, ToSet
    <3> QED
      BY <3>1, <3>2
  <2>2. ASSUME NEW i \in 1 .. m
        PROVE  completed[i].token \in Done'
    <3>1. i \in 1 .. m + n
      BY <1>1
    <3>2. completed'[i].token = completed[i].token
      BY <1>7
    <3> QED
      BY <1>9, <3>1, <3>2 DEF Done
  <2>3. ASSUME NEW i \in 1 .. n
        PROVE  queued[i] \in Done'
    <3> DEFINE k == m + i
    <3>1. k \in m + 1 .. m + n /\ k - m = i /\ k \in 1 .. m + n
      BY <1>1
    <3> HIDE DEF k
    <3>2. completed'[k].token = queued[i]
      BY <1>8, <3>1
    <3> QED
      BY <1>9, <3>1, <3>2 DEF Done
  <2>4. Done' = {completed'[i].token : i \in 1 .. m + n}
    BY <1>9 DEF Done
  <2>5. Done = {completed[i].token : i \in 1 .. m}
    BY <1>1 DEF Done
  <2>6. Queued = {queued[i] : i \in 1 .. n}
    BY <1>1 DEF Queued, ToSet
  <2>7. Done' \subseteq Done \cup Queued
    BY <2>1, <2>4
  <2>8. Done \subseteq Done' /\ Queued \subseteq Done'
    BY <2>2, <2>3, <2>5, <2>6
  <2> QED
    BY <2>7, <2>8
<1>11. Len(queued') = 0 /\ Queued' = {}
  BY <1>2 DEF Queued, ToSet
<1> QED
  BY <1>6, <1>7, <1>8, <1>10, <1>11 DEF m, n

LEMMA CancelStep ==
  ASSUME UsbTypeOK, PlaceInv, platform = "Linux", LinuxCancelTransfers,
         UNCHANGED <<event, oneEndpoint>>
  PROVE  PlaceInv'
<1> DEFINE m == Len(completed)
           n == Len(queued)
<1>1. /\ m \in Nat /\ n \in Nat /\ DOMAIN completed = 1 .. m /\ DOMAIN queued = 1 .. n
  BY Typed
<1>2. /\ completed' \in Seq(Answer) /\ Len(completed') = m + n
      /\ Len(queued') = 0 /\ Queued' = {}
      /\ \A i \in 1 .. m : completed'[i] = completed[i]
      /\ \A i \in m + 1 .. m + n : completed'[i].token = queued[i - m]
      /\ Done' = Done \cup Queued
  BY CancelCompletes
<1>3. /\ queued' = <<>>
      /\ UNCHANGED <<platform, nextToken, endpointOf, inFlight, numInFlight, returned, driver>>
  BY DEF LinuxCancelTransfers, deviceVars
<1>4. /\ InDriver' = InDriver /\ Owed' = Owed /\ ReturnedTokens' = ReturnedTokens
      /\ \A e \in Endpoints : HeldAt(e)' = HeldAt(e)
  BY <1>3 DEF InDriver, Owed, ReturnedTokens, HeldAt
<1>5. DOMAIN completed' = 1 .. m + n
  BY <1>1, <1>2
<1>6. Once' /\ InOrder'
  <2>1. Distinct(queued') /\ Ascending(queued')
    BY <1>3 DEF Distinct, Ascending
  <2> QED
    BY <1>2, <1>3, <1>4, <2>1 DEF PlaceInv, Once, InOrder
<1>7. Apart'
  <2>1. ASSUME NEW i \in 1 .. m + n, NEW j \in 1 .. m + n,
               completed'[i].token = completed'[j].token, i < j
        PROVE  FALSE
    <3>1. CASE j <= m
      <4>1. i \in 1 .. m /\ j \in 1 .. m
        BY <1>1, <2>1, <3>1
      <4> QED
        BY <1>1, <1>2, <2>1, <4>1 DEF PlaceInv, Apart
    <3>2. CASE i <= m /\ ~(j <= m)
      <4>1. i \in 1 .. m
        BY <1>1, <2>1, <3>2
      <4>2. j \in m + 1 .. m + n /\ j - m \in 1 .. n
        BY <1>1, <3>2
      <4>3. completed'[j].token = queued[j - m] /\ completed'[i].token = completed[i].token
        BY <1>2, <4>1, <4>2
      <4>4. completed[i].token \in Done /\ queued[j - m] \in Queued
        BY <1>1, <4>1, <4>2 DEF Done, Queued, ToSet
      <4>5. Queued \cap Done = {}
        BY DEF PlaceInv, Apart
      <4> QED
        BY <2>1, <4>3, <4>4, <4>5
    <3>3. CASE ~(i <= m)
      <4>1. /\ i \in m + 1 .. m + n /\ i - m \in 1 .. n
            /\ j \in m + 1 .. m + n /\ j - m \in 1 .. n
        BY <1>1, <2>1, <3>3
      <4>2. queued[i - m] = queued[j - m]
        BY <1>2, <2>1, <4>1
      <4>3. i - m = j - m
        BY <1>1, <4>1, <4>2 DEF PlaceInv, Once, Distinct
      <4> QED
        BY <1>1, <2>1, <4>3
    <3> QED
      BY <1>1, <3>1, <3>2, <3>3
  <2>2. \A i, j \in DOMAIN completed' : completed'[i].token = completed'[j].token => i = j
    BY <1>1, <1>5, <2>1
  <2> QED
    BY <1>2, <1>3, <1>4, <2>2 DEF PlaceInv, Apart
<1>8. DriverHolds' /\ Numbered' /\ Discipline'
  BY <1>3, <1>4 DEF PlaceInv, DriverHolds, OwnWaits, Numbered, Discipline, HeldAt
<1>9. Windows' /\ Counted'
  BY <1>1, <1>2, <1>3, <1>4 DEF PlaceInv, Windows, Counted
<1> QED
  BY <1>6, <1>7, <1>8, <1>9 DEF PlaceInv

\* The oldest completed transfer is returned.
LEMMA PopReturns ==
  ASSUME UsbTypeOK, NEW c \in Completers, PopCompleted(c)
  PROVE  /\ completed' \in Seq(Answer) /\ returned' \in Seq(Answer)
         /\ Len(completed) \in Nat \ {0} /\ Len(completed') = Len(completed) - 1
         /\ \A i \in 1 .. Len(completed) - 1 : completed'[i] = completed[i + 1]
         /\ returned' = Append(returned, completed[1])
         /\ completed[1] \in Answer
         /\ ReturnedTokens' = ReturnedTokens \cup {completed[1].token}
<1> DEFINE x == completed[1]
<1>1. /\ completed \in Seq(Answer) /\ returned \in Seq(Answer) /\ completed # <<>>
      /\ completed' = Tail(completed) /\ returned' = Append(returned, Head(completed))
  BY Typed DEF PopCompleted
<1>2. Len(completed) \in Nat \ {0} /\ Head(completed) = x /\ x \in Answer
  BY <1>1
<1>3. /\ completed' \in Seq(Answer) /\ Len(completed') = Len(completed) - 1
      /\ \A i \in 1 .. Len(completed) - 1 : completed'[i] = completed[i + 1]
  BY <1>1, HeadTailProperties
<1> HIDE DEF x
<1>4. /\ returned' \in Seq(Answer) /\ Len(returned') = Len(returned) + 1
      /\ \A i \in 1 .. Len(returned) : returned'[i] = returned[i]
      /\ returned'[Len(returned) + 1] = x
  BY <1>1, <1>2, AppendProperties
<1>5. ReturnedTokens' = ReturnedTokens \cup {x.token}
  <2>1. /\ Len(returned) \in Nat /\ DOMAIN returned = 1 .. Len(returned)
        /\ DOMAIN returned' = 1 .. Len(returned) + 1
    BY <1>1, <1>4
  <2>2. \A i \in 1 .. Len(returned) + 1 : i \in 1 .. Len(returned) \/ i = Len(returned) + 1
    BY <2>1
  <2>3. \A i \in 1 .. Len(returned) : i \in 1 .. Len(returned) + 1
    BY <2>1
  <2>4. Len(returned) + 1 \in 1 .. Len(returned) + 1
    BY <2>1
  <2> QED
    BY <1>4, <2>1, <2>2, <2>3, <2>4 DEF ReturnedTokens
<1> QED
  BY <1>1, <1>2, <1>3, <1>4, <1>5 DEF x

LEMMA PopStep ==
  ASSUME UsbTypeOK, PlaceInv, platform = "Linux", NEW c \in Completers, PopCompleted(c),
         UNCHANGED <<platform, nextToken, endpointOf, inFlight, numInFlight, driver, queued,
                     event, oneEndpoint>>
  PROVE  PlaceInv'
<1> DEFINE x == completed[1].token
           n == Len(completed)
<1>1. /\ completed' \in Seq(Answer) /\ returned' \in Seq(Answer)
      /\ n \in Nat \ {0} /\ Len(completed') = n - 1
      /\ \A i \in 1 .. n - 1 : completed'[i] = completed[i + 1]
      /\ ReturnedTokens' = ReturnedTokens \cup {x}
  BY PopReturns
<1>2. DOMAIN completed = 1 .. n /\ DOMAIN completed' = 1 .. n - 1
  BY <1>1, Typed
<1>3. 1 \in 1 .. n
  BY <1>1
<1>4. x \in Done
  BY <1>2, <1>3 DEF Done
<1> HIDE DEF n, x
<1>5. x \in Owed /\ x \in Token /\ endpointOf[x] # NULL
  BY <1>4, Sets DEF PlaceInv, Apart, Owed
<1>6. Owed' = Owed \ {x}
  BY <1>1, <1>5 DEF Owed
<1>7. Cardinality(Owed)' = Cardinality(Owed) - 1
  BY <1>5, <1>6, Sets, FS_RemoveElement
<1>8. Done' \subseteq Done \ {x}
  <2>1. ASSUME NEW i \in 1 .. n - 1
        PROVE  completed'[i].token \in Done /\ completed'[i].token # x
    <3>1. i + 1 \in 1 .. n /\ i + 1 # 1
      BY <1>1
    <3>2. completed[i + 1].token # completed[1].token
      BY <1>2, <1>3, <3>1 DEF PlaceInv, Apart
    <3> QED
      BY <1>1, <1>2, <3>1, <3>2 DEF Done, x
  <2> QED
    BY <1>2, <2>1 DEF Done
<1>9. /\ InDriver' = InDriver /\ Queued' = Queued
      /\ \A e \in Endpoints : HeldAt(e)' = HeldAt(e)
  BY DEF InDriver, Queued, HeldAt
<1>10. Once' /\ InOrder'
  BY <1>9 DEF PlaceInv, Once, InOrder
<1>11. Apart'
  <2>1. ASSUME NEW i \in 1 .. n - 1, NEW j \in 1 .. n - 1,
               completed'[i].token = completed'[j].token
        PROVE  i = j
    <3>1. i + 1 \in 1 .. n /\ j + 1 \in 1 .. n
      BY <1>1
    <3>2. completed[i + 1].token = completed[j + 1].token
      BY <1>1, <2>1
    <3>3. i + 1 = j + 1
      BY <1>2, <3>1, <3>2 DEF PlaceInv, Apart
    <3> QED
      BY <3>3
  <2> QED
    BY <1>2, <1>4, <1>6, <1>8, <1>9, <2>1 DEF PlaceInv, Apart
<1>12. DriverHolds' /\ Discipline' /\ Windows'
  BY <1>9 DEF PlaceInv, DriverHolds, OwnWaits, Discipline, Windows, HeldAt
<1>13. Numbered'
  BY <1>1, <1>5 DEF PlaceInv, Numbered
<1>14. Counted'
  <2>1. Len(driver) \in Nat /\ Len(queued) \in Nat
    BY Typed
  <2>2. Cardinality(Owed) \in Nat
    BY Sets
  <2> QED
    BY <1>1, <1>7, <2>1, <2>2 DEF PlaceInv, Counted, n
<1> QED
  BY <1>10, <1>11, <1>12, <1>13, <1>14 DEF PlaceInv

\* A transfer joins the completed ones.
LEMMA CompletedGrows ==
  ASSUME UsbTypeOK, NEW a \in Answer, completed' = Append(completed, a)
  PROVE  /\ completed' \in Seq(Answer) /\ Len(completed') = Len(completed) + 1
         /\ Len(completed) \in Nat /\ DOMAIN completed = 1 .. Len(completed)
         /\ DOMAIN completed' = 1 .. Len(completed) + 1
         /\ \A i \in 1 .. Len(completed) : completed'[i] = completed[i]
         /\ completed'[Len(completed) + 1] = a
         /\ Done' = Done \cup {a.token}
<1> DEFINE n == Len(completed)
<1>1. /\ completed' \in Seq(Answer) /\ Len(completed') = n + 1
      /\ \A i \in 1 .. n : completed'[i] = completed[i]
      /\ completed'[n + 1] = a
  BY Typed, AppendProperties
<1>2. /\ n \in Nat /\ DOMAIN completed = 1 .. n /\ DOMAIN completed' = 1 .. n + 1
  BY <1>1, Typed
<1> HIDE DEF n
<1>3. Done' = Done \cup {a.token}
  <2>1. \A i \in 1 .. n + 1 : i \in 1 .. n \/ i = n + 1
    BY <1>2
  <2>2. \A i \in 1 .. n : i \in 1 .. n + 1
    BY <1>2
  <2>3. n + 1 \in 1 .. n + 1
    BY <1>2
  <2> QED
    BY <1>1, <1>2, <2>1, <2>2, <2>3 DEF Done
<1> QED
  BY <1>1, <1>2, <1>3 DEF n

\* What is queued is of the one endpoint in use.
LEMMA QueuedOnOne ==
  ASSUME UsbTypeOK, PlaceInv, NEW u \in Queued, NEW t \in Owed
  PROVE  endpointOf[u] = endpointOf[t]
<1>1. queued # <<>>
  BY DEF Queued, ToSet
<1>2. u \in Owed
  BY DEF PlaceInv, Apart
<1>3. /\ u \in Token /\ endpointOf[u] # NULL
      /\ t \in Token /\ endpointOf[t] # NULL
  BY <1>2, Sets DEF Owed
<1> QED
  BY <1>1, <1>3 DEF PlaceInv, Discipline

\* The callback, as far as where the tokens are: t is completed and the k
\* oldest of the queue are submitted; one more may be dropped.
LEMMA CallbackEffect ==
  ASSUME UsbTypeOK, PlaceInv, platform = "Linux", NEW t \in InDriver, NEW st \in Statuses,
         TransferComplete(t, st)
  PROVE  LET e == endpointOf[t] IN
         /\ e \in Endpoints /\ t \in HeldAt(e) /\ t \in Owed /\ t \notin Queued /\ t \notin Done
         /\ completed' = Append(completed, [token |-> t, status |-> st])
         /\ UNCHANGED <<platform, nextToken, endpointOf, returned, caller>>
         /\ \E k \in 0 .. Len(queued), r \in {0, 1}, M \in SUBSET Queued :
              /\ r = 1 => ResubmitsFail
              /\ M \cap Queued' = {} /\ Queued' \subseteq Queued
              /\ r = 0 => Queued = M \cup Queued'
              /\ Ascending(queued) => \A u \in M, v \in Queued' : u < v
              /\ queued' \in Seq(Token) /\ Len(queued') = Len(queued) - k - r
              /\ Distinct(queued') /\ (Ascending(queued) => Ascending(queued'))
              /\ inFlight' \in [Endpoints -> Seq(Token)]
              /\ Distinct(inFlight'[e]) /\ HeldAt(e)' = (HeldAt(e) \ {t}) \cup M
              /\ \A a \in Endpoints : a # e => inFlight'[a] = inFlight[a]
              /\ driver' \in Seq(Token) /\ Len(driver') = Len(driver) - 1 + k
              /\ Distinct(driver') /\ InDriver' = (InDriver \ {t}) \cup M
              /\ Ascending(driver) /\ Ascending(queued)
                   /\ (\A u \in InDriver, v \in Queued : u < v) => Ascending(driver')
              /\ numInFlight' = numInFlight + k - 1
              /\ r = 0 /\ queued' # <<>> => MAX_IN_FLIGHT <= Len(inFlight'[e])
<1> DEFINE e     == endpointOf[t]
           rest  == Without(inFlight[e], t)
           room  == IF Len(rest) < MAX_IN_FLIGHT THEN MAX_IN_FLIGHT - Len(rest) ELSE 0
           n     == Len(queued)
<1>1. /\ e \in Endpoints /\ t \in HeldAt(e) /\ t \in Owed /\ t \notin Queued /\ t \notin Done
      /\ HeldAt(e) \cap Queued = {}
  BY DEF PlaceInv, DriverHolds, OwnWaits, Apart
<1>2. /\ completed' = Append(completed, [token |-> t, status |-> st])
      /\ UNCHANGED <<platform, nextToken, endpointOf, returned, caller>>
  BY <1>1 DEF TransferComplete, deviceVars
<1>3. PICK k \in 0 .. Resubmits(room), r \in {0, 1} :
        /\ r = 1 => ResubmitsFail /\ k < Resubmits(room)
        /\ r = 0 => k = Resubmits(room)
        /\ queued' = SubSeq(queued, k + r + 1, n)
        /\ inFlight' = [inFlight EXCEPT ![e] = rest \o SubSeq(queued, 1, k)]
        /\ numInFlight' = numInFlight + k - 1
        /\ driver' = Without(driver, t) \o SubSeq(queued, 1, k)
  BY <1>1 DEF TransferComplete
<1> DEFINE moved == SubSeq(queued, 1, k)
           left  == SubSeq(queued, k + r + 1, n)
           M     == ToSet(moved)
<1>4. /\ inFlight \in [Endpoints -> Seq(Token)] /\ inFlight[e] \in Seq(Token)
      /\ driver \in Seq(Token) /\ queued \in Seq(Token) /\ n \in Nat
      /\ Distinct(inFlight[e]) /\ Distinct(driver) /\ Distinct(queued)
  BY <1>1, Typed DEF PlaceInv, Once
<1>5. /\ rest \in Seq(Token) /\ Len(rest) = Len(inFlight[e]) - 1 /\ Len(rest) \in Nat
      /\ Distinct(rest) /\ ToSet(rest) = HeldAt(e) \ {t}
  BY <1>1, <1>4, WithoutOne DEF HeldAt
<1>6. /\ Without(driver, t) \in Seq(Token) /\ Len(Without(driver, t)) = Len(driver) - 1
      /\ Len(driver) \in Nat
      /\ Distinct(Without(driver, t)) /\ (Ascending(driver) => Ascending(Without(driver, t)))
      /\ ToSet(Without(driver, t)) = InDriver \ {t}
  BY <1>4, WithoutOne DEF InDriver
<1> HIDE DEF rest, n, e
<1>7. /\ room \in Nat /\ Resubmits(room) \in Nat /\ Resubmits(room) <= n
      /\ k \in Nat /\ k + r <= n /\ k \in 0 .. n
      /\ r = 0 /\ k < n => k = room
  <2>1. room \in Nat
    BY <1>5, UsbAssumption
  <2> HIDE DEF room
  <2>2. Resubmits(room) = IF n < room THEN n ELSE room
    BY DEF Resubmits, n
  <2> QED
    BY <1>3, <1>4, <2>1, <2>2
<1>8. /\ moved \in Seq(Token) /\ Len(moved) = k
      /\ Distinct(moved) /\ (Ascending(queued) => Ascending(moved))
      /\ M = {queued[i] : i \in 1 .. k}
  <2>1. 1 \in Nat \ {0} /\ k \in Nat /\ k <= Len(queued) /\ 1 <= k + 1
    BY <1>4, <1>7 DEF n
  <2>2. k - 1 + 1 = k
    BY <1>7
  <2> QED
    BY <1>4, <2>1, <2>2, PartOf
<1>9. /\ left \in Seq(Token) /\ Len(left) = n - k - r
      /\ Distinct(left) /\ (Ascending(queued) => Ascending(left))
      /\ ToSet(left) = {queued[i] : i \in k + r + 1 .. n}
  <2>1. k + r + 1 \in Nat \ {0} /\ n \in Nat /\ n <= Len(queued) /\ k + r + 1 <= n + 1
    BY <1>4, <1>7 DEF n
  <2>2. n - (k + r + 1) + 1 = n - k - r
    BY <1>4, <1>7
  <2> QED
    BY <1>4, <2>1, <2>2, PartOf
<1> HIDE DEF moved, left, room
<1>10. Queued' = ToSet(left) /\ Queued = {queued[i] : i \in 1 .. n} /\ DOMAIN queued = 1 .. n
  BY <1>3, <1>4 DEF Queued, ToSet, n, left
<1>11. /\ M \subseteq Queued /\ Queued' \subseteq Queued /\ M \cap Queued' = {}
       /\ r = 0 => Queued = M \cup Queued'
  <2>1. \A i \in 1 .. k : i \in 1 .. n
    BY <1>4, <1>7
  <2>2. \A i \in k + r + 1 .. n : i \in 1 .. n
    BY <1>4, <1>7
  <2>3. \A i \in 1 .. k, j \in k + r + 1 .. n : i # j
    BY <1>4, <1>7
  <2>4. \A i \in 1 .. k, j \in k + r + 1 .. n : queued[i] # queued[j]
    BY <1>4, <1>10, <2>1, <2>2, <2>3 DEF Distinct
  <2>5. r = 0 => \A i \in 1 .. n : i \in 1 .. k \/ i \in k + r + 1 .. n
    BY <1>4, <1>7
  <2>6. M \subseteq Queued
    BY <1>8, <1>10, <2>1
  <2>7. Queued' \subseteq Queued
    BY <1>9, <1>10, <2>2
  <2>8. M \cap Queued' = {}
    BY <1>8, <1>9, <1>10, <2>4
  <2>9. r = 0 => Queued = M \cup Queued'
    BY <1>8, <1>9, <1>10, <2>5, <2>6, <2>7
  <2> QED
    BY <2>6, <2>7, <2>8, <2>9
<1>12. Ascending(queued) => \A u \in M, v \in Queued' : u < v
  <2>1. \A i \in 1 .. k, j \in k + r + 1 .. n : i \in 1 .. n /\ j \in 1 .. n /\ i < j
    BY <1>4, <1>7
  <2> QED
    BY <1>8, <1>9, <1>10, <2>1 DEF Ascending
<1>13. /\ inFlight' \in [Endpoints -> Seq(Token)]
       /\ Distinct(inFlight'[e]) /\ Len(inFlight'[e]) = Len(rest) + k
       /\ HeldAt(e)' = (HeldAt(e) \ {t}) \cup M
       /\ \A a \in Endpoints : a # e => inFlight'[a] = inFlight[a]
  <2>1. ToSet(rest) \cap ToSet(moved) = {}
    BY <1>1, <1>5, <1>11
  <2>2. /\ rest \o moved \in Seq(Token) /\ Len(rest \o moved) = Len(rest) + k
        /\ Distinct(rest \o moved) /\ ToSet(rest \o moved) = ToSet(rest) \cup M
    BY <1>5, <1>8, <2>1, ConcatLater
  <2>3. inFlight' = [inFlight EXCEPT ![e] = rest \o moved]
    BY <1>3 DEF moved
  <2>4. inFlight'[e] = rest \o moved
    BY <1>1, <1>4, <2>3
  <2>5. HeldAt(e)' = (HeldAt(e) \ {t}) \cup M
    <3>1. HeldAt(e)' = ToSet(inFlight'[e'])
      BY DEF HeldAt
    <3>2. e' = e
      BY <1>2 DEF e
    <3> QED
      BY <1>5, <2>2, <2>4, <3>1, <3>2
  <2>6. \A a \in Endpoints : a # e => inFlight'[a] = inFlight[a]
    BY <1>4, <2>3
  <2>7. inFlight' \in [Endpoints -> Seq(Token)]
    BY <1>4, <2>2, <2>3
  <2> QED
    BY <2>2, <2>4, <2>5, <2>6, <2>7
<1>14. /\ driver' \in Seq(Token) /\ Len(driver') = Len(driver) - 1 + k
       /\ Distinct(driver') /\ InDriver' = (InDriver \ {t}) \cup M
       /\ Ascending(driver) /\ Ascending(queued)
            /\ (\A u \in InDriver, v \in Queued : u < v) => Ascending(driver')
  <2> DEFINE d == Without(driver, t)
  <2>1. d \in Seq(Token) /\ Distinct(d) /\ Len(d) = Len(driver) - 1 /\ ToSet(d) = InDriver \ {t}
    BY <1>6
  <2>2. Ascending(driver) => Ascending(d)
    BY <1>6
  <2> HIDE DEF d
  <2>3. \A u \in InDriver : u \notin Queued
    BY DEF PlaceInv, DriverHolds, OwnWaits, Apart
  <2>4. ToSet(d) \cap ToSet(moved) = {}
    BY <1>11, <2>1, <2>3
  <2>5. driver' = d \o moved
    BY <1>3 DEF moved, d
  <2>6. /\ d \o moved \in Seq(Token) /\ Len(d \o moved) = Len(d) + k
        /\ Distinct(d \o moved) /\ ToSet(d \o moved) = ToSet(d) \cup M
        /\ Ascending(d) /\ Ascending(moved) /\ (\A u \in ToSet(d), v \in ToSet(moved) : u < v) =>
             Ascending(d \o moved)
    BY <1>8, <2>1, <2>4, ConcatLater
  <2>7. InDriver' = (InDriver \ {t}) \cup M
    BY <2>1, <2>5, <2>6 DEF InDriver
  <2>8. ASSUME Ascending(driver), Ascending(queued), \A u \in InDriver, v \in Queued : u < v
        PROVE  Ascending(driver')
    BY <1>8, <1>11, <2>1, <2>2, <2>5, <2>6, <2>8
  <2> QED
    BY <2>1, <2>5, <2>6, <2>7, <2>8
<1>15. r = 0 /\ queued' # <<>> => MAX_IN_FLIGHT <= Len(inFlight'[e])
  <2>1. SUFFICES ASSUME r = 0, queued' # <<>> PROVE MAX_IN_FLIGHT <= Len(rest) + k
    BY <1>13
  <2>2. queued' = left
    BY <1>3 DEF left
  <2>3. Len(left) # 0
    BY <1>9, <2>1, <2>2
  <2>4. k < n
    BY <1>4, <1>7, <1>9, <2>1, <2>3
  <2>5. k = room
    BY <1>7, <2>1, <2>4
  <2>6. k = IF Len(rest) < MAX_IN_FLIGHT THEN MAX_IN_FLIGHT - Len(rest) ELSE 0
    BY <2>5 DEF room
  <2>7. MAX_IN_FLIGHT \in Nat /\ Len(rest) \in Nat
    BY <1>5, UsbAssumption
  <2> QED
    BY <2>6, <2>7
<1>16. /\ queued' \in Seq(Token) /\ Len(queued') = n - k - r
       /\ Distinct(queued') /\ (Ascending(queued) => Ascending(queued'))
  <2>1. queued' = left
    BY <1>3 DEF left
  <2> QED
    BY <1>9, <2>1
<1> HIDE DEF M
<1>17. \E kk \in 0 .. n, rr \in {0, 1}, MM \in SUBSET Queued :
              /\ rr = 1 => ResubmitsFail
              /\ MM \cap Queued' = {} /\ Queued' \subseteq Queued
              /\ rr = 0 => Queued = MM \cup Queued'
              /\ Ascending(queued) => \A u \in MM, v \in Queued' : u < v
              /\ queued' \in Seq(Token) /\ Len(queued') = n - kk - rr
              /\ Distinct(queued') /\ (Ascending(queued) => Ascending(queued'))
              /\ inFlight' \in [Endpoints -> Seq(Token)]
              /\ Distinct(inFlight'[e]) /\ HeldAt(e)' = (HeldAt(e) \ {t}) \cup MM
              /\ \A a \in Endpoints : a # e => inFlight'[a] = inFlight[a]
              /\ driver' \in Seq(Token) /\ Len(driver') = Len(driver) - 1 + kk
              /\ Distinct(driver') /\ InDriver' = (InDriver \ {t}) \cup MM
              /\ Ascending(driver) /\ Ascending(queued)
                   /\ (\A u \in InDriver, v \in Queued : u < v) => Ascending(driver')
              /\ numInFlight' = numInFlight + kk - 1
              /\ rr = 0 /\ queued' # <<>> => MAX_IN_FLIGHT <= Len(inFlight'[e])
  <2>1. k \in 0 .. n /\ r \in {0, 1} /\ M \in SUBSET Queued
    BY <1>7, <1>11
  <2>2. (r = 1 => ResubmitsFail) /\ numInFlight' = numInFlight + k - 1
    BY <1>3
  <2> QED
    BY <1>11, <1>12, <1>13, <1>14, <1>15, <1>16, <2>1, <2>2
<1> QED
  BY <1>1, <1>2, <1>17 DEF e, n

LEMMA CallbackStep ==
  ASSUME UsbTypeOK, PlaceInv, platform = "Linux", NEW t \in InDriver, NEW st \in Statuses,
         TransferComplete(t, st), UNCHANGED <<event, oneEndpoint>>
  PROVE  PlaceInv'
<1> DEFINE e == endpointOf[t]
           n == Len(completed)
<1>1. /\ e \in Endpoints /\ t \in HeldAt(e) /\ t \in Owed /\ t \notin Queued /\ t \notin Done
      /\ completed' = Append(completed, [token |-> t, status |-> st])
      /\ UNCHANGED <<platform, nextToken, endpointOf, returned, caller>>
  BY CallbackEffect
<1>2. PICK k \in 0 .. Len(queued), r \in {0, 1}, M \in SUBSET Queued :
        /\ r = 1 => ResubmitsFail
        /\ M \cap Queued' = {} /\ Queued' \subseteq Queued
        /\ r = 0 => Queued = M \cup Queued'
        /\ Ascending(queued) => \A u \in M, v \in Queued' : u < v
        /\ queued' \in Seq(Token) /\ Len(queued') = Len(queued) - k - r
        /\ Distinct(queued') /\ (Ascending(queued) => Ascending(queued'))
        /\ inFlight' \in [Endpoints -> Seq(Token)]
        /\ Distinct(inFlight'[e]) /\ HeldAt(e)' = (HeldAt(e) \ {t}) \cup M
        /\ \A a \in Endpoints : a # e => inFlight'[a] = inFlight[a]
        /\ driver' \in Seq(Token) /\ Len(driver') = Len(driver) - 1 + k
        /\ Distinct(driver') /\ InDriver' = (InDriver \ {t}) \cup M
        /\ Ascending(driver) /\ Ascending(queued)
             /\ (\A u \in InDriver, v \in Queued : u < v) => Ascending(driver')
        /\ numInFlight' = numInFlight + k - 1
        /\ r = 0 /\ queued' # <<>> => MAX_IN_FLIGHT <= Len(inFlight'[e])
  BY CallbackEffect
<1>3. t \in Token /\ [token |-> t, status |-> st] \in Answer
  BY Sets DEF Answer
<1>4. /\ completed' \in Seq(Answer) /\ Len(completed') = n + 1 /\ n \in Nat
      /\ DOMAIN completed = 1 .. n /\ DOMAIN completed' = 1 .. n + 1
      /\ \A i \in 1 .. n : completed'[i] = completed[i]
      /\ completed'[n + 1].token = t
      /\ Done' = Done \cup {t}
  <2>1. /\ completed' \in Seq(Answer) /\ Len(completed') = n + 1 /\ n \in Nat
        /\ DOMAIN completed = 1 .. n /\ DOMAIN completed' = 1 .. n + 1
        /\ \A i \in 1 .. n : completed'[i] = completed[i]
        /\ completed'[n + 1] = [token |-> t, status |-> st]
        /\ Done' = Done \cup {[token |-> t, status |-> st].token}
    BY <1>1, <1>3, CompletedGrows
  <2> QED
    BY <2>1
<1> HIDE DEF n, e
<1>5. Owed' = Owed /\ ReturnedTokens' = ReturnedTokens
  BY <1>1 DEF Owed, ReturnedTokens
<1>6. /\ \A a \in Endpoints :
           HeldAt(a)' = IF a = e THEN (HeldAt(a) \ {t}) \cup M ELSE HeldAt(a)
      /\ e = endpointOf[t] /\ endpointOf' = endpointOf
  <2>1. e' = e
    BY <1>1 DEF e
  <2>2. HeldAt(e)' = (HeldAt(e) \ {t}) \cup M
    BY <1>2
  <2>3. ToSet(inFlight'[e]) = (HeldAt(e) \ {t}) \cup M
    BY <2>1, <2>2 DEF HeldAt
  <2>4. \A a \in Endpoints : a # e => HeldAt(a)' = HeldAt(a)
    BY <1>2 DEF HeldAt
  <2>5. \A a \in Endpoints : a = e => HeldAt(a)' = (HeldAt(a) \ {t}) \cup M
    BY <2>3 DEF HeldAt
  <2> QED
    BY <1>1, <2>4, <2>5 DEF e
<1>7. \A u \in Queued : endpointOf[u] = e
  BY <1>1, QueuedOnOne DEF e
<1>8. Once'
  BY <1>1, <1>2 DEF PlaceInv, Once
<1>9. InOrder'
  <2>1. SUFFICES ASSUME ~ResubmitsFail
                 PROVE  /\ Ascending(driver') /\ Ascending(queued')
                        /\ \A u \in InDriver', v \in Queued' : u < v
                        /\ queued' # <<>> => MAX_IN_FLIGHT <= Len(inFlight'[oneEndpoint'])
    BY <1>1 DEF InOrder
  <2>2. /\ Ascending(driver) /\ Ascending(queued)
        /\ \A u \in InDriver, v \in Queued : u < v
    BY <2>1 DEF PlaceInv, InOrder
  <2>3. r = 0
    BY <1>2, <2>1
  <2>4. ASSUME queued' # <<>>
        PROVE  oneEndpoint' = e
    <3>1. queued # <<>>
      <4>1. Len(queued') # 0
        BY <1>2, <2>4
      <4>2. Len(queued) \in Nat
        BY Typed
      <4> QED
        BY <1>2, <4>1, <4>2
    <3>2. endpointOf[t] # NULL
      BY <1>1 DEF Owed
    <3> QED
      BY <1>3, <1>6, <3>1, <3>2 DEF PlaceInv, Discipline
  <2>5. Ascending(driver') /\ Ascending(queued')
    BY <1>2, <2>2
  <2>6. \A u \in InDriver', v \in Queued' : u < v
    BY <1>2, <2>2
  <2> QED
    BY <1>2, <2>3, <2>4, <2>5, <2>6
<1>10. Apart'
  <2>1. /\ Queued \subseteq Owed /\ Done \subseteq Owed /\ Queued \cap Done = {}
        /\ \A i, j \in DOMAIN completed : completed[i].token = completed[j].token => i = j
    BY DEF PlaceInv, Apart
  <2>2. ASSUME NEW a \in Endpoints
        PROVE  /\ \A u \in HeldAt(a)' : endpointOf'[u] = a /\ u \in Owed'
               /\ HeldAt(a)' \cap (Queued' \cup Done') = {}
    <3>1. /\ \A u \in HeldAt(a) : endpointOf[u] = a /\ u \in Owed
          /\ HeldAt(a) \cap (Queued \cup Done) = {}
      BY DEF PlaceInv, Apart
    <3>2. CASE a = e
      <4>1. HeldAt(a)' = (HeldAt(a) \ {t}) \cup M
        BY <1>6, <3>2
      <4>2. M \cap Queued' = {} /\ Queued' \subseteq Queued /\ M \subseteq Queued /\ t \notin M
        BY <1>1, <1>2
      <4>3. Done' = Done \cup {t} /\ Owed' = Owed /\ endpointOf' = endpointOf
        BY <1>4, <1>5, <1>6
      <4>4. \A u \in HeldAt(a)' : endpointOf'[u] = a /\ u \in Owed'
        BY <1>7, <2>1, <3>1, <3>2, <4>1, <4>2, <4>3
      <4>5. HeldAt(a)' \cap (Queued' \cup Done') = {}
        BY <2>1, <3>1, <4>1, <4>2, <4>3
      <4> QED
        BY <4>4, <4>5
    <3>3. CASE a # e
      <4>1. HeldAt(a)' = HeldAt(a) /\ t \notin HeldAt(a)
        BY <1>6, <3>1, <3>3
      <4> QED
        BY <1>2, <1>4, <1>5, <1>6, <3>1, <4>1
    <3> QED
      BY <3>2, <3>3
  <2>3. \A i, j \in DOMAIN completed' : completed'[i].token = completed'[j].token => i = j
    <3>1. ASSUME NEW i \in 1 .. n
          PROVE  completed'[i].token # t
      BY <1>1, <1>4 DEF Done
    <3>2. \A i \in 1 .. n + 1 : i \in 1 .. n \/ i = n + 1
      BY <1>4
    <3>3. SUFFICES ASSUME NEW i \in 1 .. n + 1, NEW j \in 1 .. n + 1,
                          completed'[i].token = completed'[j].token
                   PROVE  i = j
      BY <1>4
    <3>4. CASE i \in 1 .. n /\ j \in 1 .. n
      BY <1>4, <2>1, <3>3, <3>4
    <3> QED
      BY <1>4, <3>1, <3>2, <3>3, <3>4
  <2>4. Queued' \subseteq Owed' /\ Done' \subseteq Owed' /\ Queued' \cap Done' = {}
    BY <1>1, <1>2, <1>4, <1>5, <2>1
  <2> QED
    BY <2>2, <2>3, <2>4 DEF Apart
<1>11. DriverHolds'
  <2>1. ASSUME NEW u \in InDriver'
        PROVE  endpointOf[u] \in Endpoints /\ u \in ToSet(inFlight'[endpointOf[u]])
    <3> DEFINE a == endpointOf[u]
    <3>3. \A b \in Endpoints :
            ToSet(inFlight'[b]) = IF b = e THEN (HeldAt(b) \ {t}) \cup M ELSE HeldAt(b)
      BY <1>6 DEF HeldAt
    <3>1. CASE u \in M
      <4>1. a = e /\ e \in Endpoints
        BY <1>1, <1>7, <3>1 DEF e
      <4> QED
        BY <3>1, <3>3, <4>1
    <3>2. CASE u \in InDriver /\ u # t
      <4>1. a \in Endpoints /\ u \in HeldAt(a)
        BY <3>2 DEF PlaceInv, DriverHolds, OwnWaits
      <4>2. ToSet(inFlight'[a]) = IF a = e THEN (HeldAt(a) \ {t}) \cup M ELSE HeldAt(a)
        BY <3>3, <4>1
      <4>3. u \in ToSet(inFlight'[a])
        BY <3>2, <4>1, <4>2
      <4> QED
        BY <4>1, <4>3
    <3> QED
      BY <1>2, <3>1, <3>2
  <2>2. ASSUME NEW a \in Endpoints
        PROVE  HeldAt(a)' \subseteq InDriver'
    <3>1. HeldAt(a) \subseteq InDriver
      BY DEF PlaceInv, DriverHolds
    <3>2. CASE a = e
      BY <1>2, <1>6, <3>1, <3>2
    <3>3. CASE a # e
      <4>1. t \notin HeldAt(a)
        BY <1>6, <3>3 DEF PlaceInv, Apart
      <4> QED
        BY <1>2, <1>6, <3>1, <3>3, <4>1
    <3> QED
      BY <3>2, <3>3
  <2> QED
    BY <1>6, <2>1, <2>2 DEF DriverHolds, HeldAt
<1>12. Numbered' /\ Windows'
  BY <1>1, <1>5 DEF PlaceInv, Numbered, Windows
<1>13. Discipline'
  <2>1. queued' # <<>> => queued # <<>>
    BY <1>2, Typed
  <2> QED
    BY <1>1, <2>1 DEF PlaceInv, Discipline
<1>14. Counted'
  <2>1. Len(driver) \in Nat /\ Len(queued) \in Nat /\ n = Len(completed)
    BY Typed DEF n
  <2>2. ~ResubmitsFail => r = 0
    BY <1>2
  <2>3. /\ Len(driver') = Len(driver) - 1 + k /\ Len(queued') = Len(queued) - k - r
        /\ Len(completed') = n + 1 /\ numInFlight' = numInFlight + k - 1 /\ k \in Nat
        /\ platform' = "Linux" /\ Cardinality(Owed)' = Cardinality(Owed)
    BY <1>1, <1>2, <1>4, <1>5
  <2>4. /\ numInFlight = Len(driver)
        /\ ~ResubmitsFail => Len(queued) + Len(driver) + n = Cardinality(Owed)
    BY <2>1 DEF PlaceInv, Counted
  <2>5. numInFlight' = Len(driver')
    BY <2>1, <2>3, <2>4
  <2>6. ~ResubmitsFail => Len(queued') + Len(driver') + Len(completed') = Cardinality(Owed)
    <3>1. n \in Nat /\ k \in Nat
      BY <1>4, <2>3
    <3>2. \A q, d, m, sum \in Int :
            q + d + m = sum => (q - k - 0) + (d - 1 + k) + (m + 1) = sum
      BY <3>1
    <3>3. Len(queued) \in Int /\ Len(driver) \in Int /\ n \in Int /\ Cardinality(Owed) \in Int
      BY <2>1, <3>1, Sets
    <3>4. SUFFICES ASSUME ~ResubmitsFail
                   PROVE  Len(queued') + Len(driver') + Len(completed') = Cardinality(Owed)
      OBVIOUS
    <3>5. Len(queued) + Len(driver) + n = Cardinality(Owed)
      BY <2>4, <3>4
    <3>6. (Len(queued) - k - 0) + (Len(driver) - 1 + k) + (n + 1) = Cardinality(Owed)
      BY <3>2, <3>3, <3>5
    <3>7. r = 0
      BY <2>2, <3>4
    <3> QED
      BY <2>3, <3>6, <3>7
  <2> QED
    BY <2>3, <2>5, <2>6 DEF Counted
<1> QED
  BY <1>8, <1>9, <1>10, <1>11, <1>12, <1>13, <1>14 DEF PlaceInv

\* The driver is done with a transfer.
LEMMA SignalStep ==
  ASSUME UsbTypeOK, PlaceInv, platform = "Windows", NEW t \in InDriver, NEW st \in Statuses,
         DriverSignals(t, st), UNCHANGED <<queued, oneEndpoint>>
  PROVE  PlaceInv' /\ InDriver' = InDriver \ {t} /\ driver' \in Seq(Token)
<1>1. /\ driver' = Without(driver, t) /\ event' = [event EXCEPT ![t] = st]
      /\ UNCHANGED <<platform, nextToken, endpointOf, inFlight, numInFlight, completed,
                     returned, caller>>
  BY DEF DriverSignals, DriverDrops, deviceVars
<1>2. /\ driver' \in Seq(Token) /\ Distinct(driver') /\ InDriver' = InDriver \ {t}
  <2>1. driver \in Seq(Token) /\ Distinct(driver) /\ t \in ToSet(driver)
    BY Typed DEF PlaceInv, Once, InDriver
  <2>2. /\ Without(driver, t) \in Seq(Token) /\ Distinct(Without(driver, t))
        /\ ToSet(Without(driver, t)) = ToSet(driver) \ {t}
    BY <2>1, WithoutOne
  <2> QED
    BY <1>1, <2>2 DEF InDriver
<1>3. /\ Queued' = Queued /\ Done' = Done /\ Owed' = Owed /\ ReturnedTokens' = ReturnedTokens
      /\ \A e \in Endpoints : HeldAt(e)' = HeldAt(e)
  BY <1>1 DEF Queued, Done, Owed, ReturnedTokens, HeldAt
<1>4. Once' /\ InOrder' /\ Apart'
  BY <1>1, <1>2, <1>3 DEF PlaceInv, Once, InOrder, Apart
<1>5. DriverHolds' /\ Discipline' /\ Counted'
  BY <1>1, <1>2, <1>3 DEF PlaceInv, DriverHolds, OwnWaits, Discipline, Counted, HeldAt
<1>6. Numbered'
  <2>1. t \in Token /\ endpointOf[t] # NULL
    BY Sets, UsbAssumption DEF PlaceInv, DriverHolds
  <2>2. t < nextToken
    BY <2>1 DEF PlaceInv, Numbered
  <2>3. \A u \in Token : u # t => event'[u] = event[u]
    BY <1>1, Typed
  <2> QED
    BY <1>1, <1>3, <2>2, <2>3 DEF PlaceInv, Numbered
<1>7. Windows'
  <2>1. \A u \in InDriver' : event'[u] = "unset"
    BY <1>1, <1>2, Typed, Sets DEF PlaceInv, Windows
  <2> QED
    BY <1>1, <2>1 DEF PlaceInv, Windows
<1> QED
  BY <1>2, <1>4, <1>5, <1>6, <1>7 DEF PlaceInv

\* A waiting thread returns the oldest transfer of an endpoint.
LEMMA LeaveEffect ==
  ASSUME UsbTypeOK, PlaceInv, platform = "Windows", NEW c \in Completers, WindowsLeave(c)
  PROVE  \E t \in Token, st \in Statuses :
           LET e == endpointOf[t] IN
           /\ e \in Endpoints /\ inFlight[e] # <<>> /\ t = inFlight[e][1]
           /\ inFlight' = [inFlight EXCEPT ![e] = Tail(@)]
           /\ numInFlight' = numInFlight - 1 /\ completed' = <<>>
           /\ returned' = Append(returned, [token |-> t, status |-> st])
           /\ OneCompleter => t \notin InDriver
<1>1. PICK w \in caller[c].watch :
        LET e == endpointOf[w]
            t == inFlight[e][1]
            d == IF event[t] = "SUCCESS" THEN "SUCCESS" ELSE "CANCELLED"
            all == Append(completed, [token |-> t, status |-> d])
        IN  /\ event[w] # "unset" /\ inFlight[e] # <<>>
            /\ inFlight' = [inFlight EXCEPT ![e] = Tail(@)]
            /\ numInFlight' = numInFlight - 1
            /\ returned' = Append(returned, Head(all)) /\ completed' = Tail(all)
  BY DEF WindowsLeave
<1> DEFINE e == endpointOf[w]
           t == inFlight[e][1]
           d == IF event[t] = "SUCCESS" THEN "SUCCESS" ELSE "CANCELLED"
           x == [token |-> t, status |-> d]
<1>2. /\ e \in Endpoints /\ inFlight[e] # <<>> /\ event[w] # "unset"
      /\ OneCompleter => w = t
  BY <1>1 DEF PlaceInv, Windows, WindowsLeave
<1>3. inFlight[e] \in Seq(Token)
  BY <1>2, Typed
<1>4. t \in HeldAt(e) /\ t \in Token
  BY <1>2, <1>3 DEF HeldAt, ToSet
<1>5. endpointOf[t] = e
  BY <1>2, <1>4 DEF PlaceInv, Apart
<1>6. d \in Statuses
  BY DEF Statuses
<1>7. Append(completed, x) = <<x>>
  BY DEF PlaceInv, Windows
<1>8. Head(<<x>>) = x /\ Tail(<<x>>) = <<>>
  OBVIOUS
<1>9. returned' = Append(returned, x) /\ completed' = <<>>
  BY <1>1, <1>7, <1>8
<1>10. OneCompleter => t \notin InDriver
  BY <1>2 DEF PlaceInv, Windows
<1>11. inFlight' = [inFlight EXCEPT ![e] = Tail(@)] /\ numInFlight' = numInFlight - 1
  BY <1>1
<1> HIDE DEF e, d, t
<1>12. /\ endpointOf[t] \in Endpoints /\ inFlight[endpointOf[t]] # <<>>
       /\ t = inFlight[endpointOf[t]][1]
       /\ inFlight' = [inFlight EXCEPT ![endpointOf[t]] = Tail(@)]
  BY <1>2, <1>5, <1>11 DEF t
<1> QED
  BY <1>4, <1>6, <1>9, <1>10, <1>11, <1>12

\* The rest of a list that is not empty.
LEMMA TailOf ==
  ASSUME NEW s \in Seq(Token), Distinct(s), s # <<>>
  PROVE  /\ Tail(s) \in Seq(Token) /\ Distinct(Tail(s))
         /\ (Ascending(s) => Ascending(Tail(s)))
         /\ s[1] \in ToSet(s) /\ ToSet(Tail(s)) = ToSet(s) \ {s[1]}
<1> DEFINE n    == Len(s)
           rest == Tail(s)
<1>1. /\ rest \in Seq(Token) /\ Len(rest) = n - 1
      /\ \A i \in 1 .. n - 1 : rest[i] = s[i + 1]
  BY HeadTailProperties
<1>2. n \in Nat \ {0} /\ DOMAIN s = 1 .. n
  OBVIOUS
<1>3. DOMAIN rest = 1 .. n - 1
  BY <1>1, <1>2
<1> HIDE DEF n, rest
<1>4. \A i, j \in 1 .. n : s[i] = s[j] => i = j
  BY <1>2 DEF Distinct
<1>5. \A i \in 1 .. n - 1 : i + 1 \in 1 .. n /\ i + 1 # 1
  BY <1>2
<1>6. Distinct(rest)
  <2>1. SUFFICES ASSUME NEW i \in 1 .. n - 1, NEW j \in 1 .. n - 1, rest[i] = rest[j]
                 PROVE  i = j
    BY <1>3 DEF Distinct
  <2>2. s[i + 1] = s[j + 1] /\ i + 1 \in 1 .. n /\ j + 1 \in 1 .. n
    BY <1>1, <1>5, <2>1
  <2>3. i + 1 = j + 1
    BY <1>4, <2>2
  <2> QED
    BY <2>3
<1>7. ASSUME Ascending(s)
      PROVE  Ascending(rest)
  <2>1. SUFFICES ASSUME NEW i \in 1 .. n - 1, NEW j \in 1 .. n - 1, i < j
                 PROVE  rest[i] < rest[j]
    BY <1>3 DEF Ascending
  <2>2. i + 1 \in 1 .. n /\ j + 1 \in 1 .. n /\ i + 1 < j + 1
    BY <1>2, <2>1
  <2> QED
    BY <1>1, <1>2, <1>7, <2>2 DEF Ascending
<1>8. 1 \in 1 .. n /\ s[1] \in ToSet(s)
  BY <1>2 DEF ToSet
<1>9. ToSet(rest) = ToSet(s) \ {s[1]}
  <2>1. ASSUME NEW i \in 1 .. n - 1
        PROVE  rest[i] \in ToSet(s) /\ rest[i] # s[1]
    BY <1>1, <1>2, <1>4, <1>5, <1>8 DEF ToSet
  <2>2. ASSUME NEW k \in 1 .. n, k # 1
        PROVE  s[k] \in ToSet(rest)
    <3>1. PICK i \in 1 .. n - 1 : i = k - 1
      BY <1>2, <2>2
    <3>2. i + 1 = k
      BY <3>1
    <3>3. rest[i] = s[k]
      BY <1>1, <3>2
    <3> QED
      BY <1>3, <3>3 DEF ToSet
  <2>3. ToSet(s) = {s[i] : i \in 1 .. n}
    BY <1>2 DEF ToSet
  <2>4. ToSet(rest) = {rest[i] : i \in 1 .. n - 1}
    BY <1>3 DEF ToSet
  <2> QED
    BY <2>1, <2>2, <2>3, <2>4
<1> QED
  BY <1>1, <1>6, <1>7, <1>8, <1>9 DEF rest

\* A transfer joins the returned ones.
LEMMA ReturnedGrows ==
  ASSUME UsbTypeOK, NEW a \in Answer, returned' = Append(returned, a)
  PROVE  returned' \in Seq(Answer) /\ ReturnedTokens' = ReturnedTokens \cup {a.token}
<1> DEFINE n == Len(returned)
<1>1. /\ returned' \in Seq(Answer) /\ Len(returned') = n + 1
      /\ \A i \in 1 .. n : returned'[i] = returned[i]
      /\ returned'[n + 1] = a
  BY Typed, AppendProperties
<1>2. /\ n \in Nat /\ DOMAIN returned = 1 .. n /\ DOMAIN returned' = 1 .. n + 1
  BY <1>1, Typed
<1> HIDE DEF n
<1>3. \A i \in 1 .. n + 1 : i \in 1 .. n \/ i = n + 1
  BY <1>2
<1>4. \A i \in 1 .. n : i \in 1 .. n + 1
  BY <1>2
<1>5. n + 1 \in 1 .. n + 1
  BY <1>2
<1> QED
  BY <1>1, <1>2, <1>3, <1>4, <1>5 DEF ReturnedTokens

LEMMA LeaveStep ==
  ASSUME UsbTypeOK, PlaceInv, platform = "Windows", NEW c \in Completers, WindowsLeave(c),
         UNCHANGED <<queued, oneEndpoint>>
  PROVE  /\ PlaceInv' /\ returned' \in Seq(Answer) /\ numInFlight' \in Nat
         /\ inFlight' \in [Endpoints -> Seq(Token)]
<1>1. PICK t \in Token, st \in Statuses :
        LET e == endpointOf[t] IN
        /\ e \in Endpoints /\ inFlight[e] # <<>> /\ t = inFlight[e][1]
        /\ inFlight' = [inFlight EXCEPT ![e] = Tail(@)]
        /\ numInFlight' = numInFlight - 1 /\ completed' = <<>>
        /\ returned' = Append(returned, [token |-> t, status |-> st])
        /\ OneCompleter => t \notin InDriver
  BY LeaveEffect
<1> DEFINE e == endpointOf[t]
<1>2. /\ UNCHANGED <<platform, nextToken, endpointOf, driver, event>>
      /\ caller' = [caller EXCEPT ![c] = Idle]
  BY DEF WindowsLeave, deviceVars, driverVars
<1>3. inFlight[e] \in Seq(Token) /\ Distinct(inFlight[e]) /\ inFlight[e] # <<>>
  BY <1>1, Typed DEF PlaceInv, Once
<1>4. t \in HeldAt(e) /\ t \in Owed
  BY <1>1, <1>3, TailOf DEF HeldAt, PlaceInv, Apart
<1>5. inFlight' = [inFlight EXCEPT ![e] = Tail(@)] /\ inFlight \in [Endpoints -> Seq(Token)]
  BY <1>1, Typed
<1>6. /\ inFlight'[e] = Tail(inFlight[e])
      /\ \A a \in Endpoints : a # e => inFlight'[a] = inFlight[a]
  BY <1>1, <1>5
<1>7. /\ inFlight'[e] \in Seq(Token) /\ Distinct(inFlight'[e])
      /\ (Ascending(inFlight[e]) => Ascending(inFlight'[e]))
      /\ ToSet(inFlight'[e]) = ToSet(inFlight[e]) \ {t}
  BY <1>1, <1>3, <1>6, TailOf
<1>8. \A a \in Endpoints : HeldAt(a)' = IF a = e THEN HeldAt(a) \ {t} ELSE HeldAt(a)
  BY <1>6, <1>7 DEF HeldAt
<1>9. inFlight' \in [Endpoints -> Seq(Token)]
  BY <1>1, <1>5, <1>7
<1>10. returned' \in Seq(Answer) /\ ReturnedTokens' = ReturnedTokens \cup {t}
  <2>1. [token |-> t, status |-> st] \in Answer
    BY DEF Answer
  <2> QED
    BY <1>1, <2>1, ReturnedGrows
<1> HIDE DEF e
<1>11. Owed' = Owed \ {t}
  BY <1>2, <1>10 DEF Owed
<1>12. Cardinality(Owed)' = Cardinality(Owed) - 1
  BY <1>4, <1>11, Sets, FS_RemoveElement
<1>13. /\ InDriver' = InDriver /\ Queued' = {} /\ Queued = {} /\ queued = <<>>
       /\ Done' = {} /\ completed = <<>> /\ queued' = <<>> /\ completed' = <<>>
  BY <1>1, <1>2 DEF PlaceInv, Windows, InDriver, Queued, Done, ToSet
<1>14. e = endpointOf[t] /\ e \in Endpoints
  BY <1>1 DEF e
<1>15. Once'
  BY <1>2, <1>6, <1>7 DEF PlaceInv, Once
<1>16. InOrder'
  BY <1>2, <1>6, <1>7 DEF PlaceInv, InOrder
<1>17. Apart'
  <2>1. ASSUME NEW a \in Endpoints, NEW u \in HeldAt(a)'
        PROVE  endpointOf'[u] = a /\ u \in Owed'
    <3>1. u \in HeldAt(a) /\ (a = e => u # t)
      BY <1>8, <2>1
    <3>2. endpointOf[u] = a /\ u \in Owed
      BY <3>1 DEF PlaceInv, Apart
    <3> QED
      BY <1>2, <1>11, <1>14, <3>1, <3>2
  <2> QED
    BY <1>13, <2>1 DEF Apart
<1>18. DriverHolds'
  <2>1. ASSUME OwnWaits, NEW u \in InDriver
        PROVE  u \in ToSet(inFlight'[endpointOf[u]])
    <3>1. OneCompleter /\ u # t
      BY <1>1, <2>1 DEF OwnWaits
    <3>2. endpointOf[u] \in Endpoints /\ u \in HeldAt(endpointOf[u])
      BY <2>1 DEF PlaceInv, DriverHolds
    <3> QED
      BY <1>8, <3>1, <3>2 DEF HeldAt
  <2> QED
    BY <1>2, <1>13, <2>1 DEF PlaceInv, DriverHolds, OwnWaits, HeldAt
<1>19. Numbered' /\ Discipline'
  BY <1>2, <1>4, <1>10, <1>13 DEF PlaceInv, Numbered, Discipline, Owed
<1>20. Windows'
  <2>1. \A d \in Completers : d # c => caller'[d] = caller[d]
    BY <1>2, Typed
  <2>2. caller'[c].at = "idle"
    BY <1>2, Typed DEF Idle
  <2>3. OneCompleter => \A d \in Completers : d = c
    BY DEF OneCompleter
  <2> QED
    BY <1>2, <1>13, <2>1, <2>2, <2>3 DEF PlaceInv, Windows
<1>21. Counted' /\ numInFlight' \in Nat
  <2>1. Cardinality(Owed) \in Nat /\ Cardinality(Owed)' \in Nat
    <3>1. IsFiniteSet(Owed \ {t})
      BY Sets, FS_Subset
    <3> QED
      BY <1>11, <3>1, Sets, FS_CardinalityType
  <2>2. numInFlight = Cardinality(Owed)
    BY DEF PlaceInv, Counted
  <2> QED
    BY <1>1, <1>2, <1>12, <2>1, <2>2 DEF Counted
<1> QED
  BY <1>9, <1>10, <1>15, <1>16, <1>17, <1>18, <1>19, <1>20, <1>21 DEF PlaceInv

-----------------------------------------------------------------------------
(* Each action keeps the types and the invariant *)

UsbInv == UsbTypeOK /\ PlaceInv

LEMMA InitUsbInv == MCInit => UsbInv
<1> SUFFICES ASSUME MCInit PROVE UsbInv
  OBVIOUS
<1> USE DEF MCInit, CommonInit, LinuxInit, WindowsInit
<1>1. InDriver = {} /\ Queued = {} /\ Done = {} /\ ReturnedTokens = {} /\ Owed = {}
  BY DEF InDriver, Queued, Done, ReturnedTokens, Owed, ToSet
<1>2. \A e \in Endpoints : inFlight[e] = <<>> /\ HeldAt(e) = {}
  BY DEF HeldAt, ToSet
<1>3. UsbTypeOK
  <2>1. nextToken \in 0 .. MaxTokens /\ numInFlight \in Nat
    BY UsbAssumption
  <2>2. caller \in [Completers -> [at : {"idle", "waiting"}, watch : SUBSET Token]]
    BY DEF Idle
  <2>3. completed \in Seq(Answer) /\ returned \in Seq(Answer)
    OBVIOUS
  <2>4. driver \in Seq(Token) /\ queued \in Seq(Token)
    OBVIOUS
  <2>5. inFlight \in [Endpoints -> Seq(Token)] /\ endpointOf \in [Token -> Endpoints \cup {NULL}]
    OBVIOUS
  <2>6. /\ link \in {"closed", "half", "open"} /\ cancelling \subseteq InDriver
        /\ platform \in {"Linux", "Windows"}
        /\ completedFlag \in BOOLEAN /\ controlling \in BOOLEAN
    OBVIOUS
  <2>7. WindowsTypeOK
    BY DEF WindowsTypeOK
  <2> QED
    BY <2>1, <2>2, <2>3, <2>4, <2>5, <2>6, <2>7 DEF UsbTypeOK, CommonTypeOK, LinuxTypeOK
<1>4. Distinct(<<>>) /\ Ascending(<<>>)
  BY DEF Distinct, Ascending
<1>5. Once /\ InOrder
  BY <1>1, <1>2, <1>4 DEF Once, InOrder
<1>6. Apart /\ DriverHolds
  BY <1>1, <1>2 DEF Apart, DriverHolds
<1>7. Numbered /\ Discipline
  BY <1>1 DEF Numbered, Discipline
<1>8. Windows
  BY <1>1 DEF Windows, Idle
<1>9. Counted
  BY <1>1, FS_EmptySet DEF Counted
<1> QED
  BY <1>3, <1>5, <1>6, <1>7, <1>8, <1>9 DEF UsbInv, PlaceInv

\* A thread is idle or waits for transfers.
LEMMA CallerTyped ==
  ASSUME UsbTypeOK, NEW c \in Completers, NEW at \in {"idle", "waiting"},
         NEW watch \in SUBSET Token
  PROVE  /\ [caller EXCEPT ![c] = [at |-> at, watch |-> watch]] \in
              [Completers -> [at : {"idle", "waiting"}, watch : SUBSET Token]]
         /\ [caller EXCEPT ![c] = Idle] \in
              [Completers -> [at : {"idle", "waiting"}, watch : SUBSET Token]]
BY Typed DEF Idle

\* The device is searched for, opened or closed, or libusb entered or left.
LEMMA LinkKeeps ==
  ASSUME UsbInv,
         UNCHANGED <<platform, nextToken, endpointOf, inFlight, numInFlight, completed,
                     returned, caller, driverVars, queued, completedFlag, windowsVars,
                     oneEndpoint>>,
         link' \in {"closed", "half", "open"}, controlling' \in BOOLEAN
  PROVE  UsbInv'
<1>1. UsbTypeOK'
  BY DEF UsbInv, UsbTypeOK, CommonTypeOK, LinuxTypeOK, WindowsTypeOK, driverVars, windowsVars,
         InDriver
<1>2. PlaceInv'
  <2>1. UNCHANGED <<driver, event>>
    BY DEF driverVars, windowsVars
  <2>2. \A c \in Completers : caller'[c].at = "waiting" => caller'[c] = caller[c]
    OBVIOUS
  <2> QED
    BY <2>1, <2>2, QuietStep DEF UsbInv
<1> QED
  BY <1>1, <1>2 DEF UsbInv

LEMMA LinuxSubmitKeeps ==
  ASSUME UsbInv, OnLinux, NEW e \in Endpoints, NEW dir \in {"IN", "OUT"}, MaySubmit(e),
         LinuxSubmitTransfer(e, dir)
  PROVE  UsbInv'
<1>1. UsbTypeOK /\ PlaceInv /\ nextToken \in Token
  BY DEF UsbInv, LinuxSubmitTransfer
<1>2. /\ nextToken' = nextToken + 1
      /\ UNCHANGED <<platform, bus, link, completed, returned, caller, cancelling,
                     completedFlag, controlling, status, event, oneEndpoint>>
  BY DEF LinuxSubmitTransfer, OnLinux, deviceVars, windowsVars
<1>3. nextToken' \in 0 .. MaxTokens
  BY <1>1, <1>2, Typed, UsbAssumption DEF Token
<1>4. CASE UNCHANGED <<endpointOf, inFlight, numInFlight, driver, queued>>
  <2>1. UsbTypeOK'
    BY <1>1, <1>2, <1>3, <1>4
       DEF UsbTypeOK, CommonTypeOK, LinuxTypeOK, WindowsTypeOK, InDriver
  <2>2. PlaceInv'
    BY <1>1, <1>2, <1>4, TokenLost
  <2> QED
    BY <2>1, <2>2 DEF UsbInv
<1>5. CASE /\ endpointOf' = [endpointOf EXCEPT ![nextToken] = e]
           /\ IF Len(inFlight[e]) < MAX_IN_FLIGHT
              THEN /\ inFlight' = [inFlight EXCEPT ![e] = Append(@, nextToken)]
                   /\ numInFlight' = numInFlight + 1 /\ driver' = Append(driver, nextToken)
                   /\ queued' = queued
              ELSE /\ queued' = Append(queued, nextToken)
                   /\ UNCHANGED <<inFlight, numInFlight, driver>>
  <2>1. endpointOf' \in [Token -> Endpoints \cup {NULL}]
    BY <1>1, <1>5, Typed
  <2>2. CASE Len(inFlight[e]) < MAX_IN_FLIGHT
    <3>1. /\ inFlight' = [inFlight EXCEPT ![e] = Append(@, nextToken)]
          /\ numInFlight' = numInFlight + 1 /\ driver' = Append(driver, nextToken)
          /\ queued' = queued
      BY <1>5, <2>2
    <3>2. /\ inFlight' \in [Endpoints -> Seq(Token)] /\ driver' \in Seq(Token)
          /\ numInFlight' \in Nat
      BY <1>1, <3>1, Typed
    <3>3. InDriver \subseteq InDriver'
      <4>1. Distinct(driver) /\ \A u \in ToSet(driver) : u < nextToken
        BY <1>1, NextIsNew DEF PlaceInv, Once, InDriver
      <4> QED
        BY <1>1, <3>1, <4>1, Typed, AppendLater DEF InDriver
    <3>4. UsbTypeOK'
      BY <1>1, <1>2, <1>3, <2>1, <3>1, <3>2, <3>3
         DEF UsbTypeOK, CommonTypeOK, LinuxTypeOK, WindowsTypeOK
    <3>5. oneEndpoint \in {NULL, e}
      BY DEF MaySubmit
    <3>6. PlaceInv'
      BY <1>1, <1>2, <1>5, <2>2, <3>1, <3>5, SubmitStarts
    <3> QED
      BY <3>4, <3>6 DEF UsbInv
  <2>3. CASE ~(Len(inFlight[e]) < MAX_IN_FLIGHT)
    <3>1. /\ queued' = Append(queued, nextToken)
          /\ UNCHANGED <<inFlight, numInFlight, driver>>
      BY <1>5, <2>3
    <3>2. queued' \in Seq(Token)
      BY <1>1, <3>1, Typed
    <3>3. UsbTypeOK'
      BY <1>1, <1>2, <1>3, <2>1, <3>1, <3>2
         DEF UsbTypeOK, CommonTypeOK, LinuxTypeOK, WindowsTypeOK, InDriver
    <3>4. oneEndpoint = e
      BY <2>3 DEF MaySubmit
    <3>5. PlaceInv'
      BY <1>1, <1>2, <1>5, <2>3, <3>1, <3>4, SubmitQueues DEF OnLinux
    <3> QED
      BY <3>3, <3>5 DEF UsbInv
  <2> QED
    BY <2>2, <2>3
<1> QED
  BY <1>4, <1>5 DEF LinuxSubmitTransfer

\* completeTransfer returns a completed transfer or -1, here of Linux.
LEMMA LinuxReturnsKeeps ==
  ASSUME UsbInv, OnLinux, NEW c \in Completers, Returns(c), completedFlag' \in BOOLEAN,
         UNCHANGED <<deviceVars, nextToken, endpointOf, inFlight, numInFlight, driverVars,
                     queued, controlling>>
  PROVE  UsbInv'
<1>1. /\ UsbTypeOK /\ PlaceInv /\ platform = "Linux"
      /\ UNCHANGED <<platform, bus, link, nextToken, endpointOf, inFlight, numInFlight,
                     driver, cancelling, queued, controlling, status, event, oneEndpoint>>
  BY DEF UsbInv, OnLinux, deviceVars, driverVars, windowsVars
<1>2. caller' = [caller EXCEPT ![c] = Idle]
  BY DEF Returns, PopCompleted, NothingReady
<1>3. caller' \in [Completers -> [at : {"idle", "waiting"}, watch : SUBSET Token]]
  BY <1>1, <1>2, CallerTyped
<1>4. CASE PopCompleted(c)
  <2>1. completed' \in Seq(Answer) /\ returned' \in Seq(Answer)
    BY <1>1, <1>4, PopReturns
  <2>2. UsbTypeOK'
    BY <1>1, <1>3, <2>1 DEF UsbTypeOK, CommonTypeOK, LinuxTypeOK, WindowsTypeOK, InDriver
  <2>3. PlaceInv'
    BY <1>1, <1>4, PopStep
  <2> QED
    BY <2>2, <2>3 DEF UsbInv
<1>5. CASE NothingReady(c)
  <2>1. UNCHANGED <<returned, completed>>
    BY <1>5 DEF NothingReady
  <2>2. UsbTypeOK'
    BY <1>1, <1>3, <2>1 DEF UsbTypeOK, CommonTypeOK, LinuxTypeOK, WindowsTypeOK, InDriver
  <2>3. \A d \in Completers : caller'[d].at = "waiting" =>
          caller'[d] = caller[d] \/ (platform = "Windows" => caller'[d].watch = Oldest)
    BY <1>1
  <2>4. PlaceInv'
    BY <1>1, <2>1, <2>3, QuietStep
  <2> QED
    BY <2>2, <2>4 DEF UsbInv
<1> QED
  BY <1>4, <1>5 DEF Returns

LEMMA LinuxCompleteKeeps ==
  ASSUME UsbInv, OnLinux, LinuxComplete
  PROVE  UsbInv'
<1>1. PICK c \in Completers : LinuxEnter(c) \/ LinuxLeave(c)
  BY DEF LinuxComplete
<1>2. /\ UsbTypeOK /\ PlaceInv /\ platform = "Linux"
      /\ UNCHANGED <<deviceVars, nextToken, endpointOf, inFlight, numInFlight, driverVars,
                     queued, controlling>>
  BY <1>1 DEF LinuxEnter, LinuxLeave, UsbInv, OnLinux
<1>3. CASE Returns(c) /\ completedFlag' \in BOOLEAN
  BY <1>2, <1>3, LinuxReturnsKeeps
<1>4. CASE /\ caller' = [caller EXCEPT ![c].at = "waiting"]
           /\ UNCHANGED <<returned, completed, completedFlag>>
  <2>1. caller' \in [Completers -> [at : {"idle", "waiting"}, watch : SUBSET Token]]
    BY <1>2, <1>4, Typed
  <2>2. UNCHANGED <<platform, bus, link, driver, cancelling, status, event, oneEndpoint>>
    BY <1>2 DEF OnLinux, deviceVars, driverVars, windowsVars
  <2>3. UsbTypeOK'
    BY <1>2, <1>4, <2>1, <2>2 DEF UsbTypeOK, CommonTypeOK, LinuxTypeOK, WindowsTypeOK, InDriver
  <2>4. PlaceInv'
    BY <1>2, <1>4, <2>2, QuietStep
  <2> QED
    BY <2>3, <2>4 DEF UsbInv
<1>5. completedFlag \in BOOLEAN
  BY <1>2 DEF UsbTypeOK, LinuxTypeOK
<1> QED
  BY <1>1, <1>3, <1>4, <1>5 DEF LinuxEnter, LinuxLeave, Returns

LEMMA LinuxCancelKeeps ==
  ASSUME UsbInv, OnLinux, LinuxCancelTransfers
  PROVE  UsbInv'
<1>1. /\ UsbTypeOK /\ PlaceInv /\ platform = "Linux"
      /\ UNCHANGED <<platform, bus, link, nextToken, endpointOf, inFlight, numInFlight,
                     returned, caller, driver, completedFlag, controlling, status, event,
                     oneEndpoint>>
  BY DEF UsbInv, OnLinux, LinuxCancelTransfers, deviceVars, windowsVars
<1>2. completed' \in Seq(Answer) /\ queued' = <<>> /\ cancelling' \subseteq InDriver
  BY <1>1, CancelCompletes DEF LinuxCancelTransfers
<1>3. queued' \in Seq(Token)
  BY <1>2
<1>4. UsbTypeOK'
  BY <1>1, <1>2, <1>3 DEF UsbTypeOK, CommonTypeOK, LinuxTypeOK, WindowsTypeOK, InDriver
<1>5. PlaceInv'
  BY <1>1, CancelStep
<1> QED
  BY <1>4, <1>5 DEF UsbInv

LEMMA LinuxCallbackKeeps ==
  ASSUME UsbInv, OnLinux, LinuxCallback
  PROVE  UsbInv'
<1>1. PICK t \in InDriver, st \in Statuses : TransferComplete(t, st)
  BY DEF LinuxCallback
<1>2. /\ UsbTypeOK /\ PlaceInv /\ platform = "Linux"
      /\ UNCHANGED <<platform, bus, link, nextToken, endpointOf, returned, caller,
                     controlling, status, event, oneEndpoint>>
      /\ cancelling' = cancelling \ {t}
      /\ completedFlag' = (completedFlag \/ t \in HeldAt(endpointOf[t]))
  BY <1>1 DEF UsbInv, OnLinux, TransferComplete, deviceVars, windowsVars
<1>3. /\ completed' = Append(completed, [token |-> t, status |-> st])
      /\ \E M \in SUBSET Queued :
           /\ queued' \in Seq(Token) /\ inFlight' \in [Endpoints -> Seq(Token)]
           /\ driver' \in Seq(Token) /\ InDriver' = (InDriver \ {t}) \cup M
  BY <1>1, <1>2, CallbackEffect
<1>4. completed' \in Seq(Answer)
  <2>1. [token |-> t, status |-> st] \in Answer
    BY <1>2, Sets DEF Answer
  <2> QED
    BY <1>2, <1>3, <2>1, CompletedGrows
<1>5. PlaceInv'
  BY <1>1, <1>2, CallbackStep
<1>6. numInFlight' \in Nat
  BY <1>2, <1>3, <1>5 DEF PlaceInv, Counted
<1>7. cancelling' \subseteq InDriver'
  BY <1>2, <1>3 DEF UsbTypeOK, CommonTypeOK
<1>8. completedFlag' \in BOOLEAN
  BY <1>2 DEF UsbTypeOK, LinuxTypeOK
<1>9. UsbTypeOK'
  BY <1>2, <1>3, <1>4, <1>6, <1>7, <1>8
     DEF UsbTypeOK, CommonTypeOK, LinuxTypeOK, WindowsTypeOK
<1> QED
  BY <1>5, <1>9 DEF UsbInv

LEMMA WindowsSubmitKeeps ==
  ASSUME UsbInv, OnWindows, NEW e \in Endpoints, MaySubmit(e), WindowsSubmitTransfer(e)
  PROVE  UsbInv'
<1>1. UsbTypeOK /\ PlaceInv /\ nextToken \in Token /\ platform = "Windows"
  BY DEF UsbInv, WindowsSubmitTransfer, OnWindows
<1>2. /\ nextToken' = nextToken + 1
      /\ UNCHANGED <<platform, bus, link, completed, returned, caller, cancelling,
                     queued, completedFlag, controlling, oneEndpoint>>
  BY DEF WindowsSubmitTransfer, OnWindows, deviceVars, linuxVars
<1>3. nextToken' \in 0 .. MaxTokens
  BY <1>1, <1>2, Typed, UsbAssumption DEF Token
<1>4. CASE UNCHANGED <<endpointOf, inFlight, numInFlight, driver, status, event>>
  <2>1. UsbTypeOK'
    BY <1>1, <1>2, <1>3, <1>4
       DEF UsbTypeOK, CommonTypeOK, LinuxTypeOK, WindowsTypeOK, InDriver
  <2>2. PlaceInv'
    BY <1>1, <1>2, <1>4, TokenLost
  <2> QED
    BY <2>1, <2>2 DEF UsbInv
<1>5. CASE /\ endpointOf' = [endpointOf EXCEPT ![nextToken] = e]
           /\ inFlight' = [inFlight EXCEPT ![e] = Append(@, nextToken)]
           /\ numInFlight' = numInFlight + 1
           /\ \/ /\ driver' = Append(driver, nextToken)
                 /\ UNCHANGED <<status, event>>
              \/ /\ status' = [status EXCEPT ![nextToken] = "SUCCESS"]
                 /\ event' = [event EXCEPT ![nextToken] = "SUCCESS"]
                 /\ UNCHANGED driver
  <2>1. /\ endpointOf' \in [Token -> Endpoints \cup {NULL}]
        /\ inFlight' \in [Endpoints -> Seq(Token)] /\ numInFlight' \in Nat
    BY <1>1, <1>5, Typed
  <2>2. driver' \in Seq(Token) /\ InDriver \subseteq InDriver'
    <3>1. Distinct(driver) /\ \A u \in ToSet(driver) : u < nextToken
      BY <1>1, NextIsNew DEF PlaceInv, Once, InDriver
    <3>2. CASE driver' = Append(driver, nextToken)
      BY <1>1, <3>1, <3>2, Typed, AppendLater DEF InDriver
    <3>3. CASE driver' = driver
      BY <1>1, <3>3, Typed DEF InDriver
    <3> QED
      BY <1>5, <3>2, <3>3
  <2>3. WindowsTypeOK'
    <3>1. WindowsTypeOK
      BY <1>1 DEF UsbTypeOK
    <3> QED
      BY <1>5, <3>1 DEF WindowsTypeOK, Statuses
  <2>4. UsbTypeOK'
    BY <1>1, <1>2, <1>3, <2>1, <2>2, <2>3 DEF UsbTypeOK, CommonTypeOK, LinuxTypeOK
  <2>5. oneEndpoint \in {NULL, e}
    BY DEF MaySubmit
  <2>6. PlaceInv'
    BY <1>1, <1>2, <1>5, <2>5, SubmitStarts
  <2> QED
    BY <2>4, <2>6 DEF UsbInv
<1> QED
  BY <1>4, <1>5 DEF WindowsSubmitTransfer

LEMMA WindowsCompleteKeeps ==
  ASSUME UsbInv, OnWindows, WindowsComplete
  PROVE  UsbInv'
<1>1. PICK c \in Completers : WindowsEnter(c) \/ WindowsLeave(c)
  BY DEF WindowsComplete
<1>2. /\ UsbTypeOK /\ PlaceInv /\ platform = "Windows"
      /\ UNCHANGED <<platform, bus, link, nextToken, endpointOf, driver, cancelling,
                     queued, completedFlag, controlling, event, oneEndpoint>>
  BY <1>1 DEF UsbInv, OnWindows, WindowsEnter, WindowsLeave, deviceVars, driverVars,
              linuxVars, windowsVars
<1>3. Oldest \in SUBSET Token
  <2>1. ASSUME NEW e \in Endpoints, inFlight[e] # <<>>
        PROVE  inFlight[e][1] \in Token
    <3>1. inFlight[e] \in Seq(Token)
      BY <1>2, Typed
    <3> QED
      BY <2>1, <3>1
  <2> QED
    BY <2>1 DEF Oldest
<1>4. completed = <<>>
  BY <1>2 DEF PlaceInv, Windows
<1>5. CASE WindowsEnter(c)
  <2>1. UNCHANGED <<inFlight, numInFlight, completed, returned, status>>
    BY <1>4, <1>5 DEF WindowsEnter, windowsVars, Returns, PopCompleted, NothingReady
  <2>2. \/ caller' = [caller EXCEPT ![c] = [at |-> "waiting", watch |-> Oldest]]
        \/ caller' = [caller EXCEPT ![c] = Idle]
    BY <1>5 DEF WindowsEnter, Returns, PopCompleted, NothingReady
  <2>3. caller' \in [Completers -> [at : {"idle", "waiting"}, watch : SUBSET Token]]
    BY <1>2, <1>3, <2>2, CallerTyped
  <2>4. \A d \in Completers : caller'[d].at = "waiting" =>
          caller'[d] = caller[d] \/ (platform = "Windows" => caller'[d].watch = Oldest)
    BY <1>2, <2>2, Typed DEF Idle
  <2>5. UsbTypeOK'
    BY <1>2, <2>1, <2>3 DEF UsbTypeOK, CommonTypeOK, LinuxTypeOK, WindowsTypeOK, InDriver
  <2>6. PlaceInv'
    BY <1>2, <2>1, <2>4, QuietStep
  <2> QED
    BY <2>5, <2>6 DEF UsbInv
<1>6. CASE WindowsLeave(c)
  <2>1. /\ PlaceInv' /\ returned' \in Seq(Answer) /\ numInFlight' \in Nat
        /\ inFlight' \in [Endpoints -> Seq(Token)]
    BY <1>2, <1>6, LeaveStep
  <2>2. completed' \in Seq(Answer)
    BY <1>2, <2>1 DEF PlaceInv, Windows
  <2>3. caller' = [caller EXCEPT ![c] = Idle]
    BY <1>6 DEF WindowsLeave
  <2>4. caller' \in [Completers -> [at : {"idle", "waiting"}, watch : SUBSET Token]]
    BY <1>2, <2>3, CallerTyped
  <2>5. status' \in [Token -> Statuses \cup {"IN_PROGRESS"}]
    <3>1. status \in [Token -> Statuses \cup {"IN_PROGRESS"}]
      BY <1>2 DEF UsbTypeOK, WindowsTypeOK
    <3>2. \E t, st : st \in Statuses /\ status' = [status EXCEPT ![t] = st]
      BY <1>6 DEF WindowsLeave, Statuses
    <3> QED
      BY <3>1, <3>2
  <2>6. UsbTypeOK'
    BY <1>2, <2>1, <2>2, <2>4, <2>5
       DEF UsbTypeOK, CommonTypeOK, LinuxTypeOK, WindowsTypeOK, InDriver
  <2> QED
    BY <2>1, <2>6 DEF UsbInv
<1> QED
  BY <1>1, <1>5, <1>6

LEMMA WindowsDriverKeeps ==
  ASSUME UsbInv, OnWindows, WindowsDriver
  PROVE  UsbInv'
<1>1. PICK t \in InDriver, st \in Statuses : DriverSignals(t, st)
  BY DEF WindowsDriver
<1>2. /\ UsbTypeOK /\ PlaceInv /\ platform = "Windows"
      /\ UNCHANGED <<platform, bus, link, nextToken, endpointOf, inFlight, numInFlight,
                     completed, returned, caller, queued, completedFlag, controlling, status,
                     oneEndpoint>>
      /\ cancelling' = cancelling \ {t} /\ event' = [event EXCEPT ![t] = st]
  BY <1>1 DEF UsbInv, OnWindows, DriverSignals, DriverDrops, deviceVars, linuxVars
<1>3. PlaceInv' /\ InDriver' = InDriver \ {t} /\ driver' \in Seq(Token)
  BY <1>1, <1>2, SignalStep
<1>4. cancelling' \subseteq InDriver'
  BY <1>2, <1>3 DEF UsbTypeOK, CommonTypeOK
<1>5. WindowsTypeOK'
  BY <1>2 DEF UsbTypeOK, WindowsTypeOK
<1>6. UsbTypeOK'
  BY <1>2, <1>3, <1>4, <1>5 DEF UsbTypeOK, CommonTypeOK, LinuxTypeOK
<1> QED
  BY <1>3, <1>6 DEF UsbInv

LEMMA WindowsCancelKeeps ==
  ASSUME UsbInv, OnWindows, WindowsCancelTransfers
  PROVE  UsbInv'
<1>1. /\ UsbTypeOK /\ PlaceInv
      /\ UNCHANGED <<platform, bus, link, nextToken, endpointOf, inFlight, numInFlight,
                     completed, returned, caller, driver, queued, completedFlag, controlling,
                     status, event, oneEndpoint>>
  BY DEF UsbInv, OnWindows, WindowsCancelTransfers, deviceVars, linuxVars, windowsVars
<1>2. cancelling' \subseteq InDriver'
  BY <1>1 DEF WindowsCancelTransfers, UsbTypeOK, CommonTypeOK, InDriver
<1>3. UsbTypeOK'
  BY <1>1, <1>2 DEF UsbTypeOK, CommonTypeOK, LinuxTypeOK, WindowsTypeOK
<1>4. PlaceInv'
  BY <1>1, QuietStep
<1> QED
  BY <1>3, <1>4 DEF UsbInv

LEMMA StepKeepsUsbInv == UsbInv /\ [MCNext]_mcVars => UsbInv'
<1> SUFFICES ASSUME UsbInv, [MCNext]_mcVars PROVE UsbInv'
  OBVIOUS
<1>1. ASSUME OnLinux, LinuxNext
      PROVE  UsbInv'
  <2>1. CASE LinuxConnect \/ LinuxDisconnect
    <3>1. link' \in {"closed", "half", "open"}
      BY <2>1 DEF LinuxConnect, LinuxDisconnect
    <3>2. UNCHANGED <<platform, nextToken, endpointOf, inFlight, numInFlight, completed,
                     returned, caller, driverVars, linuxVars, windowsVars, oneEndpoint>>
      BY <1>1, <2>1 DEF LinuxConnect, LinuxDisconnect, OnLinux
    <3> QED
      BY <3>1, <3>2, LinkKeeps DEF linuxVars, UsbInv, UsbTypeOK, LinuxTypeOK
  <2>2. CASE ControlTransferBegins \/ ControlTransferEnds
    <3>1. /\ UNCHANGED <<commonVars, queued, completedFlag, windowsVars, oneEndpoint>>
          /\ controlling' \in BOOLEAN
      BY <1>1, <2>2 DEF ControlTransferBegins, ControlTransferEnds, OnLinux
    <3> QED
      BY <3>1, LinkKeeps DEF commonVars, deviceVars, UsbInv, UsbTypeOK, CommonTypeOK
  <2>3. CASE \E e \in Endpoints : MaySubmit(e) /\ LinuxSubmitReadTransfer(e)
    BY <1>1, <2>3, LinuxSubmitKeeps DEF LinuxSubmitReadTransfer
  <2>4. CASE \E e \in Endpoints : MaySubmit(e) /\ LinuxSubmitWriteTransfer(e)
    BY <1>1, <2>4, LinuxSubmitKeeps DEF LinuxSubmitWriteTransfer
  <2>5. CASE LinuxComplete
    BY <1>1, <2>5, LinuxCompleteKeeps
  <2>6. CASE LinuxCallback
    BY <1>1, <2>6, LinuxCallbackKeeps
  <2> QED
    BY <1>1, <2>1, <2>2, <2>3, <2>4, <2>5, <2>6 DEF LinuxNext
<1>2. ASSUME OnWindows, WindowsNext
      PROVE  UsbInv'
  <2>1. CASE WindowsConnect \/ WindowsDisconnect
    <3>1. link' \in {"closed", "half", "open"}
      BY <2>1 DEF WindowsConnect, WindowsDisconnect
    <3>2. UNCHANGED <<platform, nextToken, endpointOf, inFlight, numInFlight, completed,
                     returned, caller, driverVars, linuxVars, windowsVars, oneEndpoint>>
      BY <1>2, <2>1 DEF WindowsConnect, WindowsDisconnect, OnWindows
    <3> QED
      BY <3>1, <3>2, LinkKeeps DEF linuxVars, UsbInv, UsbTypeOK, LinuxTypeOK
  <2>2. CASE \E e \in Endpoints : MaySubmit(e) /\ WindowsSubmitTransfer(e)
    BY <1>2, <2>2, WindowsSubmitKeeps
  <2>3. CASE WindowsComplete
    BY <1>2, <2>3, WindowsCompleteKeeps
  <2>4. CASE WindowsDriver
    BY <1>2, <2>4, WindowsDriverKeeps
  <2> QED
    BY <1>2, <2>1, <2>2, <2>3, <2>4 DEF WindowsNext
<1>3. CASE UNCHANGED mcVars
  <2>1. UNCHANGED <<platform, nextToken, endpointOf, inFlight, numInFlight, completed,
                   returned, caller, driverVars, linuxVars, windowsVars, oneEndpoint, link>>
    BY <1>3 DEF mcVars, commonVars, deviceVars
  <2> QED
    BY <2>1, LinkKeeps DEF linuxVars, UsbInv, UsbTypeOK, CommonTypeOK, LinuxTypeOK
<1> QED
  BY <1>1, <1>2, <1>3, LinuxCancelKeeps, WindowsCancelKeeps DEF MCNext

-----------------------------------------------------------------------------
(* What is kept for an endpoint, and the promise *)

LEMMA HeldIs ==
  ASSUME UsbInv, NEW e \in Endpoints
  PROVE  /\ Held(e) = {t \in HeldAt(e) \cup Queued \cup Done : endpointOf[t] = e}
         /\ \A t \in Held(e) : t \in Token /\ t \in Owed
<1>1. Held(e) = {t \in HeldAt(e) \cup Queued \cup Done : endpointOf[t] = e}
  BY DEF Held, Queued, Done
<1>2. \A t \in HeldAt(e) \cup Queued \cup Done : t \in Owed
  BY DEF UsbInv, PlaceInv, Apart
<1> QED
  BY <1>1, <1>2, Sets DEF UsbInv

\* Tokens may change their place, but none is added or returned.
LEMMA HeldStays ==
  ASSUME \A e \in Endpoints : Held(e)' = Held(e), returned' = returned
  PROVE  [Promise!Next]_(Promise!vars)
BY DEF Promise!vars

LEMMA PlacesStay ==
  ASSUME UNCHANGED <<endpointOf, inFlight, queued, completed, returned>>
  PROVE  (OldestFirst => OldestFirst') /\ [Promise!Next]_(Promise!vars)
<1>1. \A e \in Endpoints : Held(e)' = Held(e)
  BY DEF Held, HeldAt
<1>2. ASSUME OldestFirst
      PROVE  OldestFirst'
  BY <1>2 DEF OldestFirst, Held, HeldAt
<1> QED
  BY <1>1, <1>2, HeldStays

\* A new token joins those of its endpoint.
LEMMA SubmitPromises ==
  ASSUME UsbInv, NEW e \in Endpoints, nextToken \in Token,
         endpointOf' = [endpointOf EXCEPT ![nextToken] = e],
         UNCHANGED <<completed, returned>>,
         \/ inFlight' = [inFlight EXCEPT ![e] = Append(@, nextToken)] /\ queued' = queued
         \/ inFlight' = inFlight /\ queued' = Append(queued, nextToken)
  PROVE  (OldestFirst => OldestFirst') /\ [Promise!Next]_(Promise!vars)
<1>1. UsbTypeOK /\ PlaceInv
  BY DEF UsbInv
<1>2. /\ endpointOf'[nextToken] = e
      /\ \A t \in Token : t # nextToken => endpointOf'[t] = endpointOf[t]
  BY <1>1, AcceptedOwed
<1>3. /\ nextToken \notin Owed /\ nextToken \in Nat
      /\ \A t \in Owed \cup InDriver \cup ReturnedTokens : t < nextToken
  BY <1>1, NextIsNew, Typed DEF PlaceInv
<1>4. \/ /\ Queued' = Queued
         /\ \A a \in Endpoints :
              HeldAt(a)' = IF a = e THEN HeldAt(a) \cup {nextToken} ELSE HeldAt(a)
      \/ /\ Queued' = Queued \cup {nextToken}
         /\ \A a \in Endpoints : HeldAt(a)' = HeldAt(a)
  <2>1. CASE inFlight' = [inFlight EXCEPT ![e] = Append(@, nextToken)] /\ queued' = queued
    <3>1. inFlight[e] \in Seq(Token) /\ Distinct(inFlight[e]) /\ HeldAt(e) \subseteq Owed
      BY <1>1, Typed DEF PlaceInv, Once, Apart
    <3>2. ToSet(Append(inFlight[e], nextToken)) = ToSet(inFlight[e]) \cup {nextToken}
      BY <1>3, <3>1, AppendLater DEF HeldAt
    <3>3. /\ inFlight'[e] = Append(inFlight[e], nextToken)
          /\ \A a \in Endpoints : a # e => inFlight'[a] = inFlight[a]
      BY <1>1, <2>1, Typed
    <3>4. \A a \in Endpoints :
            HeldAt(a)' = IF a = e THEN HeldAt(a) \cup {nextToken} ELSE HeldAt(a)
      BY <3>2, <3>3 DEF HeldAt
    <3>5. Queued' = Queued
      BY <2>1 DEF Queued
    <3> QED
      BY <3>4, <3>5
  <2>2. CASE inFlight' = inFlight /\ queued' = Append(queued, nextToken)
    <3>1. queued \in Seq(Token) /\ Distinct(queued) /\ Queued \subseteq Owed
      BY <1>1, Typed DEF PlaceInv, Once, Apart
    <3>2. ToSet(queued') = ToSet(queued) \cup {nextToken}
      BY <1>3, <2>2, <3>1, AppendLater DEF Queued
    <3> QED
      BY <2>2, <3>2 DEF HeldAt, Queued
  <2> QED
    BY <2>1, <2>2
<1>5. ASSUME NEW a \in Endpoints
      PROVE  Held(a)' = IF a = e THEN Held(a) \cup {nextToken} ELSE Held(a)
  <2>1. Held(a)' = {t \in HeldAt(a)' \cup Queued' \cup Done' : endpointOf'[t] = a}
    BY DEF Held, Queued, Done
  <2>2. Held(a) = {t \in HeldAt(a) \cup Queued \cup Done : endpointOf[t] = a}
    BY HeldIs
  <2>3. \A t \in HeldAt(a) \cup Queued \cup Done :
          t # nextToken /\ endpointOf'[t] = endpointOf[t]
    BY <1>1, <1>2, <1>3, Sets DEF PlaceInv, Apart
  <2>4. Done' = Done
    BY DEF Done
  <2>5. CASE a = e
    <3>1. HeldAt(a)' \cup Queued' = HeldAt(a) \cup Queued \cup {nextToken}
      BY <1>4, <2>5
    <3> QED
      BY <1>2, <2>1, <2>2, <2>3, <2>4, <2>5, <3>1
  <2>6. CASE a # e
    <3>1. /\ HeldAt(a)' = HeldAt(a)
          /\ Queued' \subseteq Queued \cup {nextToken} /\ Queued \subseteq Queued'
      BY <1>4, <2>6
    <3> QED
      BY <1>2, <2>1, <2>2, <2>3, <2>4, <2>6, <3>1
  <2> QED
    BY <2>5, <2>6
<1>6. ASSUME OldestFirst
      PROVE  OldestFirst'
  <2>1. SUFFICES ASSUME ~ResubmitsFail, NEW a \in Endpoints, NEW i \in DOMAIN completed,
                        completed[i].status = "SUCCESS",
                        endpointOf'[completed[i].token] = a, NEW u \in Held(a)'
                 PROVE  \/ completed[i].token <= u
                        \/ \E j \in 1 .. i - 1 : completed[j].token = u
    BY DEF OldestFirst
  <2>2. completed[i].token \in Done /\ Done \subseteq Owed
    BY <1>1 DEF Done, PlaceInv, Apart
  <2>3. completed[i].token < nextToken /\ completed[i].token \in Token
    BY <1>1, <1>3, <2>2, Sets
  <2>4. endpointOf[completed[i].token] = a
    BY <1>2, <1>3, <2>1, <2>2, <2>3
  <2>5. CASE u \in Held(a)
    <3>1. \A v \in Held(a) :
            completed[i].token <= v \/ \E j \in 1 .. i - 1 : completed[j].token = v
      BY <1>6, <2>1, <2>4 DEF OldestFirst
    <3> QED
      BY <2>5, <3>1
  <2>6. CASE u = nextToken
    <3>1. completed[i].token \in Nat /\ nextToken \in Nat
      BY <1>3, <2>3, TokensAreInts
    <3>2. \A t, v \in Nat : t < v => t <= v
      OBVIOUS
    <3>3. completed[i].token <= nextToken
      BY <2>3, <3>1, <3>2
    <3> QED
      BY <2>6, <3>3
  <2> QED
    BY <1>5, <2>1, <2>5, <2>6
<1>7. Promise!Submit(e, nextToken)
  <2>1. \A a \in Endpoints : \A u \in Held(a) : u < nextToken
    BY <1>3, HeldIs
  <2>2. \A i \in DOMAIN returned : returned[i].token < nextToken
    BY <1>3 DEF ReturnedTokens
  <2>3. [a \in Endpoints |-> Held(a)]'
          = [[a \in Endpoints |-> Held(a)] EXCEPT ![e] = @ \cup {nextToken}]
    BY <1>5
  <2> QED
    BY <2>1, <2>2, <2>3 DEF Promise!Submit
<1> QED
  BY <1>6, <1>7 DEF Promise!Next

\* What was queued is completed as cancelled; the client does not see it yet.
LEMMA CancelPromises ==
  ASSUME UsbInv, platform = "Linux", LinuxCancelTransfers
  PROVE  (OldestFirst => OldestFirst') /\ [Promise!Next]_(Promise!vars)
<1> DEFINE m == Len(completed)
           n == Len(queued)
<1>1. UsbTypeOK /\ UNCHANGED <<endpointOf, inFlight, returned>>
  BY DEF UsbInv, LinuxCancelTransfers
<1>2. /\ completed' \in Seq(Answer) /\ Len(completed') = m + n /\ Queued' = {}
      /\ \A i \in 1 .. m : completed'[i] = completed[i]
      /\ \A i \in m + 1 .. m + n : completed'[i].status = "CANCELLED"
      /\ Done' = Done \cup Queued
  BY <1>1, CancelCompletes
<1>3. /\ m \in Nat /\ n \in Nat /\ DOMAIN completed = 1 .. m /\ DOMAIN completed' = 1 .. m + n
  BY <1>1, <1>2, Typed
<1> HIDE DEF m, n
<1>4. ASSUME NEW e \in Endpoints
      PROVE  Held(e)' = Held(e)
  <2>1. Held(e)' = {t \in HeldAt(e)' \cup Queued' \cup Done' : endpointOf'[t] = e}
    BY DEF Held, Queued, Done
  <2>2. Held(e) = {t \in HeldAt(e) \cup Queued \cup Done : endpointOf[t] = e}
    BY HeldIs
  <2>3. HeldAt(e)' = HeldAt(e)
    BY <1>1 DEF HeldAt
  <2> QED
    BY <1>1, <1>2, <2>1, <2>2, <2>3
<1>5. ASSUME OldestFirst
      PROVE  OldestFirst'
  <2>1. SUFFICES ASSUME ~ResubmitsFail, NEW e \in Endpoints, NEW i \in 1 .. m + n,
                        completed'[i].status = "SUCCESS",
                        endpointOf[completed'[i].token] = e, NEW u \in Held(e)
                 PROVE  \/ completed'[i].token <= u
                        \/ \E j \in 1 .. i - 1 : completed'[j].token = u
    BY <1>1, <1>3, <1>4 DEF OldestFirst
  <2>2. i \in 1 .. m
    BY <1>2, <1>3, <2>1
  <2>3. completed[i].token <= u \/ \E j \in 1 .. i - 1 : completed[j].token = u
    BY <1>2, <1>3, <1>5, <2>1, <2>2 DEF OldestFirst
  <2>4. \A j \in 1 .. i - 1 : j \in 1 .. m
    BY <1>3, <2>2
  <2> QED
    BY <1>2, <2>2, <2>3, <2>4
<1> QED
  BY <1>1, <1>4, <1>5, HeldStays

\* The oldest completed transfer goes to the client.
LEMMA PopPromises ==
  ASSUME UsbInv, OldestFirst, ~ResubmitsFail, NEW c \in Completers, PopCompleted(c),
         UNCHANGED <<endpointOf, inFlight, queued>>
  PROVE  OldestFirst' /\ [Promise!Next]_(Promise!vars)
<1> DEFINE x == completed[1].token
           n == Len(completed)
           e == endpointOf[x]
<1>1. /\ completed' \in Seq(Answer)
      /\ n \in Nat \ {0} /\ Len(completed') = n - 1
      /\ \A i \in 1 .. n - 1 : completed'[i] = completed[i + 1]
      /\ returned' = Append(returned, completed[1])
      /\ completed[1] \in Answer
  BY PopReturns DEF UsbInv
<1>2. DOMAIN completed = 1 .. n /\ DOMAIN completed' = 1 .. n - 1 /\ 1 \in 1 .. n
  BY <1>1, Typed DEF UsbInv
<1>3. /\ UsbTypeOK /\ PlaceInv
      /\ \A i, j \in 1 .. n : completed[i].token = completed[j].token => i = j
  BY <1>2 DEF UsbInv, PlaceInv, Apart
<1>4. x \in Done /\ x \in Owed /\ x \in Token
  BY <1>2, <1>3, Sets DEF Done, PlaceInv, Apart
<1>5. e \in Endpoints
  BY <1>3, <1>4, Typed DEF Owed
<1> HIDE DEF n, x, e
<1>6. Done' = Done \ {x}
  <2>1. /\ Done' = {completed'[i].token : i \in 1 .. n - 1}
        /\ Done = {completed[i].token : i \in 1 .. n}
    BY <1>2 DEF Done
  <2>2. \A i \in 1 .. n - 1 : i + 1 \in 1 .. n /\ i + 1 # 1
    BY <1>1
  <2>3. \A i \in 1 .. n - 1 : completed[i + 1].token # x
    BY <1>2, <1>3, <2>2 DEF x
  <2>4. ASSUME NEW k \in 1 .. n, k # 1
        PROVE  completed[k].token \in Done'
    <3>1. PICK i \in 1 .. n - 1 : i = k - 1
      BY <1>1, <2>4
    <3>2. i + 1 = k
      BY <3>1
    <3>3. completed'[i] = completed[k]
      BY <1>1, <3>2
    <3> QED
      BY <2>1, <3>3
  <2>5. Done' \subseteq Done \ {x}
    BY <1>1, <2>1, <2>2, <2>3
  <2>6. \A k \in 1 .. n : k # 1 => completed[k].token \in Done'
    BY <2>4
  <2>7. Done \ {x} \subseteq Done'
    BY <2>1, <2>6 DEF x
  <2> QED
    BY <2>5, <2>7
<1>7. ASSUME NEW a \in Endpoints
      PROVE  Held(a)' = Held(a) \ {x}
  <2>1. Held(a)' = {t \in HeldAt(a)' \cup Queued' \cup Done' : endpointOf'[t] = a}
    BY DEF Held, Queued, Done
  <2>2. Held(a) = {t \in HeldAt(a) \cup Queued \cup Done : endpointOf[t] = a}
    BY HeldIs
  <2>3. HeldAt(a)' = HeldAt(a) /\ Queued' = Queued
    BY DEF HeldAt, Queued
  <2>4. x \notin HeldAt(a) /\ x \notin Queued
    BY <1>3, <1>4 DEF PlaceInv, Apart
  <2> QED
    BY <1>6, <2>1, <2>2, <2>3, <2>4
<1>8. OldestFirst'
  <2>1. SUFFICES ASSUME NEW a \in Endpoints, NEW i \in 1 .. n - 1,
                        completed'[i].status = "SUCCESS",
                        endpointOf[completed'[i].token] = a, NEW u \in Held(a)'
                 PROVE  \/ completed'[i].token <= u
                        \/ \E j \in 1 .. i - 1 : completed'[j].token = u
    BY <1>2 DEF OldestFirst
  <2>2. PICK k \in 1 .. n : k = i + 1
    BY <1>1
  <2>3. completed'[i] = completed[k]
    BY <1>1, <2>2
  <2>4. u \in Held(a) /\ u # x
    BY <1>7, <2>1
  <2>5. completed[k].token <= u \/ \E j \in 1 .. k - 1 : completed[j].token = u
    BY <1>2, <2>1, <2>3, <2>4 DEF OldestFirst
  <2>6. ASSUME NEW j \in 1 .. k - 1, completed[j].token = u
        PROVE  \E l \in 1 .. i - 1 : completed'[l].token = u
    <3>1. j # 1
      BY <2>4, <2>6 DEF x
    <3>2. PICK l \in 1 .. i - 1 : j = l + 1
      BY <2>2, <2>6, <3>1
    <3>3. l \in 1 .. n - 1
      BY <1>1, <3>2
    <3>4. completed'[l] = completed[j]
      BY <1>1, <3>2, <3>3
    <3> QED
      BY <2>6, <3>2, <3>4
  <2> QED
    BY <2>3, <2>5, <2>6
<1>9. Promise!Complete(e, x, completed[1].status)
  <2>1. x \in Held(e)
    BY <1>4, <1>5, HeldIs DEF e
  <2>2. completed[1].status = "SUCCESS" => \A u \in Held(e) : x <= u
    <3>1. 1 .. 1 - 1 = {}
      OBVIOUS
    <3> QED
      BY <1>2, <1>5, <3>1 DEF OldestFirst, e, x
  <2>3. \A a \in Endpoints : Held(a)' = IF a = e THEN Held(a) \ {x} ELSE Held(a)
    BY <1>7, HeldIs DEF e
  <2>4. [a \in Endpoints |-> Held(a)]'
          = [[a \in Endpoints |-> Held(a)] EXCEPT ![e] = @ \ {x}]
    BY <1>5, <2>3
  <2>5. completed[1] = [token |-> x, status |-> completed[1].status]
    BY <1>1 DEF Answer, x
  <2>6. returned' = Append(returned, [token |-> x, status |-> completed[1].status])
    BY <1>1, <2>5
  <2> QED
    BY <1>5, <2>1, <2>2, <2>4, <2>6 DEF Promise!Complete
<1>10. completed[1].status \in {"SUCCESS", "CANCELLED", "ERROR"}
  BY <1>1 DEF Answer, Statuses
<1> QED
  BY <1>4, <1>5, <1>8, <1>9, <1>10 DEF Promise!Next

\* The callback: t is completed in its turn and queued transfers are submitted.
LEMMA CallbackPromises ==
  ASSUME UsbInv, OldestFirst, ~ResubmitsFail, platform = "Linux", NEW t \in InDriver,
         NEW st \in Statuses, TransferComplete(t, st)
  PROVE  OldestFirst' /\ [Promise!Next]_(Promise!vars)
<1> DEFINE n == Len(completed)
           b == endpointOf[t]
<1>1. /\ UsbTypeOK /\ PlaceInv
      /\ b \in Endpoints /\ t \in HeldAt(b) /\ t \in Owed /\ t \notin Queued
      /\ completed' = Append(completed, [token |-> t, status |-> st])
      /\ endpointOf' = endpointOf /\ returned' = returned
  BY CallbackEffect DEF UsbInv
<1>2. PICK M \in SUBSET Queued :
        /\ Queued = M \cup Queued'
        /\ HeldAt(b)' = (HeldAt(b) \ {t}) \cup M
        /\ \A a \in Endpoints : a # b => inFlight'[a] = inFlight[a]
  BY CallbackEffect DEF UsbInv
<1>3. /\ n \in Nat /\ DOMAIN completed = 1 .. n /\ DOMAIN completed' = 1 .. n + 1
      /\ \A i \in 1 .. n : completed'[i] = completed[i]
      /\ completed'[n + 1] = [token |-> t, status |-> st]
      /\ Done' = Done \cup {t} /\ t \in Token
  <2>1. t \in Token /\ [token |-> t, status |-> st] \in Answer
    BY <1>1, Sets DEF Answer
  <2>2. Done' = Done \cup {[token |-> t, status |-> st].token}
    BY <1>1, <2>1, CompletedGrows
  <2> QED
    BY <1>1, <2>1, <2>2, CompletedGrows
<1>4. \A u \in Queued : endpointOf[u] = b
  BY <1>1, QueuedOnOne
<1>5. ToSet(inFlight'[b]) = (HeldAt(b) \ {t}) \cup M
  <2>1. b' = b
    BY <1>1
  <2> HIDE DEF b
  <2> QED
    BY <1>2, <2>1 DEF HeldAt
<1> HIDE DEF n, b
<1>6. ASSUME NEW a \in Endpoints
      PROVE  Held(a)' = Held(a)
  <2>1. Held(a)' = {u \in HeldAt(a)' \cup Queued' \cup Done' : endpointOf'[u] = a}
    BY DEF Held, Queued, Done
  <2>2. Held(a) = {u \in HeldAt(a) \cup Queued \cup Done : endpointOf[u] = a}
    BY HeldIs
  <2>3. CASE a = b
    <3>1. HeldAt(a)' = (HeldAt(a) \ {t}) \cup M
      BY <1>5, <2>3 DEF HeldAt
    <3>2. HeldAt(a)' \cup Queued' \cup Done' = HeldAt(a) \cup Queued \cup Done
      BY <1>1, <1>2, <1>3, <2>3, <3>1
    <3> QED
      BY <1>1, <2>1, <2>2, <3>2
  <2>4. CASE a # b
    <3>1. HeldAt(a)' = HeldAt(a)
      BY <1>2, <2>4 DEF HeldAt
    <3>2. endpointOf[t] = b
      BY DEF b
    <3>3. \A u \in Queued : endpointOf[u] # a
      BY <1>4, <2>4
    <3>4. Queued' \subseteq Queued
      BY <1>2
    <3> QED
      BY <1>1, <1>3, <2>1, <2>2, <2>4, <3>1, <3>2, <3>3, <3>4
  <2> QED
    BY <2>3, <2>4
<1>7. ASSUME st = "SUCCESS", NEW u \in Held(b)
      PROVE  t <= u \/ \E j \in 1 .. n : completed[j].token = u
  <2>1. FirstOfItsEndpoint(t)
    BY <1>7 DEF TransferComplete, MayFinish
  <2>2. PICK i \in DOMAIN driver :
          driver[i] = t /\ \A j \in 1 .. i - 1 : endpointOf[driver[j]] # b
    BY <2>1 DEF FirstOfItsEndpoint, b
  <2>3. /\ Ascending(driver) /\ driver \in Seq(Token)
        /\ \A v \in InDriver, w \in Queued : v < w
    BY <1>1, Typed DEF PlaceInv, InOrder
  <2>4. DOMAIN driver = 1 .. Len(driver) /\ Len(driver) \in Nat
    BY <2>3
  <2>5. u \in HeldAt(b) \cup Queued \cup Done /\ endpointOf[u] = b /\ u \in Token
    BY <1>1, HeldIs
  <2>6. t \in Nat /\ u \in Nat
    BY <1>3, <2>5, TokensAreInts
  <2>7. CASE u \in Done
    BY <1>3, <2>7 DEF Done
  <2>8. CASE u \in Queued
    <3>1. t < u
      BY <2>3, <2>8
    <3> QED
      BY <2>6, <3>1
  <2>9. CASE u \in HeldAt(b)
    <3>1. u \in InDriver
      BY <1>1, <2>9 DEF PlaceInv, DriverHolds
    <3>2. PICK k \in 1 .. Len(driver) : driver[k] = u
      BY <2>4, <3>1 DEF InDriver, ToSet
    <3>3. ~(k \in 1 .. i - 1)
      BY <2>2, <2>5, <3>2
    <3>4. k = i \/ i < k
      BY <2>4, <3>3
    <3>5. i < k => driver[i] < driver[k]
      BY <2>3, <2>4 DEF Ascending
    <3> QED
      BY <2>2, <2>6, <3>2, <3>4, <3>5
  <2> QED
    BY <2>5, <2>7, <2>8, <2>9
<1>8. OldestFirst'
  <2>1. SUFFICES ASSUME NEW a \in Endpoints, NEW i \in 1 .. n + 1,
                        completed'[i].status = "SUCCESS",
                        endpointOf[completed'[i].token] = a, NEW u \in Held(a)
                 PROVE  \/ completed'[i].token <= u
                        \/ \E j \in 1 .. i - 1 : completed'[j].token = u
    BY <1>1, <1>3, <1>6 DEF OldestFirst
  <2>2. CASE i \in 1 .. n
    <3>1. completed[i].status = "SUCCESS" /\ endpointOf[completed[i].token] = a
      BY <1>3, <2>1, <2>2
    <3>2. completed[i].token <= u \/ \E j \in 1 .. i - 1 : completed[j].token = u
      BY <1>3, <2>2, <3>1 DEF OldestFirst
    <3>3. \A j \in 1 .. i - 1 : j \in 1 .. n
      BY <1>3, <2>2
    <3> QED
      BY <1>3, <2>2, <3>2, <3>3
  <2>3. CASE i = n + 1
    <3>1. completed'[i].token = t /\ st = "SUCCESS"
      BY <1>3, <2>1, <2>3
    <3>2. u \in Held(b)
      BY <2>1, <3>1 DEF b
    <3>3. t <= u \/ \E j \in 1 .. n : completed[j].token = u
      BY <1>7, <3>1, <3>2
    <3>4. i - 1 = n
      BY <1>3, <2>3
    <3> QED
      BY <1>3, <3>1, <3>3, <3>4
  <2> QED
    BY <1>3, <2>2, <2>3
<1> QED
  BY <1>1, <1>6, <1>8, HeldStays

\* On Windows the oldest transfer of an endpoint goes to the client.
LEMMA LeavePromises ==
  ASSUME UsbInv, platform = "Windows", NEW c \in Completers, WindowsLeave(c), queued' = queued
  PROVE  OldestFirst' /\ [Promise!Next]_(Promise!vars)
<1>1. PICK t \in Token, st \in Statuses :
        LET b == endpointOf[t] IN
        /\ b \in Endpoints /\ inFlight[b] # <<>> /\ t = inFlight[b][1]
        /\ inFlight' = [inFlight EXCEPT ![b] = Tail(@)]
        /\ completed' = <<>>
        /\ returned' = Append(returned, [token |-> t, status |-> st])
  BY LeaveEffect DEF UsbInv
<1>2. PICK b \in Endpoints : b = endpointOf[t]
  BY <1>1
<1>3. /\ UsbTypeOK /\ PlaceInv /\ endpointOf' = endpointOf
      /\ inFlight \in [Endpoints -> Seq(Token)]
  BY Typed DEF UsbInv, WindowsLeave
<1>4. /\ inFlight[b] \in Seq(Token) /\ Distinct(inFlight[b]) /\ inFlight[b] # <<>>
      /\ Ascending(inFlight[b]) /\ t = inFlight[b][1]
  BY <1>1, <1>2, <1>3 DEF PlaceInv, Once, InOrder
<1>5. t \in HeldAt(b) /\ ToSet(Tail(inFlight[b])) = HeldAt(b) \ {t}
  BY <1>4, TailOf DEF HeldAt
<1>6. /\ inFlight'[b] = Tail(inFlight[b])
      /\ \A a \in Endpoints : a # b => inFlight'[a] = inFlight[a]
  BY <1>1, <1>2, <1>3
<1>7. \A a \in Endpoints : HeldAt(a)' = IF a = b THEN HeldAt(a) \ {t} ELSE HeldAt(a)
  BY <1>5, <1>6 DEF HeldAt
<1>8. Queued = {} /\ Queued' = {} /\ Done = {} /\ Done' = {}
  BY <1>1, <1>3 DEF PlaceInv, Windows, Queued, Done, ToSet
<1>9. \A a \in Endpoints : Held(a) = HeldAt(a)
  <2>1. ASSUME NEW a \in Endpoints
        PROVE  Held(a) = HeldAt(a)
    <3>1. Held(a) = {u \in HeldAt(a) \cup Queued \cup Done : endpointOf[u] = a}
      BY HeldIs
    <3>2. \A u \in HeldAt(a) : endpointOf[u] = a
      BY <1>3 DEF PlaceInv, Apart
    <3> QED
      BY <1>8, <3>1, <3>2
  <2> QED
    BY <2>1
<1>10. ASSUME NEW a \in Endpoints
       PROVE  Held(a)' = IF a = b THEN Held(a) \ {t} ELSE Held(a)
  <2>1. Held(a)' = {u \in HeldAt(a)' \cup Queued' \cup Done' : endpointOf'[u] = a}
    BY DEF Held, Queued, Done
  <2>2. \A u \in HeldAt(a) : endpointOf'[u] = a
    BY <1>3 DEF PlaceInv, Apart
  <2>3. Held(a)' = HeldAt(a)'
    BY <1>7, <1>8, <2>1, <2>2
  <2> QED
    BY <1>7, <1>9, <2>3
<1>11. Promise!Complete(b, t, st)
  <2>1. t \in Held(b)
    BY <1>5, <1>9
  <2>2. ASSUME NEW u \in Held(b)
        PROVE  t <= u
    <3>1. DOMAIN inFlight[b] = 1 .. Len(inFlight[b]) /\ Len(inFlight[b]) \in Nat \ {0}
      BY <1>4
    <3>2. PICK k \in 1 .. Len(inFlight[b]) : inFlight[b][k] = u
      BY <1>9, <3>1 DEF HeldAt, ToSet
    <3>3. 1 \in 1 .. Len(inFlight[b]) /\ (k = 1 \/ 1 < k)
      BY <3>1
    <3>4. 1 < k => t < u
      BY <1>4, <3>1, <3>2, <3>3 DEF Ascending
    <3>5. k = 1 => t = u
      BY <1>4, <3>2
    <3>6. u \in Token
      BY HeldIs
    <3>7. t \in Nat /\ u \in Nat
      BY <3>6, TokensAreInts
    <3> QED
      BY <3>3, <3>4, <3>5, <3>7
  <2>3. [a \in Endpoints |-> Held(a)]' = [[a \in Endpoints |-> Held(a)] EXCEPT ![b] = @ \ {t}]
    BY <1>10
  <2> QED
    BY <1>1, <2>1, <2>2, <2>3 DEF Promise!Complete
<1>12. st \in {"SUCCESS", "CANCELLED", "ERROR"}
  BY DEF Statuses
<1>13. OldestFirst'
  BY <1>1 DEF OldestFirst
<1> QED
  BY <1>11, <1>12, <1>13 DEF Promise!Next

LEMMA InitPromises == MCInit => OldestFirst /\ Promise!Init
<1> SUFFICES ASSUME MCInit PROVE OldestFirst /\ Promise!Init
  OBVIOUS
<1>1. completed = <<>> /\ returned = <<>> /\ queued = <<>>
  BY DEF MCInit, CommonInit, LinuxInit
<1>2. \A e \in Endpoints : Held(e) = {}
  <2>1. \A e \in Endpoints : inFlight[e] = <<>>
    BY DEF MCInit, CommonInit
  <2> QED
    BY <1>1, <2>1 DEF Held, HeldAt, ToSet
<1> QED
  BY <1>1, <1>2 DEF OldestFirst, Promise!Init

LEMMA StepPromises ==
  ASSUME ~ResubmitsFail
  PROVE  UsbInv /\ OldestFirst /\ [MCNext]_mcVars => OldestFirst' /\ [Promise!Next]_(Promise!vars)
<1> SUFFICES ASSUME UsbInv, OldestFirst, [MCNext]_mcVars
             PROVE  OldestFirst' /\ [Promise!Next]_(Promise!vars)
  OBVIOUS
<1>1. ASSUME OnLinux, LinuxNext
      PROVE  OldestFirst' /\ [Promise!Next]_(Promise!vars)
  <2>1. CASE \/ LinuxConnect \/ LinuxDisconnect
             \/ ControlTransferBegins \/ ControlTransferEnds
    <3>1. UNCHANGED <<endpointOf, inFlight, queued, completed, returned>>
      BY <2>1 DEF LinuxConnect, LinuxDisconnect, ControlTransferBegins, ControlTransferEnds,
                  linuxVars, commonVars
    <3> QED
      BY <3>1, PlacesStay
  <2>2. ASSUME NEW e \in Endpoints, NEW dir \in {"IN", "OUT"}, LinuxSubmitTransfer(e, dir)
        PROVE  OldestFirst' /\ [Promise!Next]_(Promise!vars)
    <3>1. nextToken \in Token /\ UNCHANGED <<completed, returned>>
      BY <2>2 DEF LinuxSubmitTransfer
    <3>2. CASE UNCHANGED <<endpointOf, inFlight, numInFlight, driver, queued>>
      BY <3>1, <3>2, PlacesStay
    <3>3. CASE /\ endpointOf' = [endpointOf EXCEPT ![nextToken] = e]
               /\ \/ inFlight' = [inFlight EXCEPT ![e] = Append(@, nextToken)] /\ queued' = queued
                  \/ inFlight' = inFlight /\ queued' = Append(queued, nextToken)
      BY <3>1, <3>3, SubmitPromises
    <3> QED
      BY <2>2, <3>2, <3>3 DEF LinuxSubmitTransfer
  <2>3. CASE \E e \in Endpoints : MaySubmit(e) /\ LinuxSubmitReadTransfer(e)
    BY <2>2, <2>3 DEF LinuxSubmitReadTransfer
  <2>4. CASE \E e \in Endpoints : MaySubmit(e) /\ LinuxSubmitWriteTransfer(e)
    BY <2>2, <2>4 DEF LinuxSubmitWriteTransfer
  <2>5. CASE LinuxComplete
    <3>1. PICK c \in Completers : LinuxEnter(c) \/ LinuxLeave(c)
      BY <2>5 DEF LinuxComplete
    <3>2. UNCHANGED <<endpointOf, inFlight, queued>>
      BY <3>1 DEF LinuxEnter, LinuxLeave
    <3>3. CASE PopCompleted(c)
      BY <3>2, <3>3, PopPromises
    <3>4. CASE UNCHANGED <<completed, returned>>
      BY <3>2, <3>4, PlacesStay
    <3> QED
      BY <3>1, <3>3, <3>4 DEF LinuxEnter, LinuxLeave, Returns, NothingReady
  <2>6. CASE LinuxCallback
    BY <1>1, <2>6, CallbackPromises DEF LinuxCallback, OnLinux
  <2> QED
    BY <1>1, <2>1, <2>3, <2>4, <2>5, <2>6 DEF LinuxNext
<1>2. ASSUME OnWindows, WindowsNext
      PROVE  OldestFirst' /\ [Promise!Next]_(Promise!vars)
  <2>1. platform = "Windows" /\ queued' = queued
    BY <1>2 DEF OnWindows, linuxVars
  <2>2. CASE WindowsConnect \/ WindowsDisconnect \/ WindowsDriver
    <3>1. UNCHANGED <<endpointOf, inFlight, completed, returned>>
      BY <2>2 DEF WindowsConnect, WindowsDisconnect, WindowsDriver, DriverSignals
    <3> QED
      BY <2>1, <3>1, PlacesStay
  <2>3. ASSUME NEW e \in Endpoints, WindowsSubmitTransfer(e)
        PROVE  OldestFirst' /\ [Promise!Next]_(Promise!vars)
    <3>1. nextToken \in Token /\ UNCHANGED <<completed, returned>>
      BY <2>3 DEF WindowsSubmitTransfer
    <3>2. CASE UNCHANGED <<endpointOf, inFlight>>
      BY <2>1, <3>1, <3>2, PlacesStay
    <3>3. CASE /\ endpointOf' = [endpointOf EXCEPT ![nextToken] = e]
               /\ inFlight' = [inFlight EXCEPT ![e] = Append(@, nextToken)]
      BY <2>1, <3>1, <3>3, SubmitPromises
    <3> QED
      BY <2>3, <3>2, <3>3 DEF WindowsSubmitTransfer
  <2>4. CASE WindowsComplete
    <3>1. PICK c \in Completers : WindowsEnter(c) \/ WindowsLeave(c)
      BY <2>4 DEF WindowsComplete
    <3>2. CASE WindowsLeave(c)
      BY <2>1, <3>2, LeavePromises
    <3>3. CASE WindowsEnter(c)
      <4>1. completed = <<>>
        BY <2>1 DEF UsbInv, PlaceInv, Windows
      <4>2. UNCHANGED <<endpointOf, inFlight, completed, returned>>
        BY <3>3, <4>1 DEF WindowsEnter, Returns, PopCompleted, NothingReady
      <4> QED
        BY <2>1, <4>2, PlacesStay
    <3> QED
      BY <3>1, <3>2, <3>3
  <2> QED
    BY <1>2, <2>2, <2>3, <2>4 DEF WindowsNext
<1>3. CASE OnWindows /\ WindowsCancelTransfers
  <2>1. UNCHANGED <<endpointOf, inFlight, queued, completed, returned>>
    BY <1>3 DEF OnWindows, WindowsCancelTransfers, linuxVars
  <2> QED
    BY <2>1, PlacesStay
<1>4. CASE UNCHANGED mcVars
  <2>1. UNCHANGED <<endpointOf, inFlight, queued, completed, returned>>
    BY <1>4 DEF mcVars, commonVars, linuxVars
  <2> QED
    BY <2>1, PlacesStay
<1> QED
  BY <1>1, <1>2, <1>3, <1>4, CancelPromises DEF MCNext, OnLinux

-----------------------------------------------------------------------------
(* Theorems *)

LEMMA UsbInvAlways == MCSpec => []UsbInv
  BY InitUsbInv, StepKeepsUsbInv, PTL DEF MCSpec

\* Every list of transfers and counter of the device has its type: no counter
\* falls below zero and what is asked to be cancelled the driver still holds.
THEOREM UsbTypeCorrect == MCSpec => []UsbTypeOK
<1>1. UsbInv => UsbTypeOK
  BY DEF UsbInv
<1> QED
  BY <1>1, UsbInvAlways, PTL

\* pendingTransfers() is the number of transfers that were accepted and not
\* returned, so that a detach which completes while it is not zero gets every
\* buffer back and stops; on Linux unless libusb refuses a queued transfer.
THEOREM PendingCountExactAlways ==
  ASSUME ~ResubmitsFail
  PROVE  MCSpec => []PendingCountExact
<1>1. UsbInv => PendingCountExact
  <2> SUFFICES ASSUME UsbInv PROVE PendingCountExact
    OBVIOUS
  <2>1. Len(driver) \in Nat /\ Len(queued) \in Nat /\ Len(completed) \in Nat
    BY Typed DEF UsbInv
  <2>2. CASE platform = "Linux"
    BY <2>1, <2>2 DEF UsbInv, PlaceInv, Counted, PendingCountExact, PendingTransfers,
                      LinuxPendingTransfers
  <2>3. CASE platform = "Windows"
    <3>1. numInFlight = Cardinality(Owed) /\ completed = <<>> /\ numInFlight \in Nat
      BY <2>3, Typed DEF UsbInv, PlaceInv, Counted, Windows
    <3>2. Len(completed) = 0
      BY <3>1
    <3> QED
      BY <2>3, <3>1, <3>2 DEF PendingCountExact, PendingTransfers, WindowsPendingTransfers
  <2> QED
    BY <2>2, <2>3, Typed DEF UsbInv
<1> QED
  BY <1>1, UsbInvAlways, PTL

\* What completeTransfer returned is not in the hands of the driver any more,
\* so that its buffer may be freed, when one thread at a time completes.
THEOREM ReturnedNotInUseAlways ==
  ASSUME OneCompleter
  PROVE  MCSpec => []ReturnedNotInUse
<1>1. UsbInv => ReturnedNotInUse
  BY DEF UsbInv, PlaceInv, DriverHolds, OwnWaits, Apart, Owed, ReturnedNotInUse
<1> QED
  BY <1>1, UsbInvAlways, PTL

\* On both platforms each transfer that is accepted is returned once at most, and
\* those that succeed on an endpoint are returned in the order of submission;
\* on Linux unless libusb refuses a queued transfer.
THEOREM UsbKeepsPromise ==
  ASSUME ~ResubmitsFail
  PROVE  MCSpec => KeepsUsbPromise
<1>1. MCInit => Promise!Init /\ OldestFirst
  BY InitPromises
<1>2. UsbInv /\ OldestFirst /\ [MCNext]_mcVars => OldestFirst' /\ [Promise!Next]_(Promise!vars)
  BY StepPromises
<1> QED
  BY <1>1, <1>2, InitUsbInv, StepKeepsUsbInv, PTL DEF MCSpec, KeepsUsbPromise, Promise!Spec
=============================================================================
