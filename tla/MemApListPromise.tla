-------------------------- MODULE MemApListPromise --------------------------
(***************************************************************************)
(* What MEM_AP_AccessBatch promises of a list of operations                *)
(* (rddi_mem_ap.h): they are performed one after the other on the target's *)
(* memory, none behind one that failed; a poll succeeds with the first     *)
(* sample that matches and fails only after all of them did not; a check   *)
(* looks at the value polled last; the caller gets the data when the call  *)
(* returns.                                                                *)
(*                                                                         *)
(* The outcome of a poll of no samples, and of one whose four bytes are    *)
(* not a multiple of its access size, is left open.                        *)
(***************************************************************************)
EXTENDS Naturals, Sequences, FiniteSets

CONSTANTS Addr, NULL

VARIABLES
  reachable,  \* the device exists
  list,       \* the operations
  memory,     \* the target's memory
  polled,     \* the value polled last, or NULL
  at,         \* operations done with: the number of the last one performed
  samples,    \* samples of the poll that is going on
  failed,     \* an operation failed
  results,    \* data of the operations performed, or NULL
  returned,   \* the call: "no", "success", "failed"
  own         \* data the caller has

vars == <<reachable, list, memory, polled, at, samples, failed, results, returned, own>>

Init ==
  /\ list = <<>>
  /\ at = 0 /\ samples = 0
  /\ failed = FALSE
  /\ results = <<>> /\ own = <<>>
  /\ returned = "no"

Settings == {"POLL_MASK", "POLL_VALUE"}

\* The mask and the value in force for operation i.
LastOf(op, i) ==
  LET before == {k \in 1 .. i - 1 : list[k].op = op}
  IN  IF before = {} THEN 0 ELSE CHOOSE k \in before : \A j \in before : j <= k
MaskAt(i) == IF LastOf("POLL_MASK", i) = 0 THEN 1 .. 4 ELSE list[LastOf("POLL_MASK", i)].mask
ValueAt(i) ==
  IF LastOf("POLL_VALUE", i) = 0 THEN [k \in 1 .. 4 |-> 0] ELSE list[LastOf("POLL_VALUE", i)].data

Agrees(bytes, i) == \A k \in MaskAt(i) \cap DOMAIN bytes : bytes[k] = ValueAt(i)[k]
Wanted(bytes, i) == Agrees(bytes, i) = (list[i].op \in {"POLL_EQ", "CHECK_EQ"})

\* The operation whose turn it is.
Turn(i) ==
  /\ returned # "success" /\ ~failed
  /\ i \in DOMAIN list /\ i > at
  /\ list[i].op \notin Settings
  /\ \A k \in at + 1 .. i - 1 : list[k].op \in Settings

Width(e) == IF e.op \in {"READ_RPT", "WRITE_RPT"} THEN e.acc ELSE e.count
Range(e) == e.addr .. e.addr + Width(e) - 1
Seen(a, n) == [k \in 1 .. n |-> memory[a + k - 1]]

Done(i, data) ==
  /\ at' = i
  /\ samples' = 0
  /\ results' = [results EXCEPT ![i] = data]
  /\ UNCHANGED <<list, failed, returned, own>>

Read(i) ==
  /\ Turn(i)
  /\ \/ list[i].op = "READ" /\ Done(i, Seen(list[i].addr, list[i].count))
     \/ /\ list[i].op = "READ_RPT"
        /\ LET e == list[i] IN
           Done(i, [k \in 1 .. e.acc * e.count |-> memory[e.addr + ((k - 1) % e.acc)]])
  /\ UNCHANGED <<memory, polled>>

\* Of a repeated write the last element stays.
Write(i) ==
  /\ Turn(i)
  /\ list[i].op \in {"WRITE", "WRITE_RPT"}
  /\ LET e == list[i]
         skip == IF e.op = "WRITE" THEN 0 ELSE e.acc * (e.count - 1)
     IN  memory' = [a \in Addr |-> IF a \in Range(e) THEN e.data[skip + a - e.addr + 1]
                                   ELSE memory[a]]
  /\ Done(i, NULL)
  /\ UNCHANGED polled

Open(e) == e.count = 0 \/ 4 % e.acc # 0

Sample(i) ==
  /\ Turn(i)
  /\ list[i].op \in {"POLL_EQ", "POLL_NE"}
  /\ samples < list[i].count
  /\ LET seen == Seen(list[i].addr, 4) IN
     IF Wanted(seen, i)
     THEN polled' = seen /\ Done(i, seen)
     ELSE /\ samples' = samples + 1
          /\ UNCHANGED <<list, polled, at, failed, results, returned, own>>
  /\ UNCHANGED memory

\* An open outcome.
Unspecified(i) ==
  /\ Turn(i)
  /\ list[i].op \in {"POLL_EQ", "POLL_NE"} /\ Open(list[i])
  /\ \E data \in {polled'} : data # NULL /\ Done(i, data)
  /\ UNCHANGED memory

Check(i) ==
  /\ Turn(i)
  /\ list[i].op \in {"CHECK_EQ", "CHECK_NE"}
  /\ reachable /\ polled # NULL /\ Wanted(polled, i)
  /\ Done(i, NULL)
  /\ UNCHANGED <<memory, polled>>

\* An operation is refused or fails, having written at most to its range; a
\* poll that began fails for the device's reasons or when all samples are
\* taken.
Fail(i) ==
  /\ Turn(i)
  /\ failed' = TRUE
  /\ samples' = 0
  /\ LET e == list[i] IN
     IF e.op \in {"WRITE", "WRITE_RPT"}
     THEN \A a \in Addr \ Range(e) : memory'[a] = memory[a]
     ELSE UNCHANGED memory
  /\ samples > 0 => samples = list[i].count
  /\ list[i].op \in {"CHECK_EQ", "CHECK_NE"} /\ reachable =>
       polled = NULL \/ Len(polled) < 4 \/ ~Wanted(polled, i)
  /\ polled' \in {polled, NULL}
  /\ UNCHANGED <<list, at, results, returned, own>>

Start ==
  /\ list = <<>>
  /\ list' # <<>>
  /\ results' = [i \in DOMAIN list' |-> NULL] /\ own' = results'
  /\ UNCHANGED <<memory, polled, at, samples, failed, returned>>

\* The call returns: success means no operation failed and brings the data of
\* those performed; failure may also mean that the connection was lost, and
\* the list may then still go on.
Return ==
  /\ list # <<>>
  /\ returned = "no"
  /\ \/ /\ returned' = "success"
        /\ ~failed /\ own' = results
     \/ /\ returned' = "failed"
        /\ own' = own \/ (failed /\ own' = results)
  /\ UNCHANGED <<list, memory, polled, at, samples, failed, results>>

\* The system the memory belongs to.
Environment ==
  /\ \A a, b \in Addr : memory'[a] # memory[a] /\ memory'[b] # memory[b] => a = b
  /\ UNCHANGED <<list, polled, at, samples, failed, results, returned, own>>

Next ==
  /\ UNCHANGED reachable
  /\ \/ \E i \in DOMAIN list :
          Read(i) \/ Write(i) \/ Sample(i) \/ Unspecified(i) \/ Check(i) \/ Fail(i)
     \/ Start \/ Return \/ Environment

Spec == Init /\ [][Next]_vars
=============================================================================
