----------------------------- MODULE MemAccess ------------------------------
(***************************************************************************)
(* Memory behind the target's devices: what cswp_impl.c does for one read, *)
(* write, poll or check (cswp_server_impl_mem_read, _mem_write, _mem_poll, *)
(* _check_last), on a memory-mapped device and through the registers of a  *)
(* memory access port, a mem-ap.                                           *)
(*                                                                         *)
(* Bytes are numbers, in sequences; a polled value, its mask and the value *)
(* it is compared with are of the four bytes MEM_AP_AccessBatch asks for,  *)
(* and a mask is the set of bytes that count.                              *)
(***************************************************************************)
EXTENDS Naturals, Sequences, SequencesExt

CONSTANTS
  MaxAddr,       \* bound: addresses are 0 .. MaxAddr, whole words
  Widths,        \* access widths the mem-ap has, in bytes
  AccessFails,   \* BOOLEAN: a register access or a mapping may fail
  UNKNOWN,       \* a byte the program did not write
  NULL

ASSUME MemAssumption ==
  /\ MaxAddr \in Nat /\ MaxAddr % 4 = 3
  /\ Widths \subseteq {1, 2, 4}
  /\ AccessFails \in BOOLEAN

Addr  == 0 .. MaxAddr
PollBytes == 1 .. 4

\* The bytes a poll reads, and the local variables of a running poll.
PollBuffers == [PollBytes -> Nat \cup {UNKNOWN}]
Polling ==
  [left : Nat, done : BOOLEAN, buf : PollBuffers,
   res : {"unset", "success", "no match", "failed"}]

ASSUME NullAssumption == NULL \notin PollBuffers /\ NULL \notin Polling

\* What a device may be: "none" is a number the server does not know, "other"
\* one that is set up but is not device 0.
Devices == {"memory", "mem-ap", "other", "unset", "none"}

VARIABLES
  device,     \* what the device accessed is
  memory,     \* the target's memory
  lastPoll,   \* priv->lastPollData, or NULL
  poll        \* the poll that is running: its local variables, or NULL

memVars == <<device, memory, lastPoll, poll>>

HasMemory == device \in {"memory", "mem-ap"}

Bytes(a, n) == [i \in 1 .. n |-> memory[a + i - 1]]

-----------------------------------------------------------------------------
(* A memory-mapped device *)

\* copy: a size that is not a multiple of the access size is refused.
Copies(size, acc) == size % acc = 0

\* The data of a read: with no increment one unit is copied over and over.
MappedRead(c) ==
  IF c.incr
  THEN Bytes(c.addr, c.size)
  ELSE [i \in 1 .. c.size |->
          IF i > (c.size \div c.acc) * c.acc THEN UNKNOWN
          ELSE memory[c.addr + ((i - 1) % c.acc)]]

\* Memory after a write: with no increment the last unit stays.
MappedWrite(c) ==
  LET from == IF c.incr THEN 0 ELSE (c.size \div c.acc - 1) * c.acc
      n    == IF c.incr THEN c.size ELSE c.acc
  IN  [a \in Addr |->
         IF a \in c.addr .. c.addr + n - 1 THEN c.data[from + a - c.addr + 1]
         ELSE memory[a]]

-----------------------------------------------------------------------------
(* A mem-ap: CSW, TAR, then DRW once per unit *)

\* get_csw_size_value.
HasWidth(acc) == acc \in Widths

\* The lane of DRW the code takes a unit from: by the address it counts up
\* itself, whether TAR increments or not.
Lane(addr, acc) ==
  CASE acc = 1 -> addr % 4
    [] acc = 2 -> 2 * ((addr % 4) \div 2)
    [] OTHER   -> 0

Counted(c, u) == c.addr + u * c.acc

\* Where TAR points at unit u.
Tar(c, u) == IF c.incr THEN Counted(c, u) ELSE c.addr

\* The hardware: lanes of DRW that a read at an address fills.
Drw(tar, acc) ==
  [l \in 0 .. 3 |-> IF l \in Lane(tar, acc) .. Lane(tar, acc) + acc - 1
                    THEN memory[(tar \div 4) * 4 + l] ELSE UNKNOWN]

ApRead(c) ==
  [i \in 1 .. c.size |->
     LET u == (i - 1) \div c.acc IN
     IF u >= c.size \div c.acc THEN UNKNOWN
     ELSE Drw(Tar(c, u), c.acc)[Lane(Counted(c, u), c.acc) + ((i - 1) % c.acc)]]

\* What is written to DRW: the data is shifted into its lane and then masked
\* as if it were still in lane 0.
WriteData(c, u) ==
  [l \in 0 .. 3 |->
     IF l < c.acc /\ (c.acc = 4 \/ Lane(Counted(c, u), c.acc) = 0)
     THEN c.data[u * c.acc + l + 1] ELSE 0]

\* Memory after the first n units of a write.
ApWritten(c, n) ==
  [a \in Addr |->
     LET units == {u \in 0 .. n - 1 : a \in Tar(c, u) .. Tar(c, u) + c.acc - 1} IN
     IF units = {} THEN memory[a]
     ELSE LET u == Max(units)
          IN  WriteData(c, u)[Lane(Tar(c, u), c.acc) + a - Tar(c, u)]]

-----------------------------------------------------------------------------
(* mem_read and mem_write, as sets of outcomes *)

ReadData(c) == IF device = "memory" THEN MappedRead(c) ELSE ApRead(c)

Accessible(c) ==
  \/ device = "memory" /\ (c.incr => Copies(c.size, c.acc))
  \/ device = "mem-ap" /\ HasWidth(c.acc)

Failure == [ok |-> FALSE, data |-> <<>>]
Success(data) == [ok |-> TRUE, data |-> data]
MayFail == IF AccessFails THEN {Failure} ELSE {}

\* cswp_server_impl_mem_read.
MemRead(c) ==
  IF Accessible(c) THEN {Success(ReadData(c))} \cup MayFail ELSE {Failure}

\* cswp_server_impl_mem_write: on a mem-ap a failing unit leaves those before
\* it written.
MemWrite(c, ok) ==
  \/ /\ Accessible(c)
     /\ ok = TRUE
     /\ memory' = IF device = "memory" THEN MappedWrite(c)
                  ELSE ApWritten(c, c.size \div c.acc)
  \/ /\ ~Accessible(c) \/ AccessFails
     /\ ok = FALSE
     /\ UNCHANGED memory
  \/ /\ Accessible(c) /\ AccessFails /\ device = "mem-ap"
     /\ ok = FALSE
     /\ \E n \in 0 .. c.size \div c.acc - 1 : memory' = ApWritten(c, n)

-----------------------------------------------------------------------------
(* mem_poll and check_last *)

Masked(bytes, mask) == [i \in DOMAIN bytes |-> IF i \in mask THEN bytes[i] ELSE 0]

Matches(bytes, c) ==
  (Masked(bytes, c.mask) = Masked(SubSeq(c.value, 1, Len(bytes)), c.mask)) = ~c.ne

\* cswp_server_impl_check_last: whatever was polled last, on any device.
CheckLast(c) ==
  LET known == device # "none" /\ lastPoll # NULL /\ Len(lastPoll) >= c.size IN
  IF known /\ Matches(SubSeq(lastPoll, 1, c.size), c)
  THEN Success(SubSeq(lastPoll, 1, c.size)) ELSE Failure

\* A poll sets up: the result of a memory-mapped one is not initialised.
PollBegins(c) ==
  /\ poll' = [left |-> c.tries, done |-> FALSE, buf |-> [i \in 1 .. c.size |-> UNKNOWN],
              res  |-> IF device = "memory" THEN "unset" ELSE "success"]
  /\ UNCHANGED <<memory, lastPoll>>

PollRefused(c) == ~HasMemory \/ (device = "mem-ap" /\ ~HasWidth(c.acc))

\* It fails before the first try; through a mapping the last value stays.
PollFailsEarly(c) ==
  /\ PollRefused(c) \/ AccessFails
  /\ lastPoll' = IF device = "mem-ap" THEN NULL ELSE lastPoll
  /\ UNCHANGED <<memory, poll>>

\* What one try reads: the mem-ap is polled without increment.
PollData(c) == ReadData([c EXCEPT !.incr = device = "memory"])

Tried(c, left) ==
  LET data == PollData(c) IN
  poll' = [left |-> left, buf |-> data,
           res  |-> IF Matches(data, c) THEN "success" ELSE "no match",
           done |-> Matches(data, c) \/ left = 0 \/ device = "mem-ap"]

\* Slip: the number of tries left is not counted down.
PollTryForever(c) ==
  /\ poll # NULL /\ ~poll.done /\ poll.left > 0
  /\ \/ Copies(c.size, c.acc) /\ Tried(c, poll.left)
     \/ ~Copies(c.size, c.acc) /\ poll' = [poll EXCEPT !.done = TRUE]
     \/ /\ device = "mem-ap" /\ AccessFails
        /\ poll' = [poll EXCEPT !.res = "failed", !.done = TRUE]
  /\ UNCHANGED <<memory, lastPoll>>

\* Slip: the last try is not made.
PollTryOneLess(c) ==
  /\ poll # NULL /\ ~poll.done /\ poll.left > 0
  /\ \/ /\ Copies(c.size, c.acc)
        /\ Tried(c, IF poll.left > 2 THEN poll.left - 1 ELSE 0)
     \/ ~Copies(c.size, c.acc) /\ poll' = [poll EXCEPT !.done = TRUE]
     \/ /\ device = "mem-ap" /\ AccessFails
        /\ poll' = [poll EXCEPT !.res = "failed", !.done = TRUE]
  /\ UNCHANGED <<memory, lastPoll>>

\* One try.  On a mem-ap "no match" also ends the loop: its condition wants
\* res to be success.
PollTry(c) ==
  /\ poll # NULL /\ ~poll.done /\ poll.left > 0
  /\ \/ Copies(c.size, c.acc) /\ Tried(c, poll.left - 1)
     \/ ~Copies(c.size, c.acc) /\ poll' = [poll EXCEPT !.done = TRUE]
     \/ /\ device = "mem-ap" /\ AccessFails
        /\ poll' = [poll EXCEPT !.res = "failed", !.done = TRUE]
  /\ UNCHANGED <<memory, lastPoll>>

\* The end of cswp_server_impl_mem_poll: the value is kept or cleared.
PollEnds(outcome) ==
  /\ poll # NULL
  /\ poll.done \/ poll.left = 0
  /\ \/ poll.res \in {"success", "unset"} /\ outcome = Success(poll.buf)
     \/ poll.res # "success" /\ outcome = Failure
  /\ lastPoll' = IF outcome.ok THEN poll.buf ELSE NULL
  /\ poll' = NULL
  /\ UNCHANGED memory

\* The system the memory belongs to writes to it as well.
TargetWrites(a, byte) ==
  /\ memory' = [memory EXCEPT ![a] = byte]
  /\ UNCHANGED <<device, lastPoll, poll>>

-----------------------------------------------------------------------------

MemTypeOK ==
  /\ device \in Devices
  /\ DOMAIN memory = Addr /\ \A a \in Addr : memory[a] \in Nat
  /\ lastPoll = NULL \/ lastPoll \in Seq(Nat \cup {UNKNOWN})
  /\ poll = NULL \/ poll \in Polling
=============================================================================
