----------------------------- MODULE CswpBatch -----------------------------
(***************************************************************************)
(* One request from the client's queue to the client's results: commands   *)
(* are encoded into the request buffer (cswp_client.c), the server decodes *)
(* and runs them one after the other out of that buffer and encodes the    *)
(* replies into another (process_commands and cswp_handle_command), and    *)
(* the client decodes the replies against its list of expected responses.  *)
(*                                                                         *)
(* Buffers are sequences of parts rather than bytes.  Neither side marks   *)
(* where a command or a reply ends: the reader is where the decoding of    *)
(* the one before left it.                                                 *)
(***************************************************************************)
EXTENDS Integers, Sequences, SequencesExt

CONSTANTS
  MaxOps,   \* bound: commands in a batch
  CmdCap,   \* parts the request buffer holds
  RspCap    \* parts the response buffer holds

ASSUME BatchAssumption ==
  MaxOps \in Nat \ {0} /\ CmdCap \in Nat /\ RspCap \in Nat

VARIABLES
  \* the client
  phase,      \* what the client is doing; "sent" is the server's turn
  mode,       \* priv->batch_mode
  cmd,        \* priv->cmd, and what the server received of it
  pending,    \* priv->pending_responses: the kinds of the queued commands
  refused,    \* a command of this batch could not be encoded
  completed,  \* *opsCompleted
  result,     \* what the call returns: success so far?
  \* the server
  request,    \* the header: number of commands and error_mode byte
  pos,        \* the next part of cmd to decode
  ran,        \* TRUE or FALSE for each command run: it succeeded
  rsp,        \* the replies
  rpos        \* the next part of rsp the client decodes

clientVars == <<phase, mode, cmd, pending, refused, completed, result>>
serverVars == <<request, pos, ran, rsp>>
vars == <<clientVars, serverVars, rpos>>

\* Commands by what matters for the two buffers.
\*   plain  a fixed body and a reply without one
\*   regs   CSWP_REG_READ: register ids behind the body, values put one by one
\*   data   CSWP_MEM_READ, CSWP_MEM_POLL: the data is put as one block
Kinds == {"plain", "regs", "data"}
Modes == {"NONE", "CONTINUE", "ABORT"}

\* What a command of a kind takes in the request buffer, and its reply in the
\* response buffer.
CommandParts(kind) == IF kind = "regs" THEN <<"head", "body", "ids">> ELSE <<"head", "body">>
ReplyParts(kind) ==
  CASE kind = "plain" -> <<"ok">>
    [] kind = "regs"  -> <<"ok", "value">>
    [] kind = "data"  -> <<"ok", "data", "data">>

Tagged(op, kind, parts) ==
  [i \in DOMAIN parts |-> [op |-> op, kind |-> kind, part |-> parts[i]]]

AtMost(a, b) == IF a <= b THEN a ELSE b

Init ==
  /\ phase = "idle"
  /\ mode = "NONE"
  /\ cmd = <<>>
  /\ pending = <<>>
  /\ refused = FALSE
  /\ completed = 0
  /\ result = TRUE
  /\ request = [num |-> 0, errorMode |-> 0]
  /\ pos = 1
  /\ ran = <<>>
  /\ rsp = <<>>
  /\ rpos = 1

-----------------------------------------------------------------------------
(* The client: queueing *)

\* cswp_batch_begin.
BatchBegin(abortOnError) ==
  /\ phase = "idle"
  /\ phase' = "collecting"
  /\ mode' = IF abortOnError THEN "ABORT" ELSE "CONTINUE"
  /\ cmd' = <<>>
  /\ pending' = <<>>
  /\ refused' = FALSE
  /\ UNCHANGED <<completed, result, serverVars, rpos>>

\* Slip: the error_mode of the protocol specification, 0 to continue.
ErrorModeOfSpec(m) == CASE m = "NONE" -> 0 [] m = "CONTINUE" -> 0 [] m = "ABORT" -> 1

\* The byte that goes out as error_mode is the batch_mode enumerator.
ErrorMode(m) == CASE m = "NONE" -> 0 [] m = "CONTINUE" -> 1 [] m = "ABORT" -> 2

\* Slip: *opsCompleted is not reset.
TransactKeepsCount(m, kinds) ==
  /\ phase' = "sent"
  /\ request' = [num |-> Len(kinds), errorMode |-> ErrorMode(m)]
  /\ completed' = AtMost(completed, Len(kinds))
  /\ result' = TRUE
  /\ pos' = 1
  /\ ran' = <<>>
  /\ rsp' = <<>>
  /\ rpos' = 1

\* cswp_client_transact up to the receive.
Transact(m, kinds) ==
  /\ phase' = "sent"
  /\ request' = [num |-> Len(kinds), errorMode |-> ErrorMode(m)]
  /\ completed' = 0
  /\ result' = TRUE
  /\ pos' = 1
  /\ ran' = <<>>
  /\ rsp' = <<>>
  /\ rpos' = 1

Parts(kind) == Tagged(Len(pending) + 1, kind, CommandParts(kind))
Fits(buf, kind) == Len(buf) + Len(CommandParts(kind)) <= CmdCap

\* A command outside a batch: the buffer is reset and the request goes out.
Single(kind) ==
  /\ phase = "idle"
  /\ Fits(<<>>, kind)
  /\ cmd' = Tagged(1, kind, CommandParts(kind))
  /\ pending' = <<kind>>
  /\ Transact("NONE", <<kind>>)
  /\ UNCHANGED <<mode, refused>>

\* A command in a batch is queued; the caller stops at the first that cannot
\* be encoded, as MEM_AP_AccessBatch does, and its parts stay in the buffer.
Issue(kind) ==
  /\ phase = "collecting" /\ ~refused
  /\ Len(pending) < MaxOps
  /\ IF Fits(cmd, kind)
     THEN /\ cmd' = cmd \o Parts(kind)
          /\ pending' = Append(pending, kind)
          /\ UNCHANGED refused
     ELSE /\ cmd' = cmd \o SubSeq(Parts(kind), 1, CmdCap - Len(cmd))
          /\ refused' = TRUE
          /\ UNCHANGED pending
  /\ UNCHANGED <<phase, mode, completed, result, serverVars, rpos>>

\* cswp_batch_end: with nothing queued *opsCompleted is not written.
BatchEnd ==
  /\ phase = "collecting"
  /\ IF pending = <<>>
     THEN /\ phase' = "idle"
          /\ mode' = "NONE"
          /\ UNCHANGED <<cmd, pending, refused, completed, result, serverVars, rpos>>
     ELSE /\ Transact(mode, pending)
          /\ UNCHANGED <<mode, cmd, pending, refused>>

-----------------------------------------------------------------------------
(* The server *)

Failed == \E i \in DOMAIN ran : ~ran[i]
LastFailed == ran # <<>> /\ ~Last(ran)

\* Slip: the client's enumerator for abort is taken for the only one.
AbortedOnlyByTwo == LastFailed /\ request.errorMode = 2

\* Any nonzero error_mode aborts.
Aborted == LastFailed /\ request.errorMode # 0
LoopGoesOn == Len(ran) < request.num /\ pos <= Len(cmd) /\ ~Aborted

\* Slip: the room is not checked.
WithErrorUnchecked(buf, op, kind) == buf \o Tagged(op, kind, <<"error">>)

\* An error reply: what does not fit is silently left out.
WithError(buf, op, kind) ==
  IF Len(buf) < RspCap THEN buf \o Tagged(op, kind, <<"error">>) ELSE buf

\* A success reply that does not fit leaves what was already put of it, and an
\* error reply behind that.
Cut(buf, op, kind) ==
  LET whole == Tagged(op, kind, ReplyParts(kind))
      room  == RspCap - Len(buf)
      n     == IF kind = "data" THEN AtMost(1, room) ELSE room
  IN  buf \o SubSeq(whole, 1, AtMost(n, Len(whole)))

ReplyFits(kind) == Len(rsp) + Len(ReplyParts(kind)) <= RspCap

\* The command succeeds and consumes its parts; its reply may not fit.
Succeeds(op, kind) ==
  /\ pos' = pos + Len(CommandParts(kind))
  /\ IF ReplyFits(kind)
     THEN /\ rsp' = rsp \o Tagged(op, kind, ReplyParts(kind))
          /\ ran' = Append(ran, TRUE)
     ELSE /\ rsp' = WithError(Cut(rsp, op, kind), op, kind)
          /\ ran' = Append(ran, FALSE)

\* The command fails, having consumed all of its parts or only some: a string
\* too long is not skipped, nor are the ids behind one that failed.
Fails(op, kind) ==
  /\ \E n \in 1 .. Len(CommandParts(kind)) : pos' = pos + n
  /\ rsp' = WithError(rsp, op, kind)
  /\ ran' = Append(ran, FALSE)

\* One turn of the loop.  Reading on from the middle of a command decodes its
\* bytes as some command.
HandleCommand ==
  /\ phase = "sent" /\ LoopGoesOn
  /\ IF cmd[pos].part = "head"
     THEN Succeeds(cmd[pos].op, cmd[pos].kind) \/ Fails(cmd[pos].op, cmd[pos].kind)
     ELSE \E kind \in Kinds : Succeeds(cmd[pos].op, kind) \/ Fails(cmd[pos].op, kind)
  /\ UNCHANGED <<clientVars, request, rpos>>

\* The loop ends; an aborted batch gets a cancelled reply for the command
\* that failed and for each one behind it.
Cancelled ==
  IF Aborted
  THEN [i \in 1 .. AtMost(request.num - Len(ran) + 1, RspCap - Len(rsp)) |->
          [op |-> Len(ran) + i - 1, kind |-> "none", part |-> "cancelled"]]
  ELSE <<>>

SendReply ==
  /\ phase = "sent" /\ ~LoopGoesOn
  /\ phase' = "replied"
  /\ rsp' = rsp \o Cancelled
  /\ UNCHANGED <<mode, cmd, pending, refused, completed, result, request,
                 pos, ran, rpos>>

-----------------------------------------------------------------------------
(* The client: decoding the replies *)

\* How far the decoding of a success reply of a kind reaches.
BodyPresent(kind) == rpos + Len(ReplyParts(kind)) - 1 <= Len(rsp)

Decoded(advance) ==
  /\ completed' = completed + 1
  /\ rpos' = rpos + advance
  /\ UNCHANGED <<phase, result>>

ResponseFails ==
  /\ result' = FALSE
  /\ UNCHANGED <<phase, completed, rpos>>

\* cswp_client_process_response.
ProcessResponse ==
  /\ phase = "replied" /\ result
  /\ completed < Len(pending)
  /\ LET kind == pending[completed + 1] IN
     IF rpos > Len(rsp) \/ rsp[rpos].part # "ok" \/ rsp[rpos].kind # kind
     THEN ResponseFails
     ELSE \/ BodyPresent(kind) /\ Decoded(Len(ReplyParts(kind)))
          \/ ~BodyPresent(kind) /\ kind # "data" /\ ResponseFails
          \/ /\ ~BodyPresent(kind) /\ kind = "data"
             \* the result of get_direct is not looked at: data is copied
             \* from an uninitialised pointer
             /\ \/ Decoded(1)
                \/ /\ phase' = "crashed"
                   /\ UNCHANGED <<completed, result, rpos>>
  /\ UNCHANGED <<mode, cmd, pending, refused, serverVars>>

AllProcessed == phase = "replied" /\ (~result \/ completed = Len(pending))

\* cswp_client_transact returns, and cswp_batch_end leaves batch mode.
Return ==
  /\ AllProcessed
  /\ phase' = "idle"
  /\ mode' = "NONE"
  /\ pending' = <<>>
  /\ UNCHANGED <<cmd, refused, completed, result, serverVars, rpos>>

\* The transport's send or receive fails.
ConnectionFails ==
  /\ phase = "sent"
  /\ phase' = "idle"
  /\ mode' = "NONE"
  /\ pending' = <<>>
  /\ result' = FALSE
  /\ UNCHANGED <<cmd, refused, completed, serverVars, rpos>>

-----------------------------------------------------------------------------

Next ==
  \/ \E abortOnError \in BOOLEAN : BatchBegin(abortOnError)
  \/ \E kind \in Kinds : Single(kind) \/ Issue(kind)
  \/ BatchEnd
  \/ HandleCommand
  \/ SendReply
  \/ ProcessResponse
  \/ Return
  \/ ConnectionFails

Spec == Init /\ [][Next]_vars

-----------------------------------------------------------------------------
(* Properties *)

TypeOK ==
  /\ phase \in {"idle", "collecting", "sent", "replied", "crashed"}
  /\ mode \in Modes
  /\ Len(cmd) <= CmdCap
  /\ pending \in Seq(Kinds) /\ Len(pending) <= MaxOps
  /\ refused \in BOOLEAN /\ result \in BOOLEAN
  /\ completed \in 0 .. MaxOps
  /\ request \in [num : 0 .. MaxOps, errorMode : 0 .. 2]
  /\ pos \in Nat \ {0} /\ rpos \in Nat \ {0}
  /\ ran \in Seq(BOOLEAN) /\ Len(ran) <= MaxOps
  /\ Len(rsp) <= RspCap

\* The server decodes every command from where the client began to encode
\* it, although nothing in the buffer says where that is and a command that
\* fails may leave parts of itself unread.
Aligned ==
  phase = "sent" /\ LoopGoesOn =>
    /\ cmd[pos].part = "head"
    /\ cmd[pos].op = Len(ran) + 1
    /\ cmd[pos].kind = pending[Len(ran) + 1]

\* The number of commands that succeeded before the first that did not.
SucceededFirst ==
  LET failures == {i \in DOMAIN ran : ~ran[i]}
  IN  IF failures = {} THEN Len(ran) ELSE (CHOOSE i \in failures : \A j \in failures : i <= j) - 1

\* The reply to a memory read was cut short: a success header and no data.
ReadCut ==
  \E i \in DOMAIN rsp :
    /\ rsp[i].part = "ok" /\ rsp[i].kind = "data"
    /\ i = Len(rsp) \/ rsp[i + 1].part # "data"

\* What the client is told is what happened: opsCompleted counts exactly the
\* commands that succeeded before the first failure, and the call succeeds
\* only when all did - through cut replies and cancelled commands, but for a
\* memory read whose data did not fit the response buffer.
CompletedExact ==
  AllProcessed /\ ~ReadCut =>
    /\ completed = SucceededFirst
    /\ result = (completed = request.num)

\* Every batch runs as one that aborts on error, and a single command alone;
\* the server answers only when nothing is left to run.
Promise == INSTANCE CswpBatchPromise WITH
  open <- phase = "sent",
  size <- request.num,
  aborts <- request.errorMode # 0,
  results <- ran

KeepsPromise == Promise!Spec

\* cswp_client.h, cswp_batch_begin: "0: continue on error".
ContinueRunsAll ==
  [][SendReply /\ mode = "CONTINUE" => Len(ran) = request.num]_vars
=============================================================================
