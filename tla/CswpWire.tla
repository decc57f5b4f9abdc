------------------------------ MODULE CswpWire ------------------------------
(***************************************************************************)
(* A request and its reply, byte for byte: the client frames its commands  *)
(* (cswp_client_transact), the link carries them (common_tcp.c between two *)
(* sockets, or one USB transfer per message), the server's loop decodes    *)
(* them and frames the replies (process_commands), and the client decodes  *)
(* those against what it asked.                                            *)
(***************************************************************************)
EXTENDS CswpCodec

CONSTANTS
  BUFFER_SIZE,   \* of the request and reply buffers on both sides
  Grains         \* bound: how many bytes one write or read moves at most

ASSUME WireAssumption == BUFFER_SIZE \in 0 .. VarintMax /\ Grains \subseteq Nat \ {0}

VARIABLES
  link,       \* "tcp" or "usb"
  at,         \* "client", "request", "server", "reply", "decoding", "done", "broken"
  asked,      \* the client's commands: name and values
  mode,       \* its batch_mode
  message,    \* the message under way, as it was sent
  unsent,     \* what write_msg has still to write
  stream,     \* bytes on their way
  got,        \* what read_msg has so far
  closed,     \* the other end closed the connection
  cmd,        \* the server's command buffer
  cmdPos,
  decoded,    \* the commands it decoded
  replies,    \* what it answered: error code and values
  rsp,        \* its reply buffer, without the size
  rspPos,     \* where the client is in the reply
  heardBack   \* the replies the client decoded

wireVars == <<link, at, asked, mode, message, unsent, stream, got, closed,
              cmd, cmdPos, decoded, replies, rsp, rspPos, heardBack>>

NONE == 0
CANCELLED == 2
BatchModes == {0, 1, 2}

WireInit ==
  /\ link \in {"tcp", "usb"}
  /\ at = "client"
  /\ asked = <<>> /\ mode = 0
  /\ message = <<>> /\ unsent = <<>> /\ stream = <<>> /\ got = <<>>
  /\ closed = FALSE
  /\ cmd = <<>> /\ cmdPos = 1 /\ decoded = <<>>
  /\ replies = <<>> /\ rsp = <<>> /\ rspPos = 1 /\ heardBack = <<>>

-----------------------------------------------------------------------------
(* Messages *)

Framed(body) == PutUint32(Len(body) + 4) \o body

\* bound: what does not fit in a buffer is left to CswpBatch.
Fits(body) == Len(Framed(body)) <= BUFFER_SIZE

PutCommand(c) == VarintBytes[Codes[c.name]] \o Encode(ClientLayout[c.name].cmd, c.vals)

\* The header goes in front of the commands, which were put behind room for
\* the longest one.
Request(request, batchMode) ==
  VarintBytes[Len(request)] \o <<batchMode>>
    \o FlattenSeq([k \in DOMAIN request |-> PutCommand(request[k])])

\* write_msg begins: a USB message is one transfer, and arrives or does not.
Sends(bytes) ==
  /\ message' = bytes
  /\ unsent' = IF link = "tcp" THEN bytes ELSE <<>>
  /\ stream' = IF link = "tcp" THEN <<>> ELSE bytes
  /\ got' = <<>>

\* cswp_client_transact up to the send.
ClientSends(request, batchMode) ==
  /\ at = "client"
  /\ batchMode = 0 => Len(request) = 1
  /\ Fits(Request(request, batchMode))
  /\ at' = "request"
  /\ asked' = request
  /\ mode' = batchMode
  /\ Sends(Framed(Request(request, batchMode)))
  /\ UNCHANGED <<link, closed, cmd, cmdPos, decoded, replies, rsp, rspPos, heardBack>>

-----------------------------------------------------------------------------
(* The link *)

Travelling == at \in {"request", "reply"}

\* Slip: the byte written last is written again.
LeftFromLast(n) == SubSeq(unsent, n, Len(unsent))

\* What is left to write after n bytes.
LeftAfter(n) == SubSeq(unsent, n + 1, Len(unsent))

\* write takes some of the bytes; EINTR takes none and is tried again.
WriteSome(n) ==
  /\ Travelling /\ ~closed
  /\ unsent # <<>>
  /\ n <= Len(unsent)
  /\ stream' = stream \o SubSeq(unsent, 1, n)
  /\ unsent' = LeftAfter(n)
  /\ UNCHANGED <<link, at, asked, mode, message, got, closed, cmd, cmdPos,
                 decoded, replies, rsp, rspPos, heardBack>>

\* The length read_msg works with: what the header says, but not more than
\* the buffer holds.
MsgLen == LET said == GetUint32(got, 1).val
          IN  IF said > BUFFER_SIZE THEN BUFFER_SIZE ELSE said

\* Slip: one read is made for what follows the length.
WantedOnce == IF Len(got) < 4 THEN 4 - Len(got)
              ELSE IF Len(got) = 4 THEN MsgLen - 4 ELSE 0

\* What readn still wants: the length, then the rest.
Wanted == IF Len(got) < 4 THEN 4 - Len(got) ELSE MsgLen - Len(got)

\* read gives some of the bytes wanted.
ReadSome(n) ==
  /\ Travelling /\ link = "tcp"
  /\ n <= Len(stream) /\ n <= Wanted
  /\ got' = got \o SubSeq(stream, 1, n)
  /\ stream' = SubSeq(stream, n + 1, Len(stream))
  /\ UNCHANGED <<link, at, asked, mode, message, unsent, closed, cmd, cmdPos,
                 decoded, replies, rsp, rspPos, heardBack>>

\* A USB read takes the transfer as it comes.
ReceiveTransfer ==
  /\ Travelling /\ link = "usb" /\ stream # <<>>
  /\ got' = stream
  /\ stream' = <<>>
  /\ UNCHANGED <<link, at, asked, mode, message, unsent, closed, cmd, cmdPos,
                 decoded, replies, rsp, rspPos, heardBack>>

\* The other end goes away with part of the message unsent.
PeerCloses ==
  /\ Travelling /\ ~closed
  /\ closed' = TRUE
  /\ unsent' = <<>>
  /\ UNCHANGED <<link, at, asked, mode, message, stream, got, cmd, cmdPos,
                 decoded, replies, rsp, rspPos, heardBack>>

\* read returns 0: read_msg returns 0 whatever it had.
EndOfFile ==
  /\ Travelling /\ closed
  /\ stream = <<>> /\ Wanted > 0
  /\ at' = "broken"
  /\ UNCHANGED <<link, asked, mode, message, unsent, stream, got, closed, cmd,
                 cmdPos, decoded, replies, rsp, rspPos, heardBack>>

Whole == Len(got) >= 4 /\ Wanted = 0

-----------------------------------------------------------------------------
(* The server *)

\* The header of a request: number of commands and error_mode.
Header(buf) ==
  LET num == GetVarint(buf, 5) IN [num |-> num.val, errorMode |-> GetUint8(buf, num.pos)]

\* process_commands reads a message and begins the reply.
ServerReads ==
  /\ at = "request" /\ Whole
  /\ at' = "server"
  /\ cmd' = got
  /\ cmdPos' = Header(got).errorMode.pos
  /\ rsp' = VarintBytes[Header(got).num]
  /\ UNCHANGED <<link, asked, mode, message, unsent, stream, got, closed,
                 decoded, replies, rspPos, heardBack>>

Num == Header(cmd).num
AbortOnError == Header(cmd).errorMode.val # 0
Failing == replies # <<>> /\ Last(replies).code # NONE
MoreCommands == Len(decoded) < Num /\ cmdPos <= Len(cmd) /\ ~(Failing /\ AbortOnError)

ResponseHeader(code, error) == VarintBytes[code] \o VarintBytes[error]
ErrorText == <<1, 2, 3>>

Answer(name, code, error, vals) ==
  ResponseHeader(code, error)
    \o IF error = NONE THEN Encode(ServerLayout[name].rsp, vals) ELSE PutString(ErrorText)

\* cswp_handle_command: it decodes the next command and answers it.
HandleCommand(error, vals) ==
  /\ at = "server" /\ MoreCommands
  /\ LET type == GetVarint(cmd, cmdPos)
         name == CommandOf(type.val)
         body == Decode(ServerLayout[name].cmd, cmd, type.pos)
     IN  /\ type.ok /\ name # "NONE"
         /\ decoded' = Append(decoded, [name |-> name, vals |-> body.vals])
         /\ cmdPos' = body.pos
         /\ replies' = Append(replies, [name |-> name, code |-> error, vals |-> vals])
         /\ rsp' = rsp \o Answer(name, type.val, error, vals)
  /\ UNCHANGED <<link, at, asked, mode, message, unsent, stream, got, closed,
                 cmd, rspPos, heardBack>>

\* What is put for each command of an aborted batch from the failing one on.
Cancelled == ResponseHeader(0, CANCELLED) \o PutString(ErrorText)

\* The loop ends and the reply goes out.
ServerReplies ==
  /\ at = "server" /\ ~MoreCommands
  /\ at' = "reply"
  /\ rsp' = IF Failing /\ AbortOnError
            THEN rsp \o FlattenSeq([k \in 1 .. Num - Len(decoded) + 1 |-> Cancelled])
            ELSE rsp
  /\ Fits(rsp')
  /\ Sends(Framed(rsp'))
  /\ UNCHANGED <<link, asked, mode, closed, cmd, cmdPos, decoded, replies,
                 rspPos, heardBack>>

-----------------------------------------------------------------------------
(* The client *)

\* cswp_client_transact: the reply must have its length and number.
ClientReads ==
  /\ at = "reply" /\ Whole
  /\ LET num == GetVarint(got, 5) IN
     IF GetUint32(got, 1).val <= Len(got) /\ num.val = Len(asked)
     THEN at' = "decoding" /\ rspPos' = num.pos
     ELSE at' = "broken" /\ UNCHANGED rspPos
  /\ UNCHANGED <<link, asked, mode, message, unsent, stream, got, closed, cmd,
                 cmdPos, decoded, replies, rsp, heardBack>>

\* cswp_client_process_response: the next reply is of the command it must be
\* of; an error ends the decoding.
ProcessResponse ==
  /\ at = "decoding" /\ Len(heardBack) < Len(asked)
  /\ LET want == asked[Len(heardBack) + 1].name
         type == GetVarint(got, rspPos)
         code == GetVarint(got, type.pos)
         text == GetString(got, code.pos)
         body == Decode(ClientLayout[want].rsp, got, code.pos)
     IN  \/ /\ type.val # Codes[want]
            /\ at' = "broken"
            /\ UNCHANGED <<rspPos, heardBack>>
         \/ /\ type.val = Codes[want] /\ code.val # NONE
            /\ heardBack' = Append(heardBack, [name |-> want, code |-> code.val, vals |-> NoValues])
            /\ rspPos' = text.pos
            /\ at' = "done"
         \/ /\ type.val = Codes[want] /\ code.val = NONE
            /\ heardBack' = Append(heardBack, [name |-> want, code |-> NONE, vals |-> body.vals])
            /\ rspPos' = body.pos
            /\ at' = IF Len(heardBack') = Len(asked) THEN "done" ELSE at
  /\ UNCHANGED <<link, asked, mode, message, unsent, stream, got, closed, cmd,
                 cmdPos, decoded, replies, rsp>>

-----------------------------------------------------------------------------

WireTypeOK ==
  /\ link \in {"tcp", "usb"}
  /\ at \in {"client", "request", "server", "reply", "decoding", "done", "broken"}
  /\ Len(got) + Len(stream) + Len(unsent) <= Len(message) /\ Len(message) <= BUFFER_SIZE
  /\ Len(decoded) <= Len(asked) /\ Len(replies) = Len(decoded)
  /\ cmdPos \in Nat /\ rspPos \in Nat

\* However reads and writes split it, a message that is taken is the one that
\* was sent, to its last byte and none of what follows.
FramesWhole == Travelling /\ Whole => got = message /\ stream = <<>> /\ unsent = <<>>

\* What one side decodes is what the other encoded: the server the commands
\* asked, with their values and in their order, and the client the server's
\* replies up to the first error; both end where the message does.
DecodesAsEncoded ==
  /\ decoded = SubSeq(asked, 1, Len(decoded))
  /\ Len(decoded) = Len(asked) => cmdPos = Len(cmd) + 1
  /\ \A k \in DOMAIN heardBack : heardBack[k].code = replies[k].code
       /\ heardBack[k].code = NONE => heardBack[k] = replies[k]
  /\ at = "done" /\ (\A k \in DOMAIN replies : replies[k].code = NONE) => rspPos = Len(got) + 1
  /\ at = "broken" => closed
=============================================================================
