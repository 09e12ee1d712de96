----------------------------- MODULE FramedPipe -----------------------------
(***************************************************************************)
(* One direction of the socketpair between a Worker object and its thread   *)
(* (libuv/qn-worker.c): send_message puts a little-endian length in front   *)
(* of the serialized value, the kernel hands the bytes over in chunks of    *)
(* any size, and QNReadBuf puts the messages together again.                *)
(*                                                                         *)
(* A byte is a number below Base and a header has HeaderSize bytes (256 and *)
(* 4 in the code); a length that does not fit would be cut off.  A message  *)
(* is the byte sequence JS_WriteObject2 returns, which is never empty.      *)
(***************************************************************************)
EXTENDS Integers, Sequences, SequencesExt

CONSTANTS
  Base, HeaderSize,
  Message,     \* serialized values
  Unreadable,  \* those JS_ReadObject fails on in the receiving thread
  MaxInFlight, \* bound: messages sent and not taken out
  MaxSent      \* bound: messages sent

(* What a byte counts for: the i-th byte of a header has Weight[i - 1].  *)
Weight[k \in 0..HeaderSize] == IF k = 0 THEN 1 ELSE Base * Weight[k - 1]

Byte == 0..(Base - 1)

ASSUME FramedPipeAssumption ==
  /\ Base \in Nat \ {0, 1}
  /\ HeaderSize \in Nat \ {0}
  /\ MaxInFlight \in Nat
  /\ MaxSent \in Nat
  /\ Unreadable \subseteq Message
  /\ \A m \in Message : m \in Seq(Byte) /\ Len(m) \in 1..(Weight[HeaderSize] - 1)

VARIABLES
  sent,       \* messages given to send_message
  taken,      \* messages that readbuf_extract has taken out
  delivered,  \* messages given to the onmessage handler
  handler,    \* onmessage is a function
  outq,       \* bytes queued by uv_write that the kernel has not taken
  net,        \* bytes in the socket
  buf,        \* QNReadBuf: buf and len
  msg_len,    \* QNReadBuf: expected payload length, 0 = reading header
  extracting, \* the while loop of the read callback is running
  writerClosed,    \* the writer has closed its end
  readerClosed     \* the reader has closed, on EOF or by itself

framedVars == <<sent, taken, delivered, handler, outq, net, buf, msg_len, extracting, writerClosed,
                readerClosed>>
dispatchVars == <<delivered, handler>>

FramedTypeOK ==
  /\ sent \in Seq(Message)
  /\ taken \in Seq(Message)
  /\ delivered \in Seq(Message)
  /\ handler \in BOOLEAN
  /\ outq \in Seq(Byte)
  /\ net \in Seq(Byte)
  /\ buf \in Seq(Byte)
  /\ msg_len \in 0..(Weight[HeaderSize] - 1)
  /\ extracting \in BOOLEAN
  /\ writerClosed \in BOOLEAN
  /\ readerClosed \in BOOLEAN

FramedInit ==
  /\ sent = <<>>
  /\ taken = <<>>
  /\ delivered = <<>>
  /\ handler = FALSE
  /\ outq = <<>>
  /\ net = <<>>
  /\ buf = <<>>
  /\ msg_len = 0
  /\ extracting = FALSE
  /\ writerClosed = FALSE
  /\ readerClosed = FALSE

(* encode_u32: byte i holds the i-th digit, least significant first.  *)
encode_u32(n) == [i \in 1..HeaderSize |-> (n \div Weight[i - 1]) % Base]

(* decode_u32.  *)
decode_u32(b) ==
  LET value[k \in 0..HeaderSize] ==
        IF k = 0 THEN 0 ELSE value[k - 1] + b[k] * Weight[k - 1]
  IN  value[HeaderSize]

(* send_message: header and payload in one uv_write.  *)
Frame(m) == encode_u32(Len(m)) \o m

(* Mutant: a message is accepted after the close.  *)
SendMessageClosed(m) ==
  /\ Len(sent) < MaxSent
  /\ Len(sent) - Len(taken) < MaxInFlight
  /\ sent' = Append(sent, m)
  /\ outq' = outq \o Frame(m)
  /\ UNCHANGED <<taken, dispatchVars, net, buf, msg_len, extracting, writerClosed, readerClosed>>

SendMessage(m) ==
  /\ ~writerClosed
  /\ Len(sent) < MaxSent
  /\ Len(sent) - Len(taken) < MaxInFlight
  /\ sent' = Append(sent, m)
  /\ outq' = outq \o Frame(m)
  /\ UNCHANGED <<taken, dispatchVars, net, buf, msg_len, extracting, writerClosed, readerClosed>>

(* The kernel takes some of the queued bytes.  Once the reader has closed a   *)
(* write fails, and what is queued goes nowhere.                             *)
Flush ==
  /\ ~readerClosed
  /\ \E k \in 1..Len(outq) :
       /\ net' = net \o SubSeq(outq, 1, k)
       /\ outq' = SubSeq(outq, k + 1, Len(outq))
  /\ UNCHANGED <<sent, taken, dispatchVars, buf, msg_len, extracting, writerClosed, readerClosed>>

(* uv_close on the writing end cancels what is still queued.  *)
CloseWriter ==
  /\ ~writerClosed
  /\ writerClosed' = TRUE
  /\ outq' = <<>>
  /\ UNCHANGED <<sent, taken, dispatchVars, net, buf, msg_len, extracting, readerClosed>>

(* terminate() when the parent reads, self.close() when the worker does; the   *)
(* handler may call it, and the loop over the buffer then goes on.           *)
CloseReader ==
  /\ ~readerClosed
  /\ readerClosed' = TRUE
  /\ UNCHANGED <<sent, taken, dispatchVars, outq, net, buf, msg_len, extracting, writerClosed>>

(* onmessage is set to a function or to something else.  *)
SetHandler ==
  /\ handler' = ~handler
  /\ UNCHANGED <<sent, taken, delivered, outq, net, buf, msg_len, extracting, writerClosed,
                 readerClosed>>

(* The read callback with nread > 0: readbuf_append.  *)
ReadChunk ==
  /\ ~readerClosed
  /\ ~extracting
  /\ \E k \in 1..Len(net) :
       /\ buf' = buf \o SubSeq(net, 1, k)
       /\ net' = SubSeq(net, k + 1, Len(net))
  /\ extracting' = TRUE
  /\ UNCHANGED <<sent, taken, dispatchVars, outq, msg_len, writerClosed, readerClosed>>

(* readbuf_extract: the length expected next and the bytes after the header, *)
(* once the header is complete.                                              *)
HeaderDue == msg_len = 0 /\ Len(buf) >= HeaderSize
Expected  == IF HeaderDue THEN decode_u32(buf) ELSE msg_len
Body      == IF HeaderDue THEN SubSeq(buf, HeaderSize + 1, Len(buf)) ELSE buf
Incomplete == (msg_len = 0 /\ ~HeaderDue) \/ Len(Body) < Expected

(* What the read callback does with a message: without a handler, or when     *)
(* JS_ReadObject fails, it is dropped.                                       *)
Dispatched(m) ==
  IF handler /\ m \notin Unreadable THEN Append(delivered, m) ELSE delivered

(* Mutant: msg_len is not reset for the next header.  *)
ExtractKeepsLength ==
  /\ extracting
  /\ ~Incomplete
  /\ taken' = Append(taken, SubSeq(Body, 1, Expected))
  /\ delivered' = Dispatched(SubSeq(Body, 1, Expected))
  /\ buf' = SubSeq(Body, Expected + 1, Len(Body))
  /\ msg_len' = Expected
  /\ UNCHANGED <<sent, handler, outq, net, extracting, writerClosed, readerClosed>>

(* Mutant: the callback takes one message only (if instead of while).  *)
ExtractOnce ==
  /\ extracting
  /\ ~Incomplete
  /\ taken' = Append(taken, SubSeq(Body, 1, Expected))
  /\ delivered' = Dispatched(SubSeq(Body, 1, Expected))
  /\ buf' = SubSeq(Body, Expected + 1, Len(Body))
  /\ msg_len' = 0
  /\ extracting' = FALSE
  /\ UNCHANGED <<sent, handler, outq, net, writerClosed, readerClosed>>

(* It returns 1: a message is taken out and dispatched.  *)
Extract ==
  /\ extracting
  /\ ~Incomplete
  /\ taken' = Append(taken, SubSeq(Body, 1, Expected))
  /\ delivered' = Dispatched(SubSeq(Body, 1, Expected))
  /\ buf' = SubSeq(Body, Expected + 1, Len(Body))
  /\ msg_len' = 0
  /\ UNCHANGED <<sent, handler, outq, net, extracting, writerClosed, readerClosed>>

(* It returns 0: the header may have been consumed; the callback returns.  *)
ExtractNeedsMore ==
  /\ extracting
  /\ Incomplete
  /\ buf' = Body
  /\ msg_len' = Expected
  /\ extracting' = FALSE
  /\ UNCHANGED <<sent, taken, dispatchVars, outq, net, writerClosed, readerClosed>>

(* nread < 0: the writer has closed and the socket is empty.  *)
ReadEof ==
  /\ ~readerClosed
  /\ ~extracting
  /\ writerClosed
  /\ net = <<>>
  /\ readerClosed' = TRUE
  /\ UNCHANGED <<sent, taken, dispatchVars, outq, net, buf, msg_len, extracting, writerClosed>>

FramedNext ==
  \/ \E m \in Message : SendMessage(m)
  \/ Flush
  \/ CloseWriter
  \/ CloseReader
  \/ SetHandler
  \/ ReadChunk
  \/ Extract
  \/ ExtractNeedsMore
  \/ ReadEof

(* The kernel moves bytes and the reader's loop serves a readable socket.  *)
FramedFairness ==
  /\ WF_framedVars(Flush)
  /\ WF_framedVars(ReadChunk)
  /\ WF_framedVars(Extract)
  /\ WF_framedVars(ExtractNeedsMore)

FramedSpec == FramedInit /\ [][FramedNext]_framedVars /\ FramedFairness

-----------------------------------------------------------------------------
(* Properties.                                                               *)

Untaken == SubSeq(sent, Len(taken) + 1, Len(sent))

(* The bytes the reader has still to work off, with the header it has        *)
(* already consumed put back.                                                *)
Unread == (IF msg_len = 0 THEN <<>> ELSE encode_u32(msg_len)) \o buf \o net \o outq

(* The frames of the first n of the messages that are not taken.  *)
Frames(n) == FlattenSeq([i \in 1..n |-> Frame(Untaken[i])])

(* Framing never loses its place, however the stream was cut: what is in     *)
(* flight is the frames of the undelivered messages, or a prefix of them     *)
(* once the writer has closed.                                               *)
InSync ==
  IF writerClosed THEN IsPrefix(Unread, Frames(Len(Untaken)))
  ELSE Unread = Frames(Len(Untaken))

(* The messages whose last byte is still on its way: with the writer closed, *)
(* those whose frame is complete.                                            *)
Arriving ==
  CHOOSE n \in 0..Len(Untaken) :
    /\ \A k \in 1..n : Len(Frames(k)) =< Len(Unread)
    /\ n = Len(Untaken) \/ Len(Frames(n + 1)) > Len(Unread)

(* The framed pipe implements the message channel.  *)
Channel == INSTANCE MsgChannel WITH
  queue <- SubSeq(Untaken, 1, Arriving),
  last  <- delivered,
  open  <- ~writerClosed

ImplementsChannel == Channel!ChanSpec

(* Every message sent that can be read is delivered, unless an end is closed  *)
(* first, when onmessage is a function whenever the read callback runs: what *)
(* is taken out is not left in the buffer for a chunk that never comes.      *)
Readable(m) == m \notin Unreadable
AllDelivered ==
  [](extracting => handler) =>
    \A n \in 1..MaxSent :
      (Len(sent) >= n) ~>
        \/ Len(sent) >= n /\ Len(delivered) >= Len(SelectSeq(SubSeq(sent, 1, n), Readable))
        \/ writerClosed \/ readerClosed

(* Framing keeps its place, however the bytes of worker_read_cb are cut.     *)
FramingInv == FramedTypeOK /\ InSync
=============================================================================
