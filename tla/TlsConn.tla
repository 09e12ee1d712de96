------------------------------- MODULE TlsConn -------------------------------
(***************************************************************************)
(* A TLS connection of qn:tls: drive() moves records between BearSSL's       *)
(* engine and the stream, and handshake, writeAll, read and close are loops  *)
(* around it that stop at every write and every read of the stream.  One     *)
(* operation is under way at a time, as in fetch, with a signal of its own.  *)
(* The listener that a read hangs on its signal stays there.                 *)
(*                                                                         *)
(* The engine is external: it offers a record to send, asks for records,     *)
(* takes or yields plaintext, and after a closure waits for the peer's       *)
(* close_notify.  It takes no more input while plaintext waits to be read.   *)
(* Records out are numbered; what comes in is "hs", data and "notify".       *)
(***************************************************************************)
EXTENDS Naturals, Sequences, SequencesExt

CONSTANTS
  TlsData,    \* units of data the peer sends
  MaxSends,   \* bound: calls of writeAll
  MaxCopies   \* bound: units of plaintext in the engine's buffer

ASSUME TlsAssumption == TlsData \in Nat /\ MaxSends \in Nat /\ MaxCopies \in Nat \ {0}

VARIABLE tl

Incoming == [i \in 1..TlsData |-> i]
Notify == TlsData + 1
Hs == 0

TlsInit ==
  tl = [\* engine
        hs |-> 2, rec |-> <<1>>, made |-> 1, app |-> 0, inapp |-> <<>>, closing |-> FALSE,
        told |-> FALSE, closed |-> FALSE,
        \* drive and its caller
        op |-> "new", at |-> "over", leftover |-> <<>>, need |-> 0, sends |-> 0, given |-> 0, got |-> <<>>,
        failed |-> FALSE, shut |-> FALSE, acked |-> 0, took |-> 0,
        \* stream and peer
        wire |-> <<>>, socket |-> <<>>, source |-> <<Hs, Hs>> \o Append(Incoming, Notify),
        eof |-> FALSE, cut |-> FALSE, aborted |-> FALSE]

-----------------------------------------------------------------------------
(* The engine.                                                               *)

(* A record is made of what is to be sent; at most one is on offer.  *)
Offer(e) == [e EXCEPT !.rec = Append(e.rec, e.made + 1), !.made = e.made + 1]

SENDREC(e) == e.rec # <<>>
SENDAPP(e) == e.hs = 0 /\ ~e.closing /\ e.rec = <<>> /\ e.app < MaxCopies
RECVAPP(e) == e.inapp # <<>>
RECVREC(e) == ~e.closed /\ e.inapp = <<>>

(* br_ssl_engine_close: plaintext that waits is dropped, a close_notify goes *)
(* out, and the engine is closed when the peer's has come in.                *)
EngineClose(e) ==
  IF e.closed \/ e.closing THEN e
  ELSE [Offer(e) EXCEPT !.closing = TRUE, !.inapp = <<>>, !.app = 0]

(* br_ssl_engine_recvrec_ack, for one unit of input.  *)
Take(e, x) ==
  CASE x = Hs     -> IF e.hs = 2 THEN Offer([e EXCEPT !.hs = 1]) ELSE [e EXCEPT !.hs = 0]
    [] x = Notify -> [EngineClose(e) EXCEPT !.told = TRUE, !.closed = e.closing /\ e.rec = <<>>]
    [] OTHER      -> IF e.closing THEN e ELSE [e EXCEPT !.inapp = Append(e.inapp, x)]

(* One unit more has been taken.  *)
Fed(e, x) == [Take(e, x) EXCEPT !.took = e.took + 1]

(* tlsRecvRecPush: as much of the chunk as the engine takes.  *)
Push(e, chunk) ==
  LET engineAfter[n \in 0..Len(chunk)] ==
        IF n = 0 THEN e ELSE Fed(engineAfter[n - 1], chunk[n])
      taken == CHOOSE n \in 0..Len(chunk) :
                 /\ \A i \in 0..(n - 1) : RECVREC(engineAfter[i])
                 /\ n = Len(chunk) \/ ~RECVREC(engineAfter[n])
  IN  [e |-> engineAfter[taken], n |-> taken]

(* tlsSendRecAck.  *)
Acked(e) ==
  [e EXCEPT !.rec = Tail(e.rec), !.acked = e.acked + 1,
            !.closed = e.closed \/ (e.closing /\ e.told /\ Len(e.rec) = 1)]

(* tlsFlush: what is buffered becomes a record.  *)
Flush(e) == IF e.app > 0 /\ e.rec = <<>> THEN [Offer(e) EXCEPT !.app = 0] ELSE e

-----------------------------------------------------------------------------
(* drive.                                                                    *)

(* What each caller drives for.  *)
Condition(e) ==
  CASE e.op = "handshake" -> SENDAPP(e)
    [] e.op = "write"     -> SENDAPP(e) \/ e.closed
    [] e.op = "flush"     -> ~SENDREC(e)
    [] e.op = "read"      -> RECVAPP(e) \/ e.closed
    [] e.op = "close"     -> ~SENDREC(e)

(* The caller, when drive returns.  *)
Over(e, failed) == [e EXCEPT !.op = "idle", !.at = "over", !.failed = failed]

(* handshake and writeAll throw when the engine is closed; writeAll copies   *)
(* what fits and drives again, and at last until the record is out.          *)
Returned(e) ==
  CASE e.op = "handshake" -> Over(e, ~SENDAPP(e))
    [] e.op = "write" ->
         IF e.closed THEN Over(e, TRUE)
         ELSE LET room == MaxCopies - e.app
                  n    == IF e.need < room THEN e.need ELSE room
                  f    == Flush([e EXCEPT !.app = e.app + n, !.need = e.need - n,
                                          !.sends = e.sends + n])
              IN  IF f.need > 0 THEN f ELSE [f EXCEPT !.op = "flush"]
    [] e.op = "read" -> Over([e EXCEPT !.got = e.got \o e.inapp, !.inapp = <<>>], FALSE)
    [] OTHER         -> Over(e, FALSE)

(* The chunk goes to the engine and the rest is kept for the next turn.      *)
Pushed(e, chunk) ==
  LET p == Push(e, chunk) IN [p.e EXCEPT !.leftover = SubSeq(chunk, p.n + 1, Len(chunk))]

(* Mutant: it always waits for the stream.  *)
TurnWaits(e) ==
  IF Condition(e) \/ e.closed THEN Returned(e)
  ELSE IF SENDREC(e) THEN [e EXCEPT !.at = "write"]
  ELSE IF RECVREC(e) THEN [e EXCEPT !.at = "read"]
  ELSE e

(* One turn of the loop, up to the next await.  *)
Turn(e) ==
  IF Condition(e) \/ e.closed THEN Returned(e)
  ELSE IF SENDREC(e) THEN [e EXCEPT !.at = "write"]
  ELSE IF RECVREC(e) /\ e.leftover # <<>> THEN Pushed(e, e.leftover)
  ELSE IF RECVREC(e) THEN [e EXCEPT !.at = "read"]
  ELSE e

Drive == tl.at = "run" /\ tl' = Turn(tl)

(* The write has completed.  *)
WriteDone ==
  /\ tl.at = "write" /\ tl.rec # <<>>
  /\ tl' = [Acked(tl) EXCEPT !.wire = Append(tl.wire, Head(tl.rec)), !.at = "run"]

(* The peer has gone: a write throws, out of drive; close() ignores it.      *)
WriteFails ==
  /\ tl.at = "write" /\ tl.eof
  /\ tl' = Over(tl, TRUE)

(* The stream delivers a chunk to the read that waits, of any length.        *)
ReadDelivers ==
  /\ tl.at = "read" /\ tl.socket # <<>>
  /\ \E n \in 1..Len(tl.socket) :
       tl' = [Pushed([tl EXCEPT !.socket = SubSeq(tl.socket, n + 1, Len(tl.socket))],
                     SubSeq(tl.socket, 1, n)) EXCEPT !.at = "run"]

(* The stream is at its end: the engine is told to close.  *)
ReadEof ==
  /\ tl.at = "read" /\ tl.socket = <<>> /\ tl.eof
  /\ tl' = [EngineClose(tl) EXCEPT !.at = "run"]

(* Mutant: the record is not acknowledged.  *)
GivenUpAtOnce(e) ==
  Over(IF e.at = "write" THEN [e EXCEPT !.wire = Append(e.wire, Head(e.rec))] ELSE e, TRUE)

GivenUp(e) ==
  Over(IF e.at = "write" THEN [Acked(e) EXCEPT !.wire = Append(e.wire, Head(e.rec))] ELSE e, TRUE)

(* The signal of the operation is aborted: a read is given up at once, a     *)
(* write when it is done.  A stream at its end answers a read at once.       *)
Abort ==
  /\ tl.at \in {"read", "write", "lost"} /\ tl.op # "close" /\ ~tl.aborted
  /\ tl.at = "read" => ~tl.closing
  /\ tl' = [GivenUp(tl) EXCEPT !.aborted = TRUE]

(* The signal of an earlier operation is aborted: the listener that it left  *)
(* (the handshake at least has waited for the stream) stops the reading and  *)
(* forgets the read that waits, which is never answered.                     *)
StaleAbort ==
  /\ tl.at = "read" /\ tl.op # "handshake" /\ ~tl.closing
  /\ tl' = [tl EXCEPT !.at = "lost"]

-----------------------------------------------------------------------------
(* The program and the peer.                                                 *)

CallHandshake == tl.op = "new" /\ tl' = [tl EXCEPT !.op = "handshake", !.at = "run"]
CallWrite(n) ==
  /\ tl.op = "idle" /\ tl.hs = 0 /\ ~tl.failed /\ ~tl.shut /\ tl.sends + n =< MaxSends
  /\ tl' = [tl EXCEPT !.op = "write", !.at = "run", !.need = n,
                      !.given = tl.given + n]
CallRead ==
  /\ tl.op = "idle" /\ tl.hs = 0 /\ ~tl.failed /\ ~tl.shut
  /\ tl' = [tl EXCEPT !.op = "read", !.at = "run"]
CallClose ==
  /\ tl.op = "idle" /\ ~tl.shut
  /\ tl' = [EngineClose(tl) EXCEPT !.op = "close", !.at = "run", !.shut = TRUE]

(* The peer answers each flight of the handshake and then sends at will.     *)
PeerSends ==
  /\ tl.source # <<>> /\ ~tl.eof
  /\ Head(tl.source) = Hs => Len(tl.wire) + Len(tl.source) > TlsData + 3
  /\ tl' = [tl EXCEPT !.socket = Append(tl.socket, Head(tl.source)), !.source = Tail(tl.source),
                      !.eof = Head(tl.source) = Notify]

(* The peer goes away without a close_notify.  *)
PeerCuts ==
  /\ ~tl.eof
  /\ tl' = [tl EXCEPT !.eof = TRUE, !.cut = TRUE]

TlsNext ==
  \/ Drive \/ WriteDone \/ WriteFails \/ ReadDelivers \/ ReadEof \/ Abort \/ StaleAbort
  \/ CallHandshake \/ CallRead \/ CallClose \/ (\E n \in 1..MaxSends : CallWrite(n))
  \/ PeerSends \/ PeerCuts

(* The loop runs and the network works; the peer ends what it has begun.     *)
TlsFairness ==
  /\ WF_tl(Drive) /\ WF_tl(WriteDone \/ WriteFails) /\ WF_tl(ReadDelivers \/ ReadEof)
  /\ WF_tl(PeerSends)

-----------------------------------------------------------------------------
TlsTypeOK ==
  /\ tl.op \in {"new", "idle", "handshake", "write", "flush", "read", "close"}
  /\ tl.at \in {"over", "run", "write", "read", "lost"}
  /\ tl.app \in 0..MaxCopies /\ tl.need \in 0..MaxSends

(* Every record goes out once and in the order the engine has made them,     *)
(* whichever operation is driving and wherever it is given up.               *)
RecordsGoOutOnce ==
  /\ tl.wire = [i \in 1..Len(tl.wire) |-> i]
  /\ tl.acked = Len(tl.wire) /\ tl.made = tl.acked + Len(tl.rec)

(* Everything that arrived has been taken by the engine, is kept for it, or  *)
(* is still in the stream, in order; nothing is skipped when an operation is *)
(* given up in the middle.                                                   *)
InputIsComplete ==
  LET rest == tl.leftover \o tl.socket \o tl.source
      all  == <<Hs, Hs>> \o Append(Incoming, Notify)
  IN  IsSuffix(rest, all) /\ tl.took + Len(rest) = Len(all)

(* The program reads the peer's data once and in order.  *)
ReadsInOrder == IsPrefix(tl.got \o tl.inapp, Incoming)

(* When writeAll waits for its last record, the engine has had all that it   *)
(* was given and nothing twice, over any number of partial copies.           *)
WritesAll == tl.op = "flush" => tl.sends = tl.given /\ tl.app = 0

(* drive always has something to do: it never turns without a record to      *)
(* send, a record to take or a reason to return, which would stop the        *)
(* program.                                                                  *)
DriveMakesProgress ==
  tl.at = "run" => Condition(tl) \/ tl.closed \/ SENDREC(tl) \/ RECVREC(tl)

(* An operation ends, unless the peer goes away without a close_notify: the  *)
(* engine then waits for one, and drive asks the ended stream for ever; or   *)
(* the signal of an earlier operation has made the stream forget its read.   *)
OperationEnds == tl.at # "over" ~> (tl.at \in {"over", "lost"} \/ tl.cut)

(* drive moves every record once, in order and in both directions, and the   *)
(* data in them, over any sequence of operations and signals, and never      *)
(* turns without work.                                                       *)
TlsInv ==
  /\ TlsTypeOK
  /\ RecordsGoOutOnce /\ InputIsComplete /\ ReadsInOrder /\ WritesAll
  /\ DriveMakesProgress
=============================================================================
