------------------------------- MODULE Fetch -------------------------------
(***************************************************************************)
(* fetch(): requests to one origin over pooled connections.  A request      *)
(* takes an idle connection or opens one, writes, awaits the head, follows  *)
(* redirects, and drains the body in the background; a drained connection   *)
(* goes back to the pool.  The transport under it reads one chunk at a      *)
(* time and hangs a listener on the signal of the request for every read.   *)
(* Between two awaits the signals of all requests, old ones too, may abort, *)
(* the idle timer may fire and the server may close.                        *)
(*                                                                         *)
(* A response arrives in pieces, cut anywhere: the beginning of a head, the  *)
(* head, alone or with the whole body, some of the body, its end.  After     *)
(* the end there may be a rest that the framing does not wait for: the CRLF  *)
(* after the last chunk, trailers, whatever follows a size or length that is *)
(* not a number.  A response is kept (the connection may be used again),     *)
(* closed (it may not), or open (it ends with the connection).              *)
(*                                                                         *)
(* The body queue between the drain and its reader is left out: the reader  *)
(* keeps up.  Every request has a signal of its own.                        *)
(***************************************************************************)
EXTENDS Naturals, Sequences, FiniteSets, SequencesExt

CONSTANTS
  FConns,   \* connections
  FReqs,    \* calls of fetch
  MaxPool,  \* MAX_CONNS_PER_ORIGIN
  MaxHops   \* MAX_REDIRECTS

VARIABLES
  freq,   \* calls of fetch
  fconn,  \* connections: transport, tokens on the wire, the server's end
  pool,   \* idle connections, the latest last
  stale   \* a signal aborted a read that was not its own

fetchVars == <<freq, fconn, pool, stale>>

Nobody == "nobody"

ASSUME FetchAssumption ==
  /\ MaxPool \in Nat /\ MaxHops \in Nat
  /\ Nobody \notin FConns /\ Nobody \notin FReqs

NoConnection == [state |-> "none", wire |-> <<>>, server |-> "open", asked |-> Nobody,
           reading |-> FALSE, pending |-> Nobody, eof |-> FALSE, listeners |-> {}]
NoFetch == [pc |-> "idle", conn |-> Nobody, via |-> "fresh", hops |-> 0,
            aborted |-> FALSE, kind |-> "close", result |-> "none",
            \* every head it has read answers it
            own |-> TRUE,
            \* it has read what an earlier response left on the connection
            spoilt |-> FALSE]

FetchInit ==
  /\ freq = [r \in FReqs |-> NoFetch]
  /\ fconn = [c \in FConns |-> NoConnection]
  /\ pool = <<>>
  /\ stale = FALSE

Waiting(r) == freq[r].pc \in {"waitHead", "waitBody"}
Active(r) == freq[r].pc \notin {"idle", "done"}

(* conn.destroy(): the stream is closed; a read on it is never answered.  *)
Destroy(k) == [NoConnection EXCEPT !.state = "destroyed"]

(* The call is over, and its variables are gone.  *)
Ends(q, how) == [q EXCEPT !.pc = "done", !.conn = Nobody, !.via = "fresh", !.hops = 0,
                          !.kind = "close",
                          !.result = IF q.result = "none" THEN how ELSE q.result]

(* Mutant: the entry stays in the pool while the connection is used.  *)
PoolGetPeeks(p) == [conn |-> Last(p), rest |-> p]

(* poolGet: the latest idle connection leaves the pool and its timer stops.  *)
PoolGet(p) == [conn |-> Last(p), rest |-> Front(p)]

(* The head of the loop of fetch(): an idle connection, or a new one.  *)
Begins(r, q) ==
  IF pool # <<>>
  THEN /\ freq' = [freq EXCEPT ![r] = [q EXCEPT !.pc = "send", !.via = "pool",
                                                !.conn = PoolGet(pool).conn]]
       /\ pool' = PoolGet(pool).rest
  ELSE /\ freq' = [freq EXCEPT ![r] = [q EXCEPT !.pc = "connect", !.via = "fresh",
                                                !.conn = Nobody]]
       /\ UNCHANGED pool

FetchStart(r) ==
  /\ freq[r].pc \in {"idle", "again"}
  /\ \/ /\ freq[r].aborted
        /\ freq' = [freq EXCEPT ![r] = Ends(freq[r], "aborted")]
        /\ UNCHANGED pool
     \/ ~freq[r].aborted /\ Begins(r, freq[r])
  /\ UNCHANGED <<fconn, stale>>

(* newConnection: dns, tcp and, for https, the handshake.  *)
FetchConnect(r) ==
  /\ freq[r].pc = "connect"
  /\ \/ \E c \in FConns :
          /\ fconn[c].state = "none" /\ ~freq[r].aborted
          /\ fconn' = [fconn EXCEPT ![c].state = "open"]
          /\ freq' = [freq EXCEPT ![r].pc = "send", ![r].conn = c]
     \/ /\ freq' = [freq EXCEPT ![r] =
            IF freq[r].aborted THEN Ends(freq[r], "aborted")
            ELSE Ends(freq[r], "error")]
        /\ UNCHANGED fconn
  /\ UNCHANGED <<pool, stale>>

(* conn.send: the write is refused by an aborted signal, fails on a reset    *)
(* connection, or is accepted; a server that has closed never sees it.  send *)
(* destroys a connection that fails; one of the pool is replaced by a new    *)
(* one and the request is sent again, once.                                  *)
Send(r) ==
  LET q == freq[r]
      c == q.conn
      failed == q.aborted \/ fconn[c].server = "reset"
  IN
  /\ q.pc = "send"
  /\ \/ /\ failed
        /\ freq' = [freq EXCEPT ![r] =
             IF q.aborted THEN Ends(q, "aborted")
             ELSE IF q.via = "pool" THEN [q EXCEPT !.pc = "connect", !.via = "resend", !.conn = Nobody]
             ELSE Ends(q, "error")]
        /\ fconn' = [fconn EXCEPT ![c] = Destroy(fconn[c])]
     \/ /\ ~failed
        /\ freq' = [freq EXCEPT ![r].pc = "readHead"]
        /\ fconn' = [fconn EXCEPT ![c].asked =
                       IF fconn[c].server = "open" THEN r ELSE fconn[c].asked]
  /\ UNCHANGED <<pool, stale>>

(* A read was answered with null: the pooled connection is retried, a fresh  *)
(* one fails, and a body ends as if it were complete.                        *)
AtEof(r, k) ==
  LET q == freq[r]
      c == q.conn
  IN
  \/ /\ q.pc \in {"readHead", "waitHead"}
     /\ freq' = [freq EXCEPT ![r] =
          IF q.via # "fresh" THEN [q EXCEPT !.pc = "connect", !.via = "fresh", !.conn = Nobody,
                                            !.spoilt = FALSE]
          ELSE Ends(q, "error")]
     /\ fconn' = [fconn EXCEPT ![c] = Destroy(k)]
     /\ UNCHANGED pool
  \/ /\ q.pc \in {"readBody", "waitBody"}
     /\ freq' = [freq EXCEPT ![r] = Ends(q, "ok")]
     /\ IF q.kind = "keep" /\ Len(pool) < MaxPool
        THEN pool' = Append(pool, c) /\ fconn' = [fconn EXCEPT ![c] = k]
        ELSE UNCHANGED pool /\ fconn' = [fconn EXCEPT ![c] = Destroy(k)]

(* transport.read().  *)
Read(r) ==
  LET q == freq[r]
      c == q.conn
  IN
  /\ q.pc \in {"readHead", "readBody"}
  /\ \/ fconn[c].eof /\ AtEof(r, fconn[c])
     \/ /\ ~fconn[c].eof /\ q.aborted
        /\ freq' = [freq EXCEPT ![r] = Ends(q, "aborted")]
        /\ fconn' = [fconn EXCEPT ![c] = Destroy(fconn[c])]
        /\ UNCHANGED pool
     \/ /\ ~fconn[c].eof /\ ~q.aborted
        /\ freq' = [freq EXCEPT ![r].pc = IF q.pc = "readHead" THEN "waitHead" ELSE "waitBody"]
        /\ fconn' = [fconn EXCEPT ![c].reading = TRUE, ![c].pending = r,
                                  ![c].listeners = fconn[c].listeners \union {r}]
        /\ UNCHANGED pool
  /\ UNCHANGED stale

-----------------------------------------------------------------------------
(* A redirect: an error, or the answer, or followed on another connection,   *)
(* as the program has asked; the connection is never used again.  One that   *)
(* would be kept is to be drained through a reader that has already been set *)
(* to null, which throws.  So does a redirect to nowhere.                    *)
Redirected(r, q, k) ==
  /\ \/ freq' = [freq EXCEPT ![r] = Ends(q, "error")]
     \/ q.hops = 0 /\ freq' = [freq EXCEPT ![r] = Ends(q, "ok")]
     \/ /\ q.hops < MaxHops /\ q.kind # "keep"
        /\ freq' = [freq EXCEPT ![r] =
                      [q EXCEPT !.pc = "again", !.hops = q.hops + 1, !.conn = Nobody]]
  /\ fconn' = [fconn EXCEPT ![q.conn] = Destroy(k)]
  /\ UNCHANGED pool

(* More is needed: of the head, or of the body.  *)
NotYet(r, q, k) ==
  /\ freq' = [freq EXCEPT ![r] = [q EXCEPT !.pc = IF q.pc = "waitHead" THEN "readHead" ELSE "readBody"]]
  /\ fconn' = [fconn EXCEPT ![q.conn] = k]
  /\ UNCHANGED pool

(* fetch() resolves with the head; pipedBody goes on with the body.  *)
HeadRead(r, q, k) ==
  /\ freq' = [freq EXCEPT ![r] = [q EXCEPT !.pc = "readBody", !.result = "ok"]]
  /\ fconn' = [fconn EXCEPT ![q.conn] = k]
  /\ UNCHANGED pool

(* onComplete(true), when the framing says that the body is over.  *)
BodyRead(r, q, k) ==
  LET keep == q.kind = "keep" /\ Len(pool) < MaxPool IN
  /\ freq' = [freq EXCEPT ![r] = Ends(q, "ok")]
  /\ pool' = IF keep THEN Append(pool, q.conn) ELSE pool
  /\ fconn' = [fconn EXCEPT ![q.conn] = IF keep THEN k ELSE Destroy(k)]

(* A piece that comes while a head is awaited.  Behind the rest of an        *)
(* earlier response the head has no status, and no redirect is seen; or the  *)
(* rest passes for a head, of a response without a length.                   *)
HeadPiece(r, q, t, k) ==
  LET h == [q EXCEPT !.own = q.own /\ t.req = r, !.kind = t.kind] IN
  \/ t.part = "begin" /\ NotYet(r, q, k)
  \/ t.part \in {"head", "whole"} /\ t.redirect /\ ~q.spoilt /\ Redirected(r, h, k)
  \/ t.part = "head" /\ ~(t.redirect /\ ~q.spoilt) /\ HeadRead(r, h, k)
  \/ t.part = "whole" /\ ~(t.redirect /\ ~q.spoilt) /\ BodyRead(r, h, k)
  \/ t.part = "rest" /\ NotYet(r, [q EXCEPT !.spoilt = TRUE], k)
  \/ /\ t.part = "rest"
     /\ HeadRead(r, [q EXCEPT !.spoilt = TRUE, !.own = q.own /\ t.req = r, !.kind = "open"], k)

BodyPiece(r, q, t, k) ==
  IF t.part = "end" /\ q.kind # "open" THEN BodyRead(r, q, k) ELSE NotYet(r, q, k)

(* The read callback of the transport: data stops the reading and resolves   *)
(* the pending read.                                                         *)
Chunk(c) ==
  LET k == fconn[c]
      r == k.pending
      k2 == [k EXCEPT !.wire = Tail(k.wire), !.reading = FALSE, !.pending = Nobody]
  IN
  /\ k.reading /\ k.wire # <<>> /\ r # Nobody
  /\ IF freq[r].pc = "waitHead" THEN HeadPiece(r, freq[r], Head(k.wire), k2)
     ELSE BodyPiece(r, freq[r], Head(k.wire), k2)
  /\ UNCHANGED stale

Eof(c) ==
  LET k == fconn[c] IN
  /\ k.reading /\ k.wire = <<>> /\ k.server = "closed" /\ k.pending # Nobody
  /\ AtEof(k.pending, [k EXCEPT !.eof = TRUE, !.reading = FALSE, !.pending = Nobody])
  /\ UNCHANGED stale

(* A secure connection that was closed without a close_notify: drive() asks   *)
(* the ended stream for ever (see TlsConn), without letting the loop run.    *)
EofUntold(c) ==
  LET k == fconn[c] IN
  /\ k.reading /\ k.wire = <<>> /\ k.server = "closed" /\ k.pending # Nobody
  /\ fconn' = [fconn EXCEPT ![c].server = "cut"]
  /\ UNCHANGED <<freq, pool, stale>>

Stuck == \E c \in FConns : fconn[c].server = "cut"

ReadError(c) ==
  LET k == fconn[c]
      r == k.pending
  IN
  /\ k.reading /\ k.wire = <<>> /\ k.server = "reset" /\ r # Nobody
  /\ freq' = [freq EXCEPT ![r] = Ends(freq[r], "error")]
  /\ fconn' = [fconn EXCEPT ![c] = Destroy(k)]
  /\ UNCHANGED <<pool, stale>>

(* The signal of r aborts, whether r still runs or not.  The listeners of    *)
(* its reads stop the reading and clear the pending read of their            *)
(* connection, whose ever it is, and reject their own promise.               *)
FetchAbort(r) ==
  /\ ~freq[r].aborted /\ freq[r].pc # "idle"
  /\ Active(r) \/ \E c \in FConns : r \in fconn[c].listeners
  /\ LET hit(c) == r \in fconn[c].listeners
         own(c) == Waiting(r) /\ freq[r].conn = c
     IN
     /\ fconn' = [c \in FConns |->
          IF own(c) THEN Destroy(fconn[c])
          ELSE IF hit(c) THEN [fconn[c] EXCEPT !.reading = FALSE, !.pending = Nobody,
                                               !.listeners = fconn[c].listeners \ {r}]
          ELSE fconn[c]]
     /\ stale' = (stale \/ \E c \in FConns : hit(c) /\ fconn[c].pending \notin {r, Nobody})
     /\ freq' = [freq EXCEPT ![r] =
          [(IF Waiting(r) THEN Ends(freq[r], "aborted") ELSE freq[r]) EXCEPT !.aborted = TRUE]]
  /\ UNCHANGED pool

(* POOL_IDLE_TIMEOUT: the first entry of the connection is spliced out.  *)
IdleTimeout(c) ==
  /\ \E i \in 1..Len(pool) :
       /\ pool[i] = c /\ \A j \in 1..(i - 1) : pool[j] # c
       /\ pool' = RemoveAt(pool, i)
  /\ fconn' = [fconn EXCEPT ![c] = Destroy(fconn[c])]
  /\ UNCHANGED <<freq, stale>>

-----------------------------------------------------------------------------
(* The server answers a request, and closes or resets whenever it likes.    *)
Shapes(kind) ==
  CASE kind = "keep"  -> {<<"whole">>, <<"head", "end">>, <<"begin", "head", "end", "rest">>}
    [] kind = "close" -> {<<"head", "end">>}
    [] kind = "open"  -> {<<"head", "more">>}

Pieces(r, shape, redirect, kind) ==
  [i \in 1..Len(shape) |-> [req |-> r, part |-> shape[i], redirect |-> redirect, kind |-> kind]]

ServerAnswers(c) ==
  LET k == fconn[c] IN
  /\ k.state = "open" /\ k.server = "open" /\ k.asked # Nobody
  /\ \E redirect \in BOOLEAN, kind \in {"keep", "close", "open"} : \E shape \in Shapes(kind) :
       fconn' = [fconn EXCEPT ![c].asked = Nobody,
                              ![c].server = IF kind = "open" THEN "closed" ELSE "open",
                              ![c].wire = k.wire \o Pieces(k.asked, shape, redirect, kind)]
  /\ UNCHANGED <<freq, pool, stale>>

ServerCloses(c) ==
  /\ fconn[c].state = "open" /\ fconn[c].server = "open"
  /\ \E how \in {"closed", "reset"}, n \in 0..Len(fconn[c].wire) :
       fconn' = [fconn EXCEPT ![c].server = how, ![c].asked = Nobody,
                              ![c].wire = SubSeq(fconn[c].wire, 1, n)]
  /\ UNCHANGED <<freq, pool, stale>>

FetchNext ==
  /\ ~Stuck
  /\ \/ \E r \in FReqs : FetchStart(r) \/ FetchConnect(r) \/ Send(r) \/ Read(r) \/ FetchAbort(r)
     \/ \E c \in FConns : \/ Chunk(c) \/ Eof(c) \/ EofUntold(c) \/ ReadError(c) \/ IdleTimeout(c)
                          \/ ServerAnswers(c) \/ ServerCloses(c)

(* The event loop runs what is ready; the server answers or goes away.  *)
FetchFairness ==
  /\ \A r \in FReqs :
       WF_fetchVars((freq[r].pc = "again" /\ FetchStart(r)) \/ FetchConnect(r) \/ Send(r) \/ Read(r))
  /\ \A c \in FConns : /\ WF_fetchVars(Chunk(c) \/ Eof(c) \/ ReadError(c))
                       /\ WF_fetchVars(ServerAnswers(c))

FetchTypeOK ==
  /\ \A r \in FReqs : freq[r].hops \in 0..MaxHops
                      /\ freq[r].result \in {"none", "ok", "error", "aborted"}
  /\ \A c \in FConns : fconn[c].state \in {"none", "open", "destroyed"}
  /\ Len(pool) =< MaxPool

(* A connection in the pool is open and serves no request, and no two        *)
(* requests are served by one connection.                                    *)
ConnectionHasOneUser ==
  /\ \A i \in 1..Len(pool) : /\ fconn[pool[i]].state = "open"
                             /\ \A r \in FReqs : Active(r) => freq[r].conn # pool[i]
                             /\ \A j \in 1..Len(pool) : pool[i] = pool[j] => i = j
  /\ \A r1, r2 \in FReqs : Active(r1) /\ Active(r2) /\ freq[r1].conn # Nobody /\ r1 # r2
                             => freq[r1].conn # freq[r2].conn

(* What a request reads is the answer to that request, over any history of   *)
(* reuse, abort, retry and half-closed connections, unless it has read the    *)
(* rest of an earlier response that was taken to be over.                    *)
ResponseIsOwn == \A r \in FReqs : freq[r].own \/ freq[r].spoilt

(* Every fetch and every body ends, unless a signal of an earlier request on *)
(* the same connection has aborted a read that was not its own, the request   *)
(* has read the rest of an earlier response and waits for more, or a secure   *)
(* connection was closed without a close_notify.                             *)
FetchEnds == \A r \in FReqs : Active(r) ~> (freq[r].pc = "done" \/ stale \/ freq[r].spoilt \/ Stuck)

(* The pool of connections: one user each, and everybody reads the answer to *)
(* his own request.                                                          *)
FetchInv == FetchTypeOK /\ ConnectionHasOneUser /\ ResponseIsOwn
=============================================================================
