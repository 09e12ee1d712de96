----------------------------- MODULE NetProofs -----------------------------
(***************************************************************************)
(* Proofs about Net.  The layers share no variable, so each has an          *)
(* inductive invariant of its own.                                          *)
(*                                                                         *)
(* fetch: ConnectionHasOneUser and ResponseIsOwn rest on who may hold a      *)
(* connection at each point of a request and on what its wire then carries:  *)
(* the rest of earlier responses, and behind it, while a request reads, the  *)
(* pieces of the answer to that request, with nothing but a rest behind the  *)
(* piece that ends it.                                                       *)
(*                                                                         *)
(* Credentials: the anchors of the array are those of the objects that       *)
(* ended so far, in order, what the connections point at is pinned, and an   *)
(* object is open only behind its beginning.                                 *)
(*                                                                         *)
(* crypto: a call begins in the key stream where the one before it ended.    *)
(*                                                                         *)
(* TLS: what is kept, what is in the stream and what the peer has still to   *)
(* send follow on what the engine has taken, unit by unit.                   *)
(***************************************************************************)
EXTENDS Net, SequenceFacts, FiniteSetTheorems, TLAPS

-----------------------------------------------------------------------------
(* What a request and a connection are.                                      *)

HeadPcs == {"readHead", "waitHead"}
BodyPcs == {"readBody", "waitBody"}
HoldingPcs == {"send"} \cup HeadPcs \cup BodyPcs
FreePcs == {"idle", "again", "connect", "done"}

Kinds == {"keep", "close", "open"}
Tokens == [req : FReqs, part : {"begin", "head", "whole", "more", "end", "rest"},
           redirect : BOOLEAN, kind : Kinds]

FetchRec ==
  [pc : HoldingPcs \cup FreePcs, conn : FConns \cup {Nobody},
   via : {"fresh", "pool", "resend"}, hops : 0..MaxHops, aborted : BOOLEAN, kind : Kinds,
   result : {"none", "ok", "error", "aborted"}, own : BOOLEAN, spoilt : BOOLEAN]

ConnRec ==
  [state : {"none", "open", "destroyed"}, wire : Seq(Tokens),
   server : {"open", "closed", "reset", "cut"}, asked : FReqs \cup {Nobody}, reading : BOOLEAN,
   pending : FReqs \cup {Nobody}, eof : BOOLEAN, listeners : SUBSET FReqs]

(* A request holds a connection exactly between connect and its end, and the *)
(* heads it has read are its own unless a rest has passed for one.           *)
ReqOK(r, q) ==
  /\ q \in FetchRec
  /\ q.pc \in HoldingPcs <=> q.conn # Nobody
  /\ q.own \/ (q.spoilt /\ q.pc \in BodyPcs \cup {"done"})

(* What earlier responses have left.  *)
OnlyRest(w) == \A i \in 1..Len(w) : w[i].part = "rest"

(* A connection on which nothing is under way.  *)
Quiet(k) == OnlyRest(k.wire) /\ k.asked = Nobody /\ k.pending = Nobody

(* A closed server has nothing left to answer, an ended stream nothing left  *)
(* to deliver, and a connection that was never opened is as it was made.     *)
ConnOK(k) ==
  /\ k \in ConnRec
  /\ k.server # "open" => k.asked = Nobody
  /\ k.eof => k.server # "open" /\ k.wire = <<>>
  /\ k.state = "none" => Quiet(k)
  /\ k.pending # Nobody => k.state = "open"

(* What the connection of a request carries, by where the request stands.    *)
AnswerTo(r, w) ==
  \A i \in 1..Len(w) :
    /\ w[i].part # "rest" => w[i].req = r
    /\ \A j \in 1..Len(w) : i < j /\ w[i].part \in {"end", "whole"} => w[j].part = "rest"

Underway(r, k) ==
  /\ k.asked \in {Nobody, r} /\ (k.asked # Nobody => OnlyRest(k.wire))
  /\ AnswerTo(r, k.wire)

Carries(r, q, k) ==
  /\ k.state = "open"
  /\ q.pc = "send" => Quiet(k)
  /\ q.pc \in HeadPcs \cup BodyPcs => Underway(r, k)

(* A read that is under way is the read of a request that holds the          *)
(* connection and waits.                                                     *)
PendingOK(c, k) ==
  k.pending # Nobody => freq[k.pending].conn = c /\ Waiting(k.pending)

ReqsInv == freq \in [FReqs -> FetchRec] /\ \A r \in FReqs : ReqOK(r, freq[r])
ConnsInv == fconn \in [FConns -> ConnRec] /\ \A c \in FConns : ConnOK(fconn[c])
HeldInv ==
  \A r \in FReqs : freq[r].conn # Nobody => Carries(r, freq[r], fconn[freq[r].conn])
PendingInv == \A c \in FConns : PendingOK(c, fconn[c])
AloneInv ==
  \A r, s \in FReqs : r # s /\ freq[r].conn # Nobody => freq[r].conn # freq[s].conn
PoolInv ==
  /\ pool \in Seq(FConns) /\ Len(pool) =< MaxPool
  /\ \A i \in 1..Len(pool) :
       /\ fconn[pool[i]].state = "open" /\ Quiet(fconn[pool[i]])
       /\ \A r \in FReqs : freq[r].conn # pool[i]
       /\ \A j \in 1..Len(pool) : pool[i] = pool[j] => i = j

FetchIInv == ReqsInv /\ ConnsInv /\ HeldInv /\ PendingInv /\ AloneInv /\ PoolInv

-----------------------------------------------------------------------------
(* The shape of most steps: one request and one connection change, the       *)
(* connection is the one the request holds or is about to hold, and it goes  *)
(* to the pool or does not.                                                  *)
LEMMA FetchStep ==
  ASSUME FetchIInv, NEW r \in FReqs, NEW c \in FConns, NEW q, NEW k,
         freq' = [freq EXCEPT ![r] = q], fconn' = [fconn EXCEPT ![c] = k],
         freq[r].conn \in {Nobody, c},
         \A s \in FReqs : s # r => freq[s].conn # c,
         \A i \in 1..Len(pool) : pool[i] # c,
         ReqOK(r, q), ConnOK(k), q.conn \in {Nobody, c},
         q.conn = c => Carries(r, q, k),
         k.pending # Nobody => k.pending = r /\ q.conn = c /\ q.pc \in {"waitHead", "waitBody"},
         \/ pool' = pool
         \/ /\ pool' = Append(pool, c) /\ Len(pool) < MaxPool
            /\ q.conn = Nobody /\ k.state = "open" /\ Quiet(k)
  PROVE  FetchIInv'
<1>a. /\ freq \in [FReqs -> FetchRec] /\ fconn \in [FConns -> ConnRec]
      /\ q \in FetchRec /\ k \in ConnRec
  BY DEF FetchIInv, ReqsInv, ConnsInv, ReqOK, ConnOK
<1>b. \A s \in FReqs : freq'[s] = IF s = r THEN q ELSE freq[s]
  BY <1>a
<1>c. \A d \in FConns : fconn'[d] = IF d = c THEN k ELSE fconn[d]
  BY <1>a
<1>d. \A s \in FReqs : freq[s].conn \in FConns \cup {Nobody}
  BY <1>a DEF FetchRec
<1>1. ReqsInv'
  <2>1. \A s \in FReqs : ReqOK(s, freq'[s])
    BY <1>b DEF FetchIInv, ReqsInv
  <2>2. freq' \in [FReqs -> FetchRec]
    BY <1>a
  <2> QED  BY <2>1, <2>2 DEF ReqsInv
<1>2. ConnsInv'
  <2>1. \A d \in FConns : ConnOK(fconn'[d])
    BY <1>c DEF FetchIInv, ConnsInv
  <2>2. fconn' \in [FConns -> ConnRec]
    BY <1>a
  <2> QED  BY <2>1, <2>2 DEF ConnsInv
<1>3. HeldInv'
  <2> SUFFICES ASSUME NEW s \in FReqs, freq'[s].conn # Nobody
               PROVE  Carries(s, freq'[s], fconn'[freq'[s].conn])
    BY DEF HeldInv
  <2>1. CASE s = r
    BY <2>1, <1>b, <1>c
  <2>2. CASE s # r
    <3>1. freq'[s] = freq[s] /\ freq[s].conn \in FConns /\ freq[s].conn # c
      BY <2>2, <1>b, <1>d
    <3>2. fconn'[freq[s].conn] = fconn[freq[s].conn]
      BY <3>1, <1>c
    <3> QED  BY <3>1, <3>2 DEF FetchIInv, HeldInv
  <2> QED  BY <2>1, <2>2
<1>4. PendingInv'
  <2> SUFFICES ASSUME NEW d \in FConns, fconn'[d].pending # Nobody
               PROVE  /\ freq'[fconn'[d].pending].conn = d
                      /\ freq'[fconn'[d].pending].pc \in {"waitHead", "waitBody"}
    BY DEF PendingInv, PendingOK, Waiting
  <2>1. CASE d = c
    BY <2>1, <1>b, <1>c, FetchAssumption
  <2>2. CASE d # c
    <3>1. fconn'[d] = fconn[d] /\ fconn[d].pending \in FReqs
      BY <2>2, <1>c, <1>a DEF ConnRec
    <3>2. freq[fconn[d].pending].conn = d /\ freq[fconn[d].pending].pc \in {"waitHead", "waitBody"}
      BY <3>1 DEF FetchIInv, PendingInv, PendingOK, Waiting
    <3>3. fconn[d].pending # r
      BY <3>2, <2>2, FetchAssumption
    <3> QED  BY <3>1, <3>2, <3>3, <1>b
  <2> QED  BY <2>1, <2>2
<1>5. AloneInv'
  <2> SUFFICES ASSUME NEW s \in FReqs, NEW t \in FReqs, s # t, freq'[s].conn # Nobody
               PROVE  freq'[s].conn # freq'[t].conn
    BY DEF AloneInv
  <2> QED  BY <1>b DEF FetchIInv, AloneInv
<1>6. PoolInv'
  <2>0. pool \in Seq(FConns) /\ Len(pool) =< MaxPool
    BY DEF FetchIInv, PoolInv
  <2>1. \A i \in 1..Len(pool) :
          /\ pool[i] \in FConns /\ fconn'[pool[i]] = fconn[pool[i]]
          /\ fconn[pool[i]].state = "open" /\ Quiet(fconn[pool[i]])
          /\ \A s \in FReqs : freq'[s].conn # pool[i]
          /\ \A j \in 1..Len(pool) : pool[i] = pool[j] => i = j
    BY <2>0, <1>b, <1>c, FetchAssumption DEF FetchIInv, PoolInv
  <2>2. CASE pool' = pool
    BY <2>0, <2>1, <2>2 DEF PoolInv
  <2>3. CASE /\ pool' = Append(pool, c) /\ Len(pool) < MaxPool
             /\ q.conn = Nobody /\ k.state = "open" /\ Quiet(k)
    <3>1. /\ pool' \in Seq(FConns) /\ Len(pool') = Len(pool) + 1 /\ Len(pool') =< MaxPool
          /\ \A i \in 1..Len(pool') : pool'[i] = IF i =< Len(pool) THEN pool[i] ELSE c
      BY <2>0, <2>3, FetchAssumption
    <3>2. fconn'[c] = k /\ \A s \in FReqs : freq'[s].conn # c
      BY <1>b, <1>c, <2>3, FetchAssumption
    <3>3. ASSUME NEW i \in 1..Len(pool')
          PROVE  /\ fconn'[pool'[i]].state = "open" /\ Quiet(fconn'[pool'[i]])
                 /\ \A s \in FReqs : freq'[s].conn # pool'[i]
                 /\ \A j \in 1..Len(pool') : pool'[i] = pool'[j] => i = j
      <4>1. CASE i =< Len(pool)
        <5>1. i \in 1..Len(pool) /\ pool'[i] = pool[i]
          BY <4>1, <3>1
        <5> QED  BY <5>1, <2>1, <3>1, <2>0
      <4>2. CASE ~(i =< Len(pool))
        <5>1. i = Len(pool) + 1 /\ pool'[i] = c
          BY <4>2, <3>1, <2>0
        <5> QED  BY <5>1, <3>1, <3>2, <2>3, <2>0
      <4> QED  BY <4>1, <4>2
    <3> QED  BY <3>1, <3>3 DEF PoolInv
  <2> QED  BY <2>2, <2>3
<1> QED  BY <1>1, <1>2, <1>3, <1>4, <1>5, <1>6 DEF FetchIInv

(* Only a request changes, which holds no connection before or after, or     *)
(* takes the last one of the pool.                                           *)
LEMMA FetchReqStep ==
  ASSUME FetchIInv, NEW r \in FReqs, NEW q,
         freq' = [freq EXCEPT ![r] = q], fconn' = fconn,
         freq[r].conn = Nobody, ReqOK(r, q),
         \/ pool' = pool /\ q.conn = Nobody
         \/ pool # <<>> /\ pool' = Front(pool) /\ q.conn = Last(pool) /\ q.pc = "send"
  PROVE  FetchIInv'
<1>a. /\ freq \in [FReqs -> FetchRec] /\ fconn \in [FConns -> ConnRec] /\ q \in FetchRec
      /\ pool \in Seq(FConns) /\ Len(pool) \in Nat /\ Len(pool) =< MaxPool
  BY DEF FetchIInv, ReqsInv, ConnsInv, PoolInv, ReqOK
<1>b. \A s \in FReqs : freq'[s] = IF s = r THEN q ELSE freq[s]
  BY <1>a
<1>c. \/ pool' = pool /\ q.conn = Nobody
      \/ /\ Len(pool) > 0 /\ pool' \in Seq(FConns) /\ Len(pool') = Len(pool) - 1
         /\ \A i \in 1..Len(pool') : pool'[i] = pool[i]
         /\ q.conn = pool[Len(pool)] /\ q.pc = "send"
  BY <1>a DEF Front, Last
<1>d. \A i \in 1..Len(pool) :
          /\ pool[i] \in FConns /\ fconn[pool[i]].state = "open" /\ Quiet(fconn[pool[i]])
          /\ \A s \in FReqs : freq[s].conn # pool[i]
          /\ \A j \in 1..Len(pool) : pool[i] = pool[j] => i = j
  BY <1>a DEF FetchIInv, PoolInv
<1>1. ReqsInv'
  <2>1. \A s \in FReqs : ReqOK(s, freq'[s])
    BY <1>b DEF FetchIInv, ReqsInv
  <2>2. freq' \in [FReqs -> FetchRec]
    BY <1>a
  <2> QED  BY <2>1, <2>2 DEF ReqsInv
<1>2. ConnsInv'
  BY DEF FetchIInv, ConnsInv
<1>3. HeldInv'
  <2> SUFFICES ASSUME NEW s \in FReqs, freq'[s].conn # Nobody
               PROVE  Carries(s, freq'[s], fconn[freq'[s].conn])
    BY DEF HeldInv
  <2>1. CASE s = r
    <3>1. freq'[s] = q /\ q.pc = "send" /\ Len(pool) \in 1..Len(pool) /\ q.conn = pool[Len(pool)]
      BY <2>1, <1>a, <1>b, <1>c
    <3>2. fconn[q.conn].state = "open" /\ Quiet(fconn[q.conn])
      BY <3>1, <1>d
    <3> QED  BY <3>1, <3>2 DEF Carries, HeadPcs, BodyPcs
  <2>2. CASE s # r
    BY <2>2, <1>b DEF FetchIInv, HeldInv
  <2> QED  BY <2>1, <2>2
<1>4. PendingInv'
  <2> SUFFICES ASSUME NEW d \in FConns, fconn[d].pending # Nobody
               PROVE  /\ freq'[fconn[d].pending].conn = d
                      /\ freq'[fconn[d].pending].pc \in {"waitHead", "waitBody"}
    BY DEF PendingInv, PendingOK, Waiting
  <2>1. fconn[d].pending \in FReqs
    BY <1>a DEF ConnRec
  <2>2. freq[fconn[d].pending].conn = d /\ freq[fconn[d].pending].pc \in {"waitHead", "waitBody"}
    BY <2>1 DEF FetchIInv, PendingInv, PendingOK, Waiting
  <2> QED  BY <2>1, <2>2, <1>b, FetchAssumption
<1>5. AloneInv'
  <2> SUFFICES ASSUME NEW s \in FReqs, NEW t \in FReqs, s # t, freq'[s].conn # Nobody
               PROVE  freq'[s].conn # freq'[t].conn
    BY DEF AloneInv
  <2>1. \A u \in FReqs : u # r => q.conn # freq[u].conn \/ q.conn = Nobody
    BY <1>a, <1>c, <1>d
  <2> QED  BY <2>1, <1>b DEF FetchIInv, AloneInv
<1>6. PoolInv'
  <2>1. CASE pool' = pool /\ q.conn = Nobody
    BY <2>1, <1>a, <1>b, <1>d, FetchAssumption DEF PoolInv
  <2>2. CASE /\ Len(pool) > 0 /\ pool' \in Seq(FConns) /\ Len(pool') = Len(pool) - 1
             /\ \A i \in 1..Len(pool') : pool'[i] = pool[i]
             /\ q.conn = pool[Len(pool)] /\ q.pc = "send"
    <3>1. ASSUME NEW i \in 1..Len(pool')
          PROVE  /\ fconn'[pool'[i]].state = "open" /\ Quiet(fconn'[pool'[i]])
                 /\ \A s \in FReqs : freq'[s].conn # pool'[i]
                 /\ \A j \in 1..Len(pool') : pool'[i] = pool'[j] => i = j
      <4>1. i \in 1..Len(pool) /\ i # Len(pool) /\ pool'[i] = pool[i] /\ Len(pool) \in 1..Len(pool)
        BY <2>2, <1>a
      <4>2. pool[Len(pool)] # pool[i]
        BY <4>1, <1>d
      <4> QED  BY <4>1, <4>2, <1>d, <1>b, <2>2
    <3> QED  BY <3>1, <2>2, <1>a, FetchAssumption DEF PoolInv
  <2> QED  BY <2>1, <2>2, <1>c
<1> QED  BY <1>1, <1>2, <1>3, <1>4, <1>5, <1>6 DEF FetchIInv

(* Only a connection changes: the server's end of it and what it has sent.   *)
LEMMA FetchConnStep ==
  ASSUME FetchIInv, NEW c \in FConns, NEW k,
         fconn' = [fconn EXCEPT ![c] = k], freq' = freq, pool' = pool,
         ConnOK(k), k.state = fconn[c].state, k.pending = fconn[c].pending,
         Quiet(fconn[c]) => Quiet(k),
         \A r \in FReqs : freq[r].conn = c => Carries(r, freq[r], k)
  PROVE  FetchIInv'
<1>a. fconn \in [FConns -> ConnRec] /\ k \in ConnRec
  BY DEF FetchIInv, ConnsInv, ConnOK
<1>b. \A d \in FConns : fconn'[d] = IF d = c THEN k ELSE fconn[d]
  BY <1>a
<1>1. ReqsInv' /\ AloneInv'
  BY DEF FetchIInv, ReqsInv, AloneInv
<1>2. ConnsInv'
  <2>1. \A d \in FConns : ConnOK(fconn'[d])
    BY <1>b DEF FetchIInv, ConnsInv
  <2>2. fconn' \in [FConns -> ConnRec]
    BY <1>a
  <2> QED  BY <2>1, <2>2 DEF ConnsInv
<1>3. HeldInv'
  <2> SUFFICES ASSUME NEW s \in FReqs, freq[s].conn # Nobody
               PROVE  Carries(s, freq[s], fconn'[freq[s].conn])
    BY DEF HeldInv
  <2>1. freq[s].conn \in FConns
    BY DEF FetchIInv, ReqsInv, FetchRec
  <2>2. CASE freq[s].conn = c
    BY <2>2, <1>b
  <2>3. CASE freq[s].conn # c
    BY <2>1, <2>3, <1>b DEF FetchIInv, HeldInv
  <2> QED  BY <2>2, <2>3
<1>4. PendingInv'
  BY <1>b DEF FetchIInv, PendingInv, PendingOK, Waiting
<1>5. PoolInv'
  BY <1>b DEF FetchIInv, PoolInv
<1> QED  BY <1>1, <1>2, <1>3, <1>4, <1>5 DEF FetchIInv

-----------------------------------------------------------------------------
(* A request that holds a connection holds it alone.  *)
LEMMA Holding ==
  ASSUME FetchIInv, NEW r \in FReqs, freq[r].pc \in HoldingPcs
  PROVE  /\ freq[r].conn \in FConns
         /\ \A s \in FReqs : s # r => freq[s].conn # freq[r].conn
         /\ \A i \in 1..Len(pool) : pool[i] # freq[r].conn
         /\ Carries(r, freq[r], fconn[freq[r].conn])
         /\ ConnOK(fconn[freq[r].conn]) /\ ReqOK(r, freq[r])
         /\ fconn[freq[r].conn].pending \in {Nobody, r}
         /\ fconn[freq[r].conn].pending = r => Waiting(r)
<1>1. ReqOK(r, freq[r]) /\ freq[r] \in FetchRec
  BY DEF FetchIInv, ReqsInv
<1>2. freq[r].conn \in FConns
  BY <1>1 DEF ReqOK, FetchRec
<1>3. \A s \in FReqs : s # r => freq[s].conn # freq[r].conn
  BY <1>2, FetchAssumption DEF FetchIInv, AloneInv
<1>4. \A i \in 1..Len(pool) : pool[i] # freq[r].conn
  BY DEF FetchIInv, PoolInv
<1>5. Carries(r, freq[r], fconn[freq[r].conn]) /\ ConnOK(fconn[freq[r].conn])
  BY <1>2, FetchAssumption DEF FetchIInv, HeldInv, ConnsInv
<1>6. fconn[freq[r].conn].pending \in FReqs \cup {Nobody}
  BY <1>5 DEF ConnOK, ConnRec
<1>7. fconn[freq[r].conn].pending # Nobody =>
        /\ freq[fconn[freq[r].conn].pending].conn = freq[r].conn
        /\ Waiting(fconn[freq[r].conn].pending)
  BY <1>2 DEF FetchIInv, PendingInv, PendingOK
<1>8. fconn[freq[r].conn].pending \in {Nobody, r} /\ (fconn[freq[r].conn].pending = r => Waiting(r))
  BY <1>3, <1>6, <1>7, FetchAssumption
<1> QED  BY <1>1, <1>2, <1>3, <1>4, <1>5, <1>8

(* The end of a request.  *)
LEMMA EndsWith ==
  ASSUME NEW r \in FReqs, NEW q \in FetchRec, q.own \/ q.spoilt,
         NEW how \in {"ok", "error", "aborted"}
  PROVE  ReqOK(r, Ends(q, how)) /\ Ends(q, how).conn = Nobody
<1> DEFINE res == IF q.result = "none" THEN how ELSE q.result
           p == [q EXCEPT !.pc = "done", !.conn = Nobody, !.via = "fresh", !.hops = 0,
                          !.kind = "close", !.result = res]
<1>1. p = Ends(q, how)
  BY DEF Ends
<1>2. res \in {"none", "ok", "error", "aborted"} /\ 0 \in 0..MaxHops
  BY FetchAssumption DEF FetchRec
<1> HIDE DEF res
<1>3. /\ p \in FetchRec /\ p.pc = "done" /\ p.conn = Nobody
      /\ p.own = q.own /\ p.spoilt = q.spoilt
  BY <1>2 DEF FetchRec, FreePcs, Kinds
<1> HIDE DEF p
<1>4. ReqOK(r, p)
  BY <1>3 DEF ReqOK, HoldingPcs, HeadPcs, BodyPcs
<1> QED  BY <1>1, <1>3, <1>4

LEMMA EndsOK ==
  ASSUME NEW r \in FReqs, NEW q, ReqOK(r, q), NEW how \in {"ok", "error", "aborted"}
  PROVE  ReqOK(r, Ends(q, how)) /\ Ends(q, how).conn = Nobody
<1>1. q \in FetchRec /\ (q.own \/ q.spoilt)
  BY DEF ReqOK
<1> QED  BY <1>1, EndsWith

(* The end of a connection, and a connection that was never opened.  *)
LEMMA NoConnectionOK == ConnOK(NoConnection) /\ Quiet(NoConnection) /\ NoConnection \in ConnRec
<1>1. <<>> \in Seq(Tokens) /\ Len(<<>>) = 0
  OBVIOUS
<1>2. /\ NoConnection \in ConnRec /\ NoConnection.wire = <<>> /\ NoConnection.asked = Nobody
      /\ NoConnection.pending = Nobody /\ NoConnection.eof = FALSE /\ NoConnection.server = "open"
  BY <1>1 DEF NoConnection, ConnRec
<1>3. Quiet(NoConnection)
  BY <1>1, <1>2 DEF Quiet, OnlyRest
<1> QED  BY <1>2, <1>3 DEF ConnOK

LEMMA DestroyOK ==
  ASSUME NEW k
  PROVE  ConnOK(Destroy(k)) /\ Destroy(k).pending = Nobody
<1> DEFINE d == [NoConnection EXCEPT !.state = "destroyed"]
<1>1. NoConnection \in ConnRec /\ ConnOK(NoConnection) /\ Quiet(NoConnection)
  BY NoConnectionOK
<1>2. /\ d \in ConnRec /\ d.state = "destroyed" /\ d.wire = NoConnection.wire
      /\ d.pending = NoConnection.pending /\ d.server = NoConnection.server
      /\ d.asked = NoConnection.asked /\ d.eof = NoConnection.eof
  BY <1>1 DEF ConnRec
<1>3. d = Destroy(k)
  BY DEF Destroy
<1> HIDE DEF d
<1> QED  BY <1>1, <1>2, <1>3 DEF ConnOK, Quiet

(* A request lets go of its connection, which is destroyed.  *)
LEMMA LetGoStep ==
  ASSUME FetchIInv, NEW r \in FReqs, freq[r].pc \in HoldingPcs, NEW q, NEW k,
         ReqOK(r, q), q.conn = Nobody, ConnOK(k),
         freq' = [freq EXCEPT ![r] = q],
         fconn' = [fconn EXCEPT ![freq[r].conn] = Destroy(k)], pool' = pool
  PROVE  FetchIInv'
<1> DEFINE c == freq[r].conn
           d == Destroy(k)
<1>1. /\ c \in FConns /\ (\A s \in FReqs : s # r => freq[s].conn # c)
      /\ \A i \in 1..Len(pool) : pool[i] # c
  BY Holding
<1>2. ConnOK(d) /\ d.pending = Nobody
  BY DestroyOK
<1>3. q.conn \in {Nobody, c} /\ q.conn # c /\ freq[r].conn \in {Nobody, c}
  BY <1>1, FetchAssumption
<1>4. fconn' = [fconn EXCEPT ![c] = d]
  OBVIOUS
<1> HIDE DEF d
<1> QED  BY <1>1, <1>2, <1>3, <1>4, FetchStep

(* Where a request stands after it has given up its connection and will ask  *)
(* for another one.                                                          *)
LEMMA AgainOK ==
  ASSUME NEW r \in FReqs, NEW q, ReqOK(r, q), q.pc \notin BodyPcs \cup {"done"},
         NEW via \in {"fresh", "resend"}
  PROVE  LET p == [q EXCEPT !.pc = "connect", !.via = via, !.conn = Nobody]
         IN  ReqOK(r, p) /\ p.conn = Nobody
BY DEF ReqOK, FetchRec, HoldingPcs, FreePcs, HeadPcs, BodyPcs

LEMMA AgainCleanOK ==
  ASSUME NEW r \in FReqs, NEW q, ReqOK(r, q), q.pc \in HeadPcs
  PROVE  LET p == [q EXCEPT !.pc = "connect", !.via = "fresh", !.conn = Nobody, !.spoilt = FALSE]
         IN  ReqOK(r, p) /\ p.conn = Nobody
BY DEF ReqOK, FetchRec, HoldingPcs, FreePcs, HeadPcs, BodyPcs

(* The stream has ended.  *)
LEMMA AtEofStep ==
  ASSUME FetchIInv, NEW r \in FReqs, NEW k, AtEof(r, k), ConnOK(k), k.state = "open", Quiet(k)
  PROVE  FetchIInv'
<1> DEFINE q == freq[r]
           c == freq[r].conn
<1>0. q.pc \in HoldingPcs
  BY DEF AtEof, HoldingPcs, HeadPcs, BodyPcs
<1>1. /\ c \in FConns /\ (\A s \in FReqs : s # r => freq[s].conn # c)
      /\ (\A i \in 1..Len(pool) : pool[i] # c) /\ ReqOK(r, q)
  BY <1>0, Holding
<1>2. CASE q.pc \in HeadPcs
  <2> DEFINE p == IF q.via # "fresh"
                  THEN [q EXCEPT !.pc = "connect", !.via = "fresh", !.conn = Nobody, !.spoilt = FALSE]
                  ELSE Ends(q, "error")
  <2>1. /\ freq' = [freq EXCEPT ![r] = p] /\ fconn' = [fconn EXCEPT ![c] = Destroy(k)]
        /\ pool' = pool
    BY <1>2 DEF AtEof, HeadPcs
  <2>2. ReqOK(r, p) /\ p.conn = Nobody
    BY <1>1, <1>2, EndsOK, AgainCleanOK
  <2> HIDE DEF p, q
  <2> QED  BY <1>0, <2>1, <2>2, LetGoStep DEF q
<1>3. CASE q.pc \in BodyPcs
  <2> DEFINE p == Ends(q, "ok")
  <2>1. freq' = [freq EXCEPT ![r] = p]
    BY <1>3 DEF AtEof, BodyPcs
  <2>2. ReqOK(r, p) /\ p.conn = Nobody
    BY <1>1, EndsOK
  <2>3. CASE q.kind = "keep" /\ Len(pool) < MaxPool
    <3>1. pool' = Append(pool, c) /\ fconn' = [fconn EXCEPT ![c] = k]
      BY <1>3, <2>3 DEF AtEof, BodyPcs
    <3>2. p.conn \in {Nobody, c} /\ p.conn # c /\ freq[r].conn \in {Nobody, c} /\ k.pending = Nobody
      BY <1>1, <2>2, FetchAssumption DEF Quiet
    <3>3. Len(pool) < MaxPool
      BY <2>3
    <3> HIDE DEF p
    <3> QED  BY <1>1, <2>1, <2>2, <3>1, <3>2, <3>3, FetchStep
  <2>4. CASE ~(q.kind = "keep" /\ Len(pool) < MaxPool)
    <3>1. pool' = pool /\ fconn' = [fconn EXCEPT ![c] = Destroy(k)]
      BY <1>3, <2>4 DEF AtEof, BodyPcs
    <3> HIDE DEF p, q
    <3> QED  BY <1>0, <2>1, <2>2, <3>1, LetGoStep DEF q
  <2> QED  BY <2>3, <2>4
<1> QED  BY <1>2, <1>3 DEF AtEof, HeadPcs, BodyPcs

-----------------------------------------------------------------------------
(* A request that holds nothing.  *)
LEMMA NotHolding ==
  ASSUME FetchIInv, NEW r \in FReqs, freq[r].pc \in FreePcs
  PROVE  freq[r].conn = Nobody /\ ReqOK(r, freq[r])
BY DEF FetchIInv, ReqsInv, ReqOK, FreePcs, HoldingPcs, HeadPcs, BodyPcs

LEMMA FetchStartKeeps ==
  ASSUME FetchIInv, NEW r \in FReqs, FetchStart(r)
  PROVE  FetchIInv'
<1> DEFINE q == freq[r]
<1>1. q.conn = Nobody /\ ReqOK(r, q) /\ fconn' = fconn /\ q.pc \in {"idle", "again"}
  BY NotHolding DEF FetchStart, FreePcs
<1>n. q.pc \notin BodyPcs \cup {"done"}
  BY <1>1 DEF BodyPcs
<1>2. CASE /\ q.aborted /\ freq' = [freq EXCEPT ![r] = Ends(q, "aborted")] /\ pool' = pool
  <2> DEFINE p == Ends(q, "aborted")
  <2>1. ReqOK(r, p) /\ p.conn = Nobody
    BY <1>1, EndsOK
  <2>2. freq' = [freq EXCEPT ![r] = p]
    BY <1>2
  <2> HIDE DEF p
  <2> QED  BY <1>1, <1>2, <2>1, <2>2, FetchReqStep
<1>3. CASE Begins(r, q)
  <2>1. CASE pool # <<>>
    <3> DEFINE p == [q EXCEPT !.pc = "send", !.via = "pool", !.conn = PoolGet(pool).conn]
    <3>1. freq' = [freq EXCEPT ![r] = p] /\ pool' = Front(pool)
      BY <1>3, <2>1 DEF Begins, PoolGet
    <3>2. Last(pool) \in FConns
      BY <2>1 DEF Last, FetchIInv, PoolInv
    <3>3. PoolGet(pool).conn = Last(pool)
      BY DEF PoolGet
    <3>4. ReqOK(r, p) /\ p.conn = Last(pool) /\ p.pc = "send"
      BY <1>1, <3>2, <3>3, FetchAssumption DEF ReqOK, FetchRec, HoldingPcs, FreePcs, HeadPcs, BodyPcs
    <3> HIDE DEF p
    <3> QED  BY <1>1, <2>1, <3>1, <3>4, FetchReqStep
  <2>2. CASE pool = <<>>
    <3> DEFINE p == [q EXCEPT !.pc = "connect", !.via = "fresh", !.conn = Nobody]
    <3>1. freq' = [freq EXCEPT ![r] = p] /\ pool' = pool
      BY <1>3, <2>2 DEF Begins
    <3>2. ReqOK(r, p) /\ p.conn = Nobody
      BY <1>1, <1>n, AgainOK
    <3> HIDE DEF p
    <3> QED  BY <1>1, <3>1, <3>2, FetchReqStep
  <2> QED  BY <2>1, <2>2
<1> QED  BY <1>2, <1>3 DEF FetchStart

LEMMA FetchConnectKeeps ==
  ASSUME FetchIInv, NEW r \in FReqs, FetchConnect(r)
  PROVE  FetchIInv'
<1> DEFINE q == freq[r]
<1>1. q.conn = Nobody /\ ReqOK(r, q) /\ pool' = pool /\ q.pc = "connect"
  BY NotHolding DEF FetchConnect, FreePcs
<1>t. freq \in [FReqs -> FetchRec] /\ fconn \in [FConns -> ConnRec]
  BY DEF FetchIInv, ReqsInv, ConnsInv
<1>2. ASSUME NEW c \in FConns, fconn[c].state = "none",
             fconn' = [fconn EXCEPT ![c].state = "open"],
             freq' = [freq EXCEPT ![r].pc = "send", ![r].conn = c]
      PROVE  FetchIInv'
  <2> DEFINE p == [q EXCEPT !.pc = "send", !.conn = c]
             k == [fconn[c] EXCEPT !.state = "open"]
  <2>1. freq' = [freq EXCEPT ![r] = p] /\ fconn' = [fconn EXCEPT ![c] = k]
    BY <1>2, <1>t
  <2>2. ConnOK(fconn[c]) /\ Quiet(fconn[c]) /\ fconn[c] \in ConnRec
    BY <1>2 DEF FetchIInv, ConnsInv, ConnOK
  <2>3. k \in ConnRec /\ k.state = "open" /\ k.wire = fconn[c].wire /\ k.asked = fconn[c].asked
        /\ k.pending = fconn[c].pending /\ k.eof = fconn[c].eof /\ k.server = fconn[c].server
    BY <2>2 DEF ConnRec
  <2>4. ReqOK(r, p) /\ p.conn = c /\ p.pc = "send"
    BY <1>1, FetchAssumption DEF ReqOK, FetchRec, HoldingPcs, FreePcs, HeadPcs, BodyPcs
  <2>5. \A s \in FReqs : freq[s].conn # c
    BY <1>2, FetchAssumption DEF FetchIInv, HeldInv, Carries
  <2>6. \A i \in 1..Len(pool) : pool[i] # c
    BY <1>2 DEF FetchIInv, PoolInv
  <2> HIDE DEF p, k
  <2>7. ConnOK(k) /\ Quiet(k) /\ k.pending = Nobody
    BY <2>2, <2>3 DEF ConnOK, Quiet
  <2>8. Carries(r, p, k)
    BY <2>3, <2>4, <2>7 DEF Carries, HeadPcs, BodyPcs
  <2> QED  BY <1>1, <2>1, <2>4, <2>5, <2>6, <2>7, <2>8, FetchStep
<1>3. ASSUME NEW p, p \in {Ends(q, "aborted"), Ends(q, "error")},
             freq' = [freq EXCEPT ![r] = p], fconn' = fconn
      PROVE  FetchIInv'
  <2>1. ReqOK(r, p) /\ p.conn = Nobody
    BY <1>1, <1>3, EndsOK
  <2> QED  BY <1>1, <1>3, <2>1, FetchReqStep
<1>4. CASE /\ freq' = [freq EXCEPT ![r] = IF q.aborted THEN Ends(q, "aborted") ELSE Ends(q, "error")]
           /\ fconn' = fconn
  BY <1>3, <1>4
<1> QED  BY <1>2, <1>4 DEF FetchConnect

LEMMA SendKeeps ==
  ASSUME FetchIInv, NEW r \in FReqs, Send(r)
  PROVE  FetchIInv'
<1> DEFINE q == freq[r]
           c == freq[r].conn
           failed == q.aborted \/ fconn[c].server = "reset"
<1>0. q.pc = "send" /\ q.pc \in HoldingPcs /\ pool' = pool
  BY DEF Send, HoldingPcs
<1>1. /\ c \in FConns /\ (\A s \in FReqs : s # r => freq[s].conn # c)
      /\ (\A i \in 1..Len(pool) : pool[i] # c) /\ ReqOK(r, q)
      /\ ConnOK(fconn[c]) /\ Carries(r, q, fconn[c])
  BY <1>0, Holding
<1>t. freq \in [FReqs -> FetchRec] /\ fconn \in [FConns -> ConnRec]
  BY DEF FetchIInv, ReqsInv, ConnsInv
<1>2. CASE failed
  <2> DEFINE p == IF q.aborted THEN Ends(q, "aborted")
                  ELSE IF q.via = "pool"
                       THEN [q EXCEPT !.pc = "connect", !.via = "resend", !.conn = Nobody]
                  ELSE Ends(q, "error")
  <2>1. freq' = [freq EXCEPT ![r] = p] /\ fconn' = [fconn EXCEPT ![c] = Destroy(fconn[c])]
    BY <1>2 DEF Send
  <2>2. ReqOK(r, p) /\ p.conn = Nobody
    <3>1. q.pc \notin BodyPcs \cup {"done"}
      BY <1>0 DEF BodyPcs
    <3> QED  BY <1>1, <3>1, EndsOK, AgainOK
  <2> HIDE DEF p, q
  <2> QED  BY <1>0, <1>1, <2>1, <2>2, LetGoStep DEF q
<1>3. CASE ~failed
  <2> DEFINE p == [q EXCEPT !.pc = "readHead"]
             k == [fconn[c] EXCEPT !.asked = IF fconn[c].server = "open" THEN r ELSE fconn[c].asked]
  <2>1. freq' = [freq EXCEPT ![r] = p] /\ fconn' = [fconn EXCEPT ![c] = k]
    BY <1>3, <1>t, <1>1 DEF Send
  <2>2. ReqOK(r, p) /\ p.conn = c /\ p.pc = "readHead"
    BY <1>1, <1>0 DEF ReqOK, FetchRec, HoldingPcs, FreePcs, HeadPcs, BodyPcs
  <2>3. Quiet(fconn[c]) /\ fconn[c].state = "open" /\ fconn[c] \in ConnRec
    BY <1>0, <1>1 DEF Carries, ConnOK
  <2>4. /\ k \in ConnRec /\ k.state = "open" /\ k.wire = fconn[c].wire /\ k.pending = fconn[c].pending
        /\ k.eof = fconn[c].eof /\ k.server = fconn[c].server
        /\ k.asked = IF fconn[c].server = "open" THEN r ELSE fconn[c].asked
    BY <2>3 DEF ConnRec
  <2> HIDE DEF p, k
  <2>5. ConnOK(k) /\ k.pending = Nobody /\ OnlyRest(k.wire) /\ k.asked \in {r, Nobody}
    BY <1>1, <2>3, <2>4 DEF ConnOK, Quiet
  <2>6. Carries(r, p, k)
    <3>1. AnswerTo(r, k.wire)
      BY <2>5 DEF AnswerTo, OnlyRest
    <3>2. Underway(r, k)
      BY <2>5, <3>1 DEF Underway
    <3> QED  BY <2>2, <2>4, <3>2 DEF Carries, HeadPcs, BodyPcs
  <2> QED  BY <1>0, <1>1, <2>1, <2>2, <2>5, <2>6, FetchStep
<1> QED  BY <1>2, <1>3

LEMMA ReadKeeps ==
  ASSUME FetchIInv, NEW r \in FReqs, Read(r)
  PROVE  FetchIInv'
<1> DEFINE q == freq[r]
           c == freq[r].conn
<1>0. q.pc \in {"readHead", "readBody"} /\ q.pc \in HoldingPcs /\ ~Waiting(r)
  BY DEF Read, HoldingPcs, HeadPcs, BodyPcs, Waiting
<1>1. /\ c \in FConns /\ (\A s \in FReqs : s # r => freq[s].conn # c)
      /\ (\A i \in 1..Len(pool) : pool[i] # c) /\ ReqOK(r, q)
      /\ ConnOK(fconn[c]) /\ Carries(r, q, fconn[c]) /\ fconn[c].pending = Nobody
  BY <1>0, Holding
<1>t. freq \in [FReqs -> FetchRec] /\ fconn \in [FConns -> ConnRec]
  BY DEF FetchIInv, ReqsInv, ConnsInv
<1>2. CASE fconn[c].eof /\ AtEof(r, fconn[c])
  <2>1. Quiet(fconn[c]) /\ fconn[c].state = "open"
    <3>1. Len(<<>>) = 0
      OBVIOUS
    <3> QED  BY <1>1, <1>2, <3>1 DEF ConnOK, Quiet, Carries, OnlyRest
  <2> QED  BY <1>1, <1>2, <2>1, AtEofStep
<1>3. CASE /\ freq' = [freq EXCEPT ![r] = Ends(q, "aborted")]
           /\ fconn' = [fconn EXCEPT ![c] = Destroy(fconn[c])] /\ pool' = pool
  <2> DEFINE p == Ends(q, "aborted")
  <2>1. ReqOK(r, p) /\ p.conn = Nobody /\ freq' = [freq EXCEPT ![r] = p]
    BY <1>1, <1>3, EndsOK
  <2> HIDE DEF p, q
  <2> QED  BY <1>0, <1>1, <1>3, <2>1, LetGoStep DEF q
<1>4. CASE /\ freq' = [freq EXCEPT ![r].pc = IF q.pc = "readHead" THEN "waitHead" ELSE "waitBody"]
           /\ fconn' = [fconn EXCEPT ![c].reading = TRUE, ![c].pending = r,
                                     ![c].listeners = fconn[c].listeners \union {r}]
           /\ pool' = pool
  <2> DEFINE p == [q EXCEPT !.pc = IF q.pc = "readHead" THEN "waitHead" ELSE "waitBody"]
             k == [fconn[c] EXCEPT !.reading = TRUE, !.pending = r,
                                   !.listeners = fconn[c].listeners \union {r}]
  <2>1. freq' = [freq EXCEPT ![r] = p] /\ fconn' = [fconn EXCEPT ![c] = k]
    BY <1>4, <1>t, <1>1
  <2>2. ReqOK(r, p) /\ p.conn = c /\ p.pc = IF q.pc = "readHead" THEN "waitHead" ELSE "waitBody"
    BY <1>1, <1>0 DEF ReqOK, FetchRec, HoldingPcs, FreePcs, HeadPcs, BodyPcs
  <2>3. fconn[c] \in ConnRec /\ fconn[c].state = "open"
    BY <1>1 DEF ConnOK, Carries
  <2>4. /\ k \in ConnRec /\ k.state = "open" /\ k.wire = fconn[c].wire /\ k.pending = r
        /\ k.eof = fconn[c].eof /\ k.server = fconn[c].server /\ k.asked = fconn[c].asked
    BY <2>3 DEF ConnRec
  <2> HIDE DEF p, k
  <2>5. ConnOK(k)
    BY <1>1, <2>3, <2>4 DEF ConnOK, Quiet
  <2>6. Carries(r, p, k)
    BY <1>0, <1>1, <2>2, <2>4 DEF Carries, HeadPcs, BodyPcs, Underway
  <2>7. p.pc \in {"waitHead", "waitBody"}
    BY <2>2
  <2>8. pool' = pool /\ p.conn \in {Nobody, c} /\ freq[r].conn \in {Nobody, c}
    BY <1>4, <2>2
  <2>9. k.pending # Nobody => k.pending = r /\ p.conn = c /\ p.pc \in {"waitHead", "waitBody"}
    BY <2>2, <2>4, <2>7
  <2> QED  BY <1>1, <2>1, <2>2, <2>5, <2>6, <2>8, <2>9, FetchStep
<1> QED  BY <1>2, <1>3, <1>4 DEF Read

-----------------------------------------------------------------------------
(* A read that is under way and the request it belongs to.  *)
LEMMA PendingHolds ==
  ASSUME FetchIInv, NEW c \in FConns, fconn[c].pending # Nobody
  PROVE  /\ fconn[c].pending \in FReqs /\ freq[fconn[c].pending].conn = c
         /\ Waiting(fconn[c].pending) /\ freq[fconn[c].pending].pc \in HoldingPcs
<1>1. fconn[c].pending \in FReqs
  BY DEF FetchIInv, ConnsInv, ConnRec
<1> QED  BY <1>1 DEF FetchIInv, PendingInv, PendingOK, Waiting, HoldingPcs, HeadPcs, BodyPcs

(* The first element of a sequence and the others.  *)
LEMMA HeadAndTail ==
  ASSUME NEW S, NEW w \in Seq(S), w # <<>>
  PROVE  /\ Len(w) \in Nat /\ Len(w) >= 1 /\ Head(w) = w[1] /\ Head(w) \in S
         /\ Tail(w) \in Seq(S) /\ Len(Tail(w)) = Len(w) - 1
         /\ \A i \in 1..Len(Tail(w)) : Tail(w)[i] = w[i + 1]
OBVIOUS

LEMMA NoElements ==
  ASSUME NEW S, NEW w \in Seq(S), Len(w) = 0
  PROVE  w = <<>>
OBVIOUS

(* What a chunk leaves of a wire that carries the answer to a request.  *)
LEMMA AfterPiece ==
  ASSUME NEW r \in FReqs, NEW w \in Seq(Tokens), w # <<>>, AnswerTo(r, w)
  PROVE  /\ Tail(w) \in Seq(Tokens) /\ Head(w) \in Tokens
         /\ Head(w).part # "rest" => Head(w).req = r
         /\ AnswerTo(r, Tail(w))
         /\ Head(w).part \in {"end", "whole"} => OnlyRest(Tail(w))
         /\ OnlyRest(w) => OnlyRest(Tail(w)) /\ Head(w).part = "rest"
<1>0. /\ Len(w) \in Nat /\ Len(w) >= 1 /\ Head(w) = w[1] /\ Head(w) \in Tokens
      /\ Tail(w) \in Seq(Tokens) /\ Len(Tail(w)) = Len(w) - 1
      /\ \A i \in 1..Len(Tail(w)) : Tail(w)[i] = w[i + 1]
  BY HeadAndTail, ZenonT(30)
<1>1. /\ 1 \in 1..Len(w)
      /\ \A i \in 1..Len(Tail(w)) : i + 1 \in 1..Len(w) /\ 1 < i + 1
      /\ \A i, j \in 1..Len(Tail(w)) : i < j => i + 1 < j + 1
  BY <1>0
<1>2. AnswerTo(r, Tail(w))
  BY <1>0, <1>1 DEF AnswerTo
<1>3. Head(w).part \in {"end", "whole"} => OnlyRest(Tail(w))
  BY <1>0, <1>1 DEF AnswerTo, OnlyRest
<1>4. OnlyRest(w) => OnlyRest(Tail(w)) /\ Head(w).part = "rest"
  BY <1>0, <1>1 DEF OnlyRest
<1>5. Head(w).part # "rest" => Head(w).req = r
  BY <1>0, <1>1 DEF AnswerTo
<1> QED  BY <1>0, <1>2, <1>3, <1>4, <1>5

(* A read that was answered with a piece of a response: the connection as    *)
(* the read leaves it, and the request that goes on.                         *)
Answered(r, q, k) ==
  /\ q \in FetchRec /\ q.conn = freq[r].conn /\ q.pc \in {"waitHead", "waitBody"}
  /\ q.own \/ q.spoilt
  /\ ConnOK(k) /\ k.state = "open" /\ k.pending = Nobody

LEMMA NotYetKeeps ==
  ASSUME FetchIInv, NEW r \in FReqs, freq[r].pc \in HoldingPcs, NEW q, NEW k,
         Answered(r, q, k), Underway(r, k), q.pc = "waitHead" => q.own, NotYet(r, q, k)
  PROVE  FetchIInv'
<1> DEFINE c == freq[r].conn
           pc == IF q.pc = "waitHead" THEN "readHead" ELSE "readBody"
           p == [q EXCEPT !.pc = pc]
<1>1. /\ c \in FConns /\ (\A s \in FReqs : s # r => freq[s].conn # c)
      /\ \A i \in 1..Len(pool) : pool[i] # c
  BY Holding
<1>2. /\ freq' = [freq EXCEPT ![r] = p] /\ fconn' = [fconn EXCEPT ![c] = k] /\ pool' = pool
  BY DEF NotYet, Answered
<1>3. pc \in {"readHead", "readBody"} /\ (pc = "readHead" => q.own)
  BY DEF Answered
<1> HIDE DEF pc
<1>4. p \in FetchRec /\ p.conn = c /\ p.pc = pc /\ p.own = q.own /\ p.spoilt = q.spoilt
  BY <1>3 DEF Answered, FetchRec, HoldingPcs, HeadPcs, BodyPcs
<1> HIDE DEF p
<1>5. ReqOK(r, p) /\ Carries(r, p, k)
  BY <1>1, <1>3, <1>4, FetchAssumption DEF ReqOK, Carries, Answered, HoldingPcs, HeadPcs, BodyPcs
<1>6. ConnOK(k) /\ k.pending = Nobody
  BY DEF Answered
<1> HIDE DEF c
<1> QED  BY <1>1, <1>2, <1>4, <1>5, <1>6, FetchStep DEF c

LEMMA HeadReadKeeps ==
  ASSUME FetchIInv, NEW r \in FReqs, freq[r].pc \in HoldingPcs, NEW q, NEW k,
         Answered(r, q, k), Underway(r, k), HeadRead(r, q, k)
  PROVE  FetchIInv'
<1> DEFINE c == freq[r].conn
           p == [q EXCEPT !.pc = "readBody", !.result = "ok"]
<1>1. /\ c \in FConns /\ (\A s \in FReqs : s # r => freq[s].conn # c)
      /\ \A i \in 1..Len(pool) : pool[i] # c
  BY Holding
<1>2. /\ freq' = [freq EXCEPT ![r] = p] /\ fconn' = [fconn EXCEPT ![c] = k] /\ pool' = pool
  BY DEF HeadRead, Answered
<1>4. p \in FetchRec /\ p.conn = c /\ p.pc = "readBody" /\ p.own = q.own /\ p.spoilt = q.spoilt
  BY DEF Answered, FetchRec, HoldingPcs, HeadPcs, BodyPcs
<1> HIDE DEF p
<1>5. ReqOK(r, p) /\ Carries(r, p, k)
  BY <1>1, <1>4, FetchAssumption DEF ReqOK, Carries, Answered, HoldingPcs, HeadPcs, BodyPcs
<1>6. ConnOK(k) /\ k.pending = Nobody
  BY DEF Answered
<1> HIDE DEF c
<1> QED  BY <1>1, <1>2, <1>4, <1>5, <1>6, FetchStep DEF c

LEMMA BodyReadKeeps ==
  ASSUME FetchIInv, NEW r \in FReqs, freq[r].pc \in HoldingPcs, NEW q, NEW k,
         Answered(r, q, k), Quiet(k), BodyRead(r, q, k)
  PROVE  FetchIInv'
<1> DEFINE c == freq[r].conn
           p == Ends(q, "ok")
<1>1. /\ c \in FConns /\ (\A s \in FReqs : s # r => freq[s].conn # c)
      /\ \A i \in 1..Len(pool) : pool[i] # c
  BY Holding
<1>2. freq' = [freq EXCEPT ![r] = p] /\ q.conn = c /\ ConnOK(k) /\ k.state = "open" /\ k.pending = Nobody
  BY DEF BodyRead, Answered
<1>3. ReqOK(r, p) /\ p.conn = Nobody
  BY EndsWith DEF Answered
<1> HIDE DEF p
<1>4. CASE q.kind = "keep" /\ Len(pool) < MaxPool
  <2>1. pool' = Append(pool, c) /\ fconn' = [fconn EXCEPT ![c] = k] /\ Len(pool) < MaxPool
    BY <1>2, <1>4 DEF BodyRead
  <2>2. p.conn \in {Nobody, c} /\ p.conn # c /\ freq[r].conn \in {Nobody, c}
    BY <1>1, <1>3, FetchAssumption
  <2> HIDE DEF c
  <2> QED  BY <1>1, <1>2, <1>3, <2>1, <2>2, FetchStep
<1>5. CASE ~(q.kind = "keep" /\ Len(pool) < MaxPool)
  <2>1. pool' = pool /\ fconn' = [fconn EXCEPT ![freq[r].conn] = Destroy(k)]
    BY <1>2, <1>5 DEF BodyRead
  <2> QED  BY <1>2, <1>3, <2>1, LetGoStep
<1> QED  BY <1>4, <1>5

LEMMA RedirectedKeeps ==
  ASSUME FetchIInv, NEW r \in FReqs, freq[r].pc \in HoldingPcs, NEW q, NEW k,
         Answered(r, q, k), q.own, Redirected(r, q, k)
  PROVE  FetchIInv'
<1> DEFINE p == [q EXCEPT !.pc = "again", !.hops = q.hops + 1, !.conn = Nobody]
<1>1. /\ fconn' = [fconn EXCEPT ![freq[r].conn] = Destroy(k)] /\ pool' = pool
      /\ q \in FetchRec /\ ConnOK(k)
  BY DEF Redirected, Answered
<1>2. ASSUME NEW how \in {"ok", "error", "aborted"}, freq' = [freq EXCEPT ![r] = Ends(q, how)]
      PROVE  FetchIInv'
  <2> DEFINE e == Ends(q, how)
  <2>1. ReqOK(r, e) /\ e.conn = Nobody /\ freq' = [freq EXCEPT ![r] = e]
    BY <1>1, <1>2, EndsWith
  <2> HIDE DEF e
  <2> QED  BY <1>1, <2>1, LetGoStep
<1>3. CASE q.hops < MaxHops /\ freq' = [freq EXCEPT ![r] = p]
  <2>1. q.hops + 1 \in 0..MaxHops
    <3>1. q.hops \in 0..MaxHops
      BY <1>1 DEF FetchRec
    <3> QED  BY <3>1, <1>3, FetchAssumption
  <2>2. ReqOK(r, p) /\ p.conn = Nobody
    BY <1>1, <2>1 DEF ReqOK, FetchRec, HoldingPcs, FreePcs, HeadPcs, BodyPcs
  <2> HIDE DEF p
  <2> QED  BY <1>1, <1>3, <2>2, LetGoStep
<1> QED  BY <1>2, <1>3 DEF Redirected

LEMMA ChunkKeeps ==
  ASSUME FetchIInv, NEW c \in FConns, Chunk(c)
  PROVE  FetchIInv'
<1> DEFINE k0 == fconn[c]
           t == Head(k0.wire)
           r == k0.pending
           k == [k0 EXCEPT !.wire = Tail(k0.wire), !.reading = FALSE, !.pending = Nobody]
           q == freq[r]
<1>0. k0.wire # <<>> /\ r # Nobody
  BY DEF Chunk
<1>1. r \in FReqs /\ q.conn = c /\ Waiting(r) /\ q.pc \in HoldingPcs
  BY <1>0, PendingHolds
<1>2. ReqOK(r, q) /\ q \in FetchRec /\ ConnOK(k0) /\ Carries(r, q, k0)
  BY <1>1, Holding DEF ReqOK
<1>3. k0 \in ConnRec /\ k0.state = "open" /\ k0.wire \in Seq(Tokens) /\ Underway(r, k0)
  BY <1>1, <1>2 DEF Carries, ConnOK, ConnRec, Waiting, HeadPcs, BodyPcs
<1>4. /\ Tail(k0.wire) \in Seq(Tokens) /\ t \in Tokens
      /\ t.part # "rest" => t.req = r
      /\ AnswerTo(r, Tail(k0.wire))
      /\ t.part \in {"end", "whole"} => OnlyRest(Tail(k0.wire))
      /\ OnlyRest(k0.wire) => OnlyRest(Tail(k0.wire)) /\ t.part = "rest"
  BY <1>0, <1>1, <1>3, AfterPiece DEF Underway
<1>5. /\ k \in ConnRec /\ k.state = "open" /\ k.wire = Tail(k0.wire) /\ k.pending = Nobody
      /\ k.asked = k0.asked /\ k.server = k0.server /\ k.eof = k0.eof
  BY <1>3, <1>4 DEF ConnRec
<1>x. IF q.pc = "waitHead" THEN HeadPiece(r, q, t, k) ELSE BodyPiece(r, q, t, k)
  BY DEF Chunk
<1> HIDE DEF k
<1>6. ConnOK(k) /\ Underway(r, k)
  BY <1>0, <1>2, <1>3, <1>4, <1>5 DEF ConnOK, Underway
<1>7. t.part \in {"end", "whole"} => Quiet(k)
  BY <1>3, <1>4, <1>5 DEF Quiet, Underway
<1>8. Answered(r, q, k) /\ (q.pc = "waitHead" => q.own)
  BY <1>1, <1>2, <1>5, <1>6 DEF Answered, ReqOK, Waiting, BodyPcs
<1>h. (t.part # "rest" /\ t.req = r) \/ t.part = "rest"
  BY <1>4
<1> HIDE DEF t, r, q
<1>9. CASE q.pc = "waitHead" /\ HeadPiece(r, q, t, k)
  <2> DEFINE h == [q EXCEPT !.own = q.own /\ t.req = r, !.kind = t.kind]
             s == [q EXCEPT !.spoilt = TRUE]
             u == [q EXCEPT !.spoilt = TRUE, !.own = q.own /\ t.req = r, !.kind = "open"]
  <2>1. q \in FetchRec /\ q.own /\ t.kind \in Kinds /\ q.conn = freq[r].conn
    BY <1>2, <1>4, <1>8, <1>9 DEF Tokens, Answered
  <2>2. t.part # "rest" => h \in FetchRec /\ h.own = TRUE /\ h.conn = q.conn /\ h.pc = q.pc
    BY <1>h, <2>1 DEF FetchRec
  <2>3. s \in FetchRec /\ s.own = q.own /\ s.conn = q.conn /\ s.pc = q.pc
    BY <2>1 DEF FetchRec
  <2>4. u \in FetchRec /\ u.spoilt = TRUE /\ u.conn = q.conn /\ u.pc = q.pc
    BY <2>1 DEF FetchRec, Kinds
  <2>x. \/ t.part = "begin" /\ NotYet(r, q, k)
        \/ t.part \in {"head", "whole"} /\ Redirected(r, h, k)
        \/ t.part = "head" /\ HeadRead(r, h, k)
        \/ t.part = "whole" /\ BodyRead(r, h, k)
        \/ t.part = "rest" /\ NotYet(r, s, k)
        \/ t.part = "rest" /\ HeadRead(r, u, k)
    BY <1>9 DEF HeadPiece
  <2> HIDE DEF h, s, u
  <2>5. t.part # "rest" => Answered(r, h, k)
    BY <1>8, <2>1, <2>2 DEF Answered
  <2>6. Answered(r, s, k) /\ s.own
    BY <1>8, <2>1, <2>3 DEF Answered
  <2>7. Answered(r, u, k)
    BY <1>8, <2>1, <2>4 DEF Answered
  <2>8. freq[r].pc \in HoldingPcs
    BY <1>1 DEF q
  <2>9. CASE t.part = "begin" /\ NotYet(r, q, k)
    BY <1>1, <1>6, <1>8, <2>1, <2>8, <2>9, NotYetKeeps
  <2>10. CASE t.part \in {"head", "whole"} /\ Redirected(r, h, k)
    BY <1>1, <2>2, <2>5, <2>8, <2>10, RedirectedKeeps
  <2>11. CASE t.part = "head" /\ HeadRead(r, h, k)
    BY <1>1, <1>6, <2>5, <2>8, <2>11, HeadReadKeeps
  <2>12. CASE t.part = "whole" /\ BodyRead(r, h, k)
    BY <1>1, <1>7, <2>5, <2>8, <2>12, BodyReadKeeps
  <2>13. CASE t.part = "rest" /\ NotYet(r, s, k)
    BY <1>1, <1>6, <2>6, <2>8, <2>13, NotYetKeeps
  <2>14. CASE t.part = "rest" /\ HeadRead(r, u, k)
    BY <1>1, <1>6, <2>7, <2>8, <2>14, HeadReadKeeps
  <2> QED  BY <2>x, <2>9, <2>10, <2>11, <2>12, <2>13, <2>14
<1>10. CASE q.pc # "waitHead" /\ BodyPiece(r, q, t, k)
  <2>8. freq[r].pc \in HoldingPcs
    BY <1>1 DEF q
  <2>1. CASE t.part = "end" /\ BodyRead(r, q, k)
    BY <1>1, <1>7, <1>8, <2>8, <2>1, BodyReadKeeps
  <2>2. CASE NotYet(r, q, k)
    BY <1>1, <1>6, <1>8, <2>8, <2>2, NotYetKeeps
  <2> QED  BY <1>10, <2>1, <2>2 DEF BodyPiece
<1> QED  BY <1>9, <1>10, <1>x

LEMMA EofKeeps ==
  ASSUME FetchIInv, NEW c \in FConns, Eof(c)
  PROVE  FetchIInv'
<1> DEFINE k0 == fconn[c]
           r == k0.pending
           k == [k0 EXCEPT !.eof = TRUE, !.reading = FALSE, !.pending = Nobody]
<1>0. k0.wire = <<>> /\ k0.server = "closed" /\ r # Nobody /\ AtEof(r, k)
  BY DEF Eof
<1>1. r \in FReqs /\ freq[r].conn = c /\ freq[r].pc \in HoldingPcs
  BY <1>0, PendingHolds
<1>2. ConnOK(k0) /\ Carries(r, freq[r], k0)
  BY <1>1, Holding
<1>3. k0 \in ConnRec /\ k0.state = "open" /\ k0.asked = Nobody
  BY <1>0, <1>2 DEF Carries, ConnOK
<1>5. /\ k \in ConnRec /\ k.state = "open" /\ k.wire = k0.wire /\ k.pending = Nobody
      /\ k.asked = k0.asked /\ k.server = k0.server /\ k.eof
  BY <1>3 DEF ConnRec
<1> HIDE DEF k
<1>n. Len(<<>>) = 0
  OBVIOUS
<1>6. ConnOK(k) /\ Quiet(k)
  BY <1>0, <1>3, <1>5, <1>n DEF ConnOK, Quiet, OnlyRest
<1> HIDE DEF r
<1> QED  BY <1>0, <1>1, <1>5, <1>6, AtEofStep

LEMMA EofUntoldKeeps ==
  ASSUME FetchIInv, NEW c \in FConns, EofUntold(c)
  PROVE  FetchIInv'
<1> DEFINE k0 == fconn[c]
           k == [k0 EXCEPT !.server = "cut"]
<1>1. /\ k0.server = "closed" /\ freq' = freq /\ pool' = pool
      /\ fconn' = [fconn EXCEPT ![c].server = "cut"]
  BY DEF EofUntold
<1>2. fconn \in [FConns -> ConnRec] /\ ConnOK(k0) /\ k0 \in ConnRec
  BY DEF FetchIInv, ConnsInv
<1>3. fconn' = [fconn EXCEPT ![c] = k]
  BY <1>1, <1>2
<1>4. /\ k \in ConnRec /\ k.state = k0.state /\ k.wire = k0.wire /\ k.asked = k0.asked
      /\ k.pending = k0.pending /\ k.server = "cut" /\ k.eof = k0.eof
  BY <1>2 DEF ConnRec
<1> HIDE DEF k
<1>5. ConnOK(k)
  BY <1>1, <1>2, <1>4 DEF ConnOK, Quiet
<1>6. Quiet(k0) => Quiet(k)
  BY <1>4 DEF Quiet
<1>7. ASSUME NEW r \in FReqs, freq[r].conn = c
      PROVE  Carries(r, freq[r], k)
  <2>1. Carries(r, freq[r], k0)
    BY <1>7, FetchAssumption DEF FetchIInv, HeldInv
  <2> QED  BY <2>1, <1>4, <1>6 DEF Carries, Underway
<1> QED  BY <1>1, <1>3, <1>4, <1>5, <1>6, <1>7, FetchConnStep

LEMMA ReadErrorKeeps ==
  ASSUME FetchIInv, NEW c \in FConns, ReadError(c)
  PROVE  FetchIInv'
<1> DEFINE r == fconn[c].pending
           p == Ends(freq[r], "error")
<1>0. /\ r # Nobody /\ freq' = [freq EXCEPT ![r] = p] /\ pool' = pool
      /\ fconn' = [fconn EXCEPT ![c] = Destroy(fconn[c])]
  BY DEF ReadError
<1>1. r \in FReqs /\ freq[r].conn = c /\ freq[r].pc \in HoldingPcs
  BY <1>0, PendingHolds
<1>2. ConnOK(fconn[c]) /\ ReqOK(r, freq[r])
  BY <1>1, Holding
<1>3. ReqOK(r, p) /\ p.conn = Nobody
  BY <1>1, <1>2, EndsOK
<1> HIDE DEF p, r
<1> QED  BY <1>0, <1>1, <1>2, <1>3, LetGoStep

-----------------------------------------------------------------------------
(* The signal of a request aborts: what it does to one connection.           *)
LEMMA AbortedConn ==
  ASSUME NEW k, ConnOK(k), NEW r
  PROVE  LET j == [k EXCEPT !.reading = FALSE, !.pending = Nobody, !.listeners = k.listeners \ {r}]
         IN  /\ ConnOK(j) /\ j.state = k.state /\ j.wire = k.wire /\ j.asked = k.asked
             /\ j.pending = Nobody
<1> DEFINE j == [k EXCEPT !.reading = FALSE, !.pending = Nobody, !.listeners = k.listeners \ {r}]
<1>1. k \in ConnRec
  BY DEF ConnOK
<1>2. /\ j \in ConnRec /\ j.state = k.state /\ j.wire = k.wire /\ j.asked = k.asked
      /\ j.pending = Nobody /\ j.server = k.server /\ j.eof = k.eof
  BY <1>1 DEF ConnRec
<1> HIDE DEF j
<1>3. ConnOK(j)
  BY <1>2 DEF ConnOK, Quiet
<1> QED  BY <1>2, <1>3 DEF j

LEMMA FetchAbortKeeps ==
  ASSUME FetchIInv, NEW r \in FReqs, FetchAbort(r)
  PROVE  FetchIInv'
<1> DEFINE own(d) == Waiting(r) /\ freq[r].conn = d
           hit(d) == r \in fconn[d].listeners
           q == IF Waiting(r) THEN Ends(freq[r], "aborted") ELSE freq[r]
           p == [q EXCEPT !.aborted = TRUE]
           j(d) == [fconn[d] EXCEPT !.reading = FALSE, !.pending = Nobody,
                                    !.listeners = fconn[d].listeners \ {r}]
<1>a. freq \in [FReqs -> FetchRec] /\ fconn \in [FConns -> ConnRec]
  BY DEF FetchIInv, ReqsInv, ConnsInv
<1>b. /\ freq' = [freq EXCEPT ![r] = p] /\ pool' = pool
      /\ fconn' = [d \in FConns |-> IF own(d) THEN Destroy(fconn[d])
                                    ELSE IF hit(d) THEN j(d) ELSE fconn[d]]
  BY DEF FetchAbort
<1>c. ReqOK(r, freq[r])
  BY DEF FetchIInv, ReqsInv
<1>d. /\ ReqOK(r, q) /\ (Waiting(r) => q.conn = Nobody) /\ (~Waiting(r) => q = freq[r])
  BY <1>c, EndsOK
<1>e. /\ ReqOK(r, p) /\ p \in FetchRec /\ (Waiting(r) => p.conn = Nobody)
      /\ (~Waiting(r) => p.conn = freq[r].conn /\ p.pc = freq[r].pc)
  <2> HIDE DEF q
  <2> QED  BY <1>d DEF ReqOK, FetchRec
<1>f. \A s \in FReqs : freq'[s] = IF s = r THEN p ELSE freq[s]
  BY <1>a, <1>b
<1>g. \A d \in FConns :
        /\ ConnOK(fconn'[d])
        /\ ~own(d) => /\ fconn'[d].state = fconn[d].state /\ fconn'[d].wire = fconn[d].wire
                      /\ fconn'[d].asked = fconn[d].asked
        /\ fconn'[d].pending # Nobody => ~own(d) /\ fconn'[d].pending = fconn[d].pending
  <2> TAKE d \in FConns
  <2>0. ConnOK(fconn[d])
    BY DEF FetchIInv, ConnsInv
  <2>1. CASE own(d)
    <3>1. fconn'[d] = Destroy(fconn[d])
      BY <1>b, <2>1
    <3> QED  BY <2>0, <2>1, <3>1, DestroyOK
  <2>2. CASE ~own(d) /\ hit(d)
    <3>1. fconn'[d] = j(d)
      BY <1>b, <2>2
    <3>2. /\ ConnOK(j(d)) /\ j(d).state = fconn[d].state /\ j(d).wire = fconn[d].wire
          /\ j(d).asked = fconn[d].asked /\ j(d).pending = Nobody
      BY <2>0, AbortedConn
    <3> HIDE DEF own, hit, j
    <3> QED  BY <2>2, <3>1, <3>2
  <2>3. CASE ~own(d) /\ ~hit(d)
    <3>1. fconn'[d] = fconn[d]
      BY <1>b, <2>3
    <3> QED  BY <2>0, <2>3, <3>1
  <2> QED  BY <2>1, <2>2, <2>3
<1> HIDE DEF p, q
<1>1. ReqsInv'
  <2>1. \A s \in FReqs : ReqOK(s, freq'[s])
    BY <1>e, <1>f DEF FetchIInv, ReqsInv
  <2>2. freq' \in [FReqs -> FetchRec]
    BY <1>a, <1>b, <1>e
  <2> QED  BY <2>1, <2>2 DEF ReqsInv
<1>2. ConnsInv'
  <2>1. \A d \in FConns : fconn'[d] \in ConnRec
    BY <1>g DEF ConnOK
  <2>2. fconn' = [d \in FConns |-> fconn'[d]]
    BY <1>b
  <2>3. fconn' \in [FConns -> ConnRec]
    BY <2>1, <2>2
  <2> QED  BY <2>3, <1>g DEF ConnsInv
<1>3. HeldInv'
  <2> SUFFICES ASSUME NEW s \in FReqs, freq'[s].conn # Nobody
               PROVE  Carries(s, freq'[s], fconn'[freq'[s].conn])
    BY DEF HeldInv
  <2> DEFINE d == freq[s].conn
  <2>1. freq'[s].conn = d /\ freq'[s].pc = freq[s].pc /\ ~own(d) /\ d # Nobody
    <3>1. CASE s = r
      BY <3>1, <1>e, <1>f
    <3>2. CASE s # r
      BY <3>2, <1>f DEF FetchIInv, AloneInv
    <3> QED  BY <3>1, <3>2
  <2>2. d \in FConns
    BY <2>1, <1>a DEF FetchRec
  <2>3. Carries(s, freq[s], fconn[d])
    BY <2>1 DEF FetchIInv, HeldInv
  <2>4. /\ fconn'[d].state = fconn[d].state /\ fconn'[d].wire = fconn[d].wire
        /\ fconn'[d].asked = fconn[d].asked
        /\ fconn[d].pending = Nobody => fconn'[d].pending = Nobody
    BY <1>g, <2>1, <2>2
  <2> HIDE DEF d
  <2> QED  BY <2>1, <2>3, <2>4 DEF Carries, Quiet, Underway
<1>4. PendingInv'
  <2> SUFFICES ASSUME NEW d \in FConns, fconn'[d].pending # Nobody
               PROVE  /\ freq'[fconn'[d].pending].conn = d
                      /\ freq'[fconn'[d].pending].pc \in {"waitHead", "waitBody"}
    BY DEF PendingInv, PendingOK, Waiting
  <2>1. ~own(d) /\ fconn'[d].pending = fconn[d].pending /\ fconn[d].pending # Nobody
    BY <1>g
  <2>2. fconn[d].pending \in FReqs /\ freq[fconn[d].pending].conn = d /\ Waiting(fconn[d].pending)
    BY <2>1, PendingHolds
  <2>3. fconn[d].pending # r
    BY <2>1, <2>2
  <2> QED  BY <1>f, <2>1, <2>2, <2>3 DEF Waiting
<1>5. AloneInv'
  <2> SUFFICES ASSUME NEW s \in FReqs, NEW t \in FReqs, s # t, freq'[s].conn # Nobody
               PROVE  freq'[s].conn # freq'[t].conn
    BY DEF AloneInv
  <2>1. \A u \in FReqs : freq'[u].conn \in {Nobody, freq[u].conn}
    BY <1>e, <1>f
  <2> QED  BY <2>1 DEF FetchIInv, AloneInv
<1>6. PoolInv'
  <2>0. pool \in Seq(FConns) /\ Len(pool) =< MaxPool
    BY DEF FetchIInv, PoolInv
  <2>1. ASSUME NEW i \in 1..Len(pool)
        PROVE  /\ fconn'[pool[i]].state = "open" /\ Quiet(fconn'[pool[i]])
               /\ \A s \in FReqs : freq'[s].conn # pool[i]
               /\ \A m \in 1..Len(pool) : pool[i] = pool[m] => i = m
    <3>1. /\ pool[i] \in FConns /\ fconn[pool[i]].state = "open" /\ Quiet(fconn[pool[i]])
          /\ \A s \in FReqs : freq[s].conn # pool[i]
          /\ \A m \in 1..Len(pool) : pool[i] = pool[m] => i = m
      BY <2>0 DEF FetchIInv, PoolInv
    <3>2. ~own(pool[i])
      BY <3>1
    <3>3. fconn'[pool[i]].state = "open" /\ Quiet(fconn'[pool[i]])
      BY <3>1, <3>2, <1>g DEF Quiet
    <3>4. \A s \in FReqs : freq'[s].conn # pool[i]
      BY <3>1, <1>e, <1>f, FetchAssumption
    <3> QED  BY <3>1, <3>3, <3>4
  <2> QED  BY <1>b, <2>0, <2>1 DEF PoolInv
<1> QED  BY <1>1, <1>2, <1>3, <1>4, <1>5, <1>6 DEF FetchIInv

(* Two sequences, one after the other.  *)
LEMMA Joined ==
  ASSUME NEW S, NEW a \in Seq(S), NEW b \in Seq(S)
  PROVE  /\ a \o b \in Seq(S) /\ Len(a \o b) = Len(a) + Len(b)
         /\ \A m \in 1..(Len(a) + Len(b)) :
              (a \o b)[m] = IF m =< Len(a) THEN a[m] ELSE b[m - Len(a)]
OBVIOUS

(* A sequence without one of its elements.  *)
LEMMA RemovedAt ==
  ASSUME NEW S, NEW w \in Seq(S), NEW i \in 1..Len(w)
  PROVE  /\ RemoveAt(w, i) \in Seq(S) /\ Len(RemoveAt(w, i)) = Len(w) - 1
         /\ \A m \in 1..(Len(w) - 1) : RemoveAt(w, i)[m] = IF m < i THEN w[m] ELSE w[m + 1]
<1> DEFINE a == SubSeq(w, 1, i - 1)
           b == SubSeq(w, i + 1, Len(w))
<1>1. a \in Seq(S) /\ Len(a) = i - 1 /\ \A m \in 1..(i - 1) : a[m] = w[m]
  OBVIOUS
<1>2. b \in Seq(S) /\ Len(b) = Len(w) - i /\ \A m \in 1..(Len(w) - i) : b[m] = w[m + i]
  OBVIOUS
<1>3. RemoveAt(w, i) = a \o b
  BY DEF RemoveAt
<1> HIDE DEF a, b
<1>c. Len(w) \in Nat /\ i \in 1..Len(w)
  OBVIOUS
<1>d. /\ a \o b \in Seq(S) /\ Len(a \o b) = Len(a) + Len(b)
      /\ \A m \in 1..(Len(a) + Len(b)) :
           (a \o b)[m] = IF m =< Len(a) THEN a[m] ELSE b[m - Len(a)]
  BY <1>1, <1>2, Joined, ZenonT(30)
<1>e. Len(a) + Len(b) = Len(w) - 1 /\ Len(a) = i - 1
  BY <1>c, <1>1, <1>2
<1>4. /\ a \o b \in Seq(S) /\ Len(a \o b) = Len(w) - 1
      /\ \A m \in 1..(Len(w) - 1) : (a \o b)[m] = IF m < i THEN a[m] ELSE b[m - (i - 1)]
  <2>1. \A m \in 1..(Len(w) - 1) : m =< i - 1 <=> m < i
    BY <1>c
  <2> QED  BY <1>d, <1>e, <2>1
<1>5. \A m \in 1..(Len(w) - 1) : (a \o b)[m] = IF m < i THEN w[m] ELSE w[m + 1]
  <2> TAKE m \in 1..(Len(w) - 1)
  <2>1. CASE m < i
    BY <2>1, <1>1, <1>4
  <2>2. CASE ~(m < i)
    <3>1. m - (i - 1) \in 1..(Len(w) - i) /\ (m - (i - 1)) + i = m + 1
      BY <2>2
    <3> QED  BY <2>2, <3>1, <1>2, <1>4
  <2> QED  BY <2>1, <2>2
<1> QED  BY <1>3, <1>4, <1>5

LEMMA IdleTimeoutKeeps ==
  ASSUME FetchIInv, NEW c \in FConns, IdleTimeout(c)
  PROVE  FetchIInv'
<1> DEFINE k == Destroy(fconn[c])
<1>0. /\ freq' = freq /\ fconn' = [fconn EXCEPT ![c] = k]
      /\ \E i \in 1..Len(pool) : pool[i] = c /\ pool' = RemoveAt(pool, i)
  BY DEF IdleTimeout
<1>1. PICK i \in 1..Len(pool) : pool[i] = c /\ pool' = RemoveAt(pool, i)
  BY <1>0
<1>a. /\ freq \in [FReqs -> FetchRec] /\ fconn \in [FConns -> ConnRec] /\ ConnOK(fconn[c])
      /\ pool \in Seq(FConns) /\ Len(pool) \in Nat /\ Len(pool) =< MaxPool
  BY DEF FetchIInv, ReqsInv, ConnsInv, PoolInv
<1>b. /\ (\A s \in FReqs : freq[s].conn # c) /\ fconn[c].pending = Nobody
      /\ \A m \in 1..Len(pool) : pool[m] = c => m = i
  BY <1>1 DEF FetchIInv, PoolInv, Quiet
<1>c. ConnOK(k) /\ k.pending = Nobody /\ k \in ConnRec
  BY <1>a, DestroyOK DEF ConnOK
<1> HIDE DEF k
<1>d. \A d \in FConns : fconn'[d] = IF d = c THEN k ELSE fconn[d]
  BY <1>0, <1>a
<1>2. ReqsInv' /\ AloneInv'
  BY <1>0 DEF FetchIInv, ReqsInv, AloneInv
<1>3. ConnsInv'
  <2>1. \A d \in FConns : ConnOK(fconn'[d])
    BY <1>c, <1>d DEF FetchIInv, ConnsInv
  <2>2. fconn' \in [FConns -> ConnRec]
    BY <1>0, <1>a, <1>c
  <2> QED  BY <2>1, <2>2 DEF ConnsInv
<1>4. HeldInv'
  <2> SUFFICES ASSUME NEW s \in FReqs, freq[s].conn # Nobody
               PROVE  Carries(s, freq[s], fconn'[freq[s].conn])
    BY <1>0 DEF HeldInv
  <2>1. freq[s].conn \in FConns /\ freq[s].conn # c
    BY <1>a, <1>b DEF FetchRec
  <2> QED  BY <2>1, <1>d DEF FetchIInv, HeldInv
<1>5. PendingInv'
  BY <1>0, <1>c, <1>d DEF FetchIInv, PendingInv, PendingOK, Waiting
<1>6. PoolInv'
  <2>1. /\ pool' \in Seq(FConns) /\ Len(pool') = Len(pool) - 1
        /\ \A m \in 1..(Len(pool) - 1) : pool'[m] = IF m < i THEN pool[m] ELSE pool[m + 1]
    BY <1>1, <1>a, RemovedAt
  <2>2. ASSUME NEW m \in 1..Len(pool')
        PROVE  /\ fconn'[pool'[m]].state = "open" /\ Quiet(fconn'[pool'[m]])
               /\ \A s \in FReqs : freq[s].conn # pool'[m]
               /\ \A n \in 1..Len(pool') : pool'[m] = pool'[n] => m = n
    <3> DEFINE at(x) == IF x < i THEN x ELSE x + 1
    <3>1. \A x \in 1..Len(pool') : at(x) \in 1..Len(pool) /\ at(x) # i /\ pool'[x] = pool[at(x)]
      BY <2>1, <1>a
    <3>2. \A x, y \in 1..Len(pool') : at(x) = at(y) => x = y
      BY <2>1, <1>a
    <3>3. \A x \in 1..Len(pool) :
            /\ pool[x] \in FConns /\ fconn[pool[x]].state = "open" /\ Quiet(fconn[pool[x]])
            /\ \A s \in FReqs : freq[s].conn # pool[x]
            /\ \A y \in 1..Len(pool) : pool[x] = pool[y] => x = y
      BY <1>a DEF FetchIInv, PoolInv
    <3> HIDE DEF at
    <3>4. pool'[m] # c /\ pool'[m] \in FConns
      BY <3>1, <3>3, <1>b
    <3>5. fconn'[pool'[m]].state = "open" /\ Quiet(fconn'[pool'[m]])
      BY <3>1, <3>3, <3>4, <1>d
    <3>6. \A s \in FReqs : freq[s].conn # pool'[m]
      BY <3>1, <3>3
    <3>7. \A n \in 1..Len(pool') : pool'[m] = pool'[n] => m = n
      <4> SUFFICES ASSUME NEW n \in 1..Len(pool'), pool'[m] = pool'[n]
                   PROVE  m = n
        OBVIOUS
      <4>1. at(m) = at(n)
        BY <3>1, <3>3
      <4> QED  BY <4>1, <3>2
    <3> QED  BY <3>5, <3>6, <3>7
  <2>3. Len(pool') =< MaxPool
    BY <2>1, <1>a, FetchAssumption
  <2> QED  BY <1>0, <2>1, <2>2, <2>3 DEF PoolInv
<1> QED  BY <1>2, <1>3, <1>4, <1>5, <1>6 DEF FetchIInv

(* The pieces of an answer, and an answer behind what others have left.  *)
LEMMA PiecesOK ==
  ASSUME NEW r \in FReqs, NEW redirect \in BOOLEAN, NEW kind \in Kinds, NEW shape \in Shapes(kind)
  PROVE  Pieces(r, shape, redirect, kind) \in Seq(Tokens) /\ AnswerTo(r, Pieces(r, shape, redirect, kind))
<1> DEFINE w == Pieces(r, shape, redirect, kind)
           Parts == {"begin", "head", "whole", "more", "end", "rest"}
<1>0. \/ shape = <<"head", "more">> \/ shape = <<"whole">> \/ shape = <<"head", "end">>
      \/ shape = <<"begin", "head", "end", "rest">>
  BY DEF Shapes, Kinds
<1>1. /\ shape \in Seq(Parts)
      /\ \A i, j \in 1..Len(shape) : i < j /\ shape[i] \in {"end", "whole"} => shape[j] = "rest"
  <2>1. CASE shape = <<"head", "more">>
    <3>1. /\ shape \in Seq(Parts) /\ Len(shape) = 2 /\ 1..2 = {1, 2}
          /\ shape[1] = "head" /\ shape[2] = "more"
      BY <2>1
    <3> QED  BY <3>1
  <2>2. CASE shape = <<"whole">>
    <3>1. /\ shape \in Seq(Parts) /\ Len(shape) = 1 /\ 1..1 = {1} /\ shape[1] = "whole"
      BY <2>2
    <3> QED  BY <3>1
  <2>3. CASE shape = <<"head", "end">>
    <3>1. /\ shape \in Seq(Parts) /\ Len(shape) = 2 /\ 1..2 = {1, 2}
          /\ shape[1] = "head" /\ shape[2] = "end"
      BY <2>3
    <3> QED  BY <3>1
  <2>4. CASE shape = <<"begin", "head", "end", "rest">>
    <3>1. /\ shape \in Seq(Parts) /\ Len(shape) = 4 /\ 1..4 = {1, 2, 3, 4}
          /\ shape[1] = "begin" /\ shape[2] = "head" /\ shape[3] = "end" /\ shape[4] = "rest"
      BY <2>4
    <3> QED  BY <3>1
  <2> QED  BY <1>0, <2>1, <2>2, <2>3, <2>4
<1>2. Len(shape) \in Nat /\ \A i \in 1..Len(shape) : shape[i] \in Parts
  BY <1>1
<1>3. \A i \in 1..Len(shape) :
        [req |-> r, part |-> shape[i], redirect |-> redirect, kind |-> kind] \in Tokens
  BY <1>2 DEF Tokens
<1>4. w \in Seq(Tokens) /\ Len(w) = Len(shape)
  BY <1>2, <1>3 DEF Pieces
<1>5. \A i \in 1..Len(w) : w[i].req = r /\ w[i].part = shape[i]
  BY <1>4 DEF Pieces
<1> HIDE DEF w
<1>6. AnswerTo(r, w)
  BY <1>1, <1>4, <1>5 DEF AnswerTo
<1> QED  BY <1>4, <1>6 DEF w

LEMMA BehindRest ==
  ASSUME NEW r \in FReqs, NEW w \in Seq(Tokens), NEW v \in Seq(Tokens), OnlyRest(w), AnswerTo(r, v)
  PROVE  w \o v \in Seq(Tokens) /\ AnswerTo(r, w \o v)
<1> DEFINE x == w \o v
           m == Len(w)
           n == Len(v)
<1>1. /\ x \in Seq(Tokens) /\ Len(x) = m + n
      /\ \A i \in 1..(m + n) : x[i] = IF i =< m THEN w[i] ELSE v[i - m]
  BY Joined, ZenonT(30)
<1>2. m \in Nat /\ n \in Nat
  OBVIOUS
<1>3. (\A i \in 1..m : w[i].part = "rest")
  BY DEF OnlyRest
<1>4. /\ \A i \in 1..n : v[i].part # "rest" => v[i].req = r
      /\ \A i, j \in 1..n : i < j /\ v[i].part \in {"end", "whole"} => v[j].part = "rest"
  BY DEF AnswerTo
<1> HIDE DEF x, m, n
<1>5. ASSUME NEW i \in 1..(m + n)
      PROVE  /\ x[i].part # "rest" => x[i].req = r
             /\ \A j \in 1..(m + n) : i < j /\ x[i].part \in {"end", "whole"} => x[j].part = "rest"
  <2>1. CASE i =< m
    <3>1. i \in 1..m /\ x[i] = w[i]
      BY <1>1, <1>2, <2>1
    <3> QED  BY <3>1, <1>3
  <2>2. CASE ~(i =< m)
    <3>1. i - m \in 1..n /\ x[i] = v[i - m]
      BY <1>1, <1>2, <2>2
    <3>2. ASSUME NEW j \in 1..(m + n), i < j
          PROVE  j - m \in 1..n /\ x[j] = v[j - m] /\ i - m < j - m
      BY <1>1, <1>2, <2>2, <3>2
    <3> QED  BY <3>1, <3>2, <1>4
  <2> QED  BY <2>1, <2>2
<1>6. AnswerTo(r, x)
  BY <1>1, <1>5 DEF AnswerTo
<1> QED  BY <1>1, <1>6 DEF x

(* The server.  *)
LEMMA ServerAnswersKeeps ==
  ASSUME FetchIInv, NEW c \in FConns, ServerAnswers(c)
  PROVE  FetchIInv'
<1> DEFINE k0 == fconn[c]
           a == k0.asked
<1>1. /\ k0.state = "open" /\ k0.server = "open" /\ a # Nobody /\ freq' = freq /\ pool' = pool
  BY DEF ServerAnswers
<1>2. PICK redirect \in BOOLEAN, kind \in Kinds : \E shape \in Shapes(kind) :
        fconn' = [fconn EXCEPT ![c].asked = Nobody,
                               ![c].server = IF kind = "open" THEN "closed" ELSE "open",
                               ![c].wire = k0.wire \o Pieces(a, shape, redirect, kind)]
  BY DEF ServerAnswers, Kinds
<1>p. PICK shape \in Shapes(kind) :
        fconn' = [fconn EXCEPT ![c].asked = Nobody,
                               ![c].server = IF kind = "open" THEN "closed" ELSE "open",
                               ![c].wire = k0.wire \o Pieces(a, shape, redirect, kind)]
  BY <1>2
<1> DEFINE new == Pieces(a, shape, redirect, kind)
           sv == IF kind = "open" THEN "closed" ELSE "open"
           wr == k0.wire \o new
           k == [k0 EXCEPT !.asked = Nobody, !.server = sv, !.wire = wr]
<1>3. fconn \in [FConns -> ConnRec] /\ ConnOK(k0) /\ k0 \in ConnRec /\ a \in FReqs
  BY <1>1 DEF FetchIInv, ConnsInv, ConnRec
<1>s. sv \in {"open", "closed"}
  OBVIOUS
<1>4. fconn' = [fconn EXCEPT ![c] = k]
  BY <1>p, <1>3
<1>5. new \in Seq(Tokens) /\ AnswerTo(a, new)
  BY <1>3, PiecesOK
<1> HIDE DEF new, sv
<1>6. k0.wire \in Seq(Tokens) /\ k0.asked \in FReqs
  BY <1>3 DEF ConnRec
<1>7. wr \in Seq(Tokens)
  BY <1>5, <1>6
<1> HIDE DEF wr
<1>8. /\ k \in ConnRec /\ k.state = "open" /\ k.wire = wr /\ k.asked = Nobody
      /\ k.pending = k0.pending /\ k.server = sv /\ k.eof = k0.eof
  BY <1>1, <1>3, <1>7, <1>s DEF ConnRec
<1> HIDE DEF k
<1>e. ~k0.eof /\ k0.eof \in BOOLEAN
  BY <1>1, <1>3 DEF ConnOK, ConnRec
<1>9. ConnOK(k)
  BY <1>8, <1>e DEF ConnOK
<1>10. ~Quiet(k0)
  BY <1>1 DEF Quiet
<1>11. ASSUME NEW r \in FReqs, freq[r].conn = c
       PROVE  Carries(r, freq[r], k)
  <2>1. Carries(r, freq[r], k0) /\ freq[r].pc \in HoldingPcs
    BY <1>11, FetchAssumption DEF FetchIInv, HeldInv, ReqsInv, ReqOK
  <2>2. freq[r].pc # "send" /\ Underway(r, k0)
    BY <1>10, <2>1 DEF Carries, HoldingPcs
  <2>3. a = r /\ OnlyRest(k0.wire)
    BY <1>1, <2>2 DEF Underway
  <2>4. AnswerTo(r, wr)
    BY <1>5, <1>6, <2>3, BehindRest DEF wr
  <2>5. Underway(r, k)
    BY <1>8, <2>4 DEF Underway
  <2> QED  BY <2>2, <2>5, <1>8 DEF Carries
<1> QED  BY <1>1, <1>4, <1>8, <1>9, <1>10, <1>11, FetchConnStep

LEMMA ServerClosesKeeps ==
  ASSUME FetchIInv, NEW c \in FConns, ServerCloses(c)
  PROVE  FetchIInv'
<1> DEFINE k0 == fconn[c]
<1>1. /\ k0.state = "open" /\ k0.server = "open" /\ freq' = freq /\ pool' = pool
  BY DEF ServerCloses
<1>2. PICK how \in {"closed", "reset"}, n \in 0..Len(k0.wire) :
        fconn' = [fconn EXCEPT ![c].server = how, ![c].asked = Nobody,
                               ![c].wire = SubSeq(k0.wire, 1, n)]
  BY DEF ServerCloses
<1> DEFINE left == SubSeq(k0.wire, 1, n)
           k == [k0 EXCEPT !.server = how, !.asked = Nobody, !.wire = left]
<1>3. fconn \in [FConns -> ConnRec] /\ ConnOK(k0) /\ k0 \in ConnRec /\ k0.wire \in Seq(Tokens)
  BY DEF FetchIInv, ConnsInv, ConnRec
<1>4. fconn' = [fconn EXCEPT ![c] = k]
  BY <1>2, <1>3
<1>5. /\ left \in Seq(Tokens) /\ Len(left) = n /\ n =< Len(k0.wire) /\ Len(k0.wire) \in Nat
      /\ \A i \in 1..n : left[i] = k0.wire[i]
  BY <1>3
<1> HIDE DEF left
<1>6. /\ k \in ConnRec /\ k.state = "open" /\ k.wire = left /\ k.asked = Nobody
      /\ k.pending = k0.pending /\ k.server = how /\ k.eof = k0.eof
  BY <1>1, <1>3, <1>5 DEF ConnRec
<1> HIDE DEF k
<1>7. ~k0.eof
  BY <1>1, <1>3 DEF ConnOK
<1>8. ConnOK(k)
  BY <1>6, <1>7 DEF ConnOK
<1>9. OnlyRest(k0.wire) => OnlyRest(left)
  BY <1>5 DEF OnlyRest
<1>10. Quiet(k0) => Quiet(k)
  BY <1>6, <1>9 DEF Quiet
<1>11. ASSUME NEW r \in FReqs, freq[r].conn = c
       PROVE  Carries(r, freq[r], k)
  <2>1. Carries(r, freq[r], k0)
    BY <1>11, FetchAssumption DEF FetchIInv, HeldInv
  <2>2. AnswerTo(r, k0.wire) => AnswerTo(r, left)
    <3>1. \A i \in 1..n : i \in 1..Len(k0.wire)
      BY <1>5
    <3> DEFINE w == k0.wire
    <3>2. Len(left) = n /\ \A i \in 1..n : left[i] = w[i] /\ i \in 1..Len(w)
      BY <1>5, <3>1
    <3> HIDE DEF w
    <3>3. AnswerTo(r, w) => AnswerTo(r, left)
      BY <3>2 DEF AnswerTo
    <3> QED  BY <3>3 DEF w
  <2>3. Underway(r, k0) => Underway(r, k)
    BY <1>6, <2>2 DEF Underway
  <2> QED  BY <2>1, <2>3, <1>6, <1>10 DEF Carries
<1> QED  BY <1>1, <1>4, <1>6, <1>8, <1>10, <1>11, FetchConnStep

-----------------------------------------------------------------------------
LEMMA FetchInitIInv == FetchInit => FetchIInv
<1> SUFFICES ASSUME FetchInit PROVE FetchIInv
  OBVIOUS
<1>0. /\ freq = [r \in FReqs |-> NoFetch] /\ fconn = [c \in FConns |-> NoConnection] /\ pool = <<>>
  BY DEF FetchInit
<1>1. /\ NoFetch \in FetchRec /\ NoFetch.conn = Nobody /\ NoFetch.pc = "idle" /\ NoFetch.own = TRUE
  BY FetchAssumption DEF NoFetch, FetchRec, HoldingPcs, FreePcs, Kinds
<1>3. /\ ConnOK(NoConnection) /\ NoConnection \in ConnRec /\ NoConnection.pending = Nobody
  BY NoConnectionOK DEF Quiet
<1>4. ReqsInv
  <2>1. \A r \in FReqs : ReqOK(r, NoFetch)
    BY <1>1 DEF ReqOK, HoldingPcs, HeadPcs, BodyPcs
  <2> QED  BY <1>0, <1>1, <2>1 DEF ReqsInv
<1>5. ConnsInv
  BY <1>0, <1>3 DEF ConnsInv
<1>6. HeldInv /\ AloneInv /\ PendingInv
  BY <1>0, <1>1, <1>3 DEF HeldInv, AloneInv, PendingInv, PendingOK
<1>7. PoolInv
  <2>1. pool \in Seq(FConns) /\ Len(pool) = 0 /\ 1..0 = {}
    BY <1>0
  <2> QED  BY <2>1, FetchAssumption DEF PoolInv
<1> QED  BY <1>4, <1>5, <1>6, <1>7 DEF FetchIInv

LEMMA FetchNextKeeps ==
  ASSUME FetchIInv, FetchNext
  PROVE  FetchIInv'
<1>1. ASSUME NEW r \in FReqs,
             FetchStart(r) \/ FetchConnect(r) \/ Send(r) \/ Read(r) \/ FetchAbort(r)
      PROVE  FetchIInv'
  BY <1>1, FetchStartKeeps, FetchConnectKeeps, SendKeeps, ReadKeeps, FetchAbortKeeps
<1>2. ASSUME NEW c \in FConns,
             \/ Chunk(c) \/ Eof(c) \/ EofUntold(c) \/ ReadError(c) \/ IdleTimeout(c)
             \/ ServerAnswers(c) \/ ServerCloses(c)
      PROVE  FetchIInv'
  BY <1>2, ChunkKeeps, EofKeeps, EofUntoldKeeps, ReadErrorKeeps, IdleTimeoutKeeps,
     ServerAnswersKeeps, ServerClosesKeeps
<1> QED  BY <1>1, <1>2 DEF FetchNext

LEMMA FetchUnchangedKeeps ==
  ASSUME FetchIInv, UNCHANGED fetchVars
  PROVE  FetchIInv'
BY DEF FetchIInv, fetchVars, ReqsInv, ConnsInv, HeldInv, PendingInv, AloneInv, PoolInv, PendingOK,
       Waiting

LEMMA FetchIInvImplies == FetchIInv => FetchInv
<1> SUFFICES ASSUME FetchIInv PROVE FetchInv
  OBVIOUS
<1>1. FetchTypeOK
  BY DEF FetchTypeOK, FetchIInv, ReqsInv, ConnsInv, PoolInv, FetchRec, ConnRec
<1>2. ConnectionHasOneUser
  BY DEF ConnectionHasOneUser, FetchIInv, PoolInv, AloneInv
<1>3. ResponseIsOwn
  BY DEF ResponseIsOwn, FetchIInv, ReqsInv, ReqOK
<1> QED  BY <1>1, <1>2, <1>3 DEF FetchInv

(* fetch: over any history of reuse, retry, redirect, abort, idle timeout    *)
(* and server that closes, with any cut of the responses, and with any       *)
(* number of calls, connections and places in the pool, a connection of the  *)
(* pool is open and serves nobody, no two calls share one, and every call    *)
(* reads the answer to its own request, except one that finds in front of it *)
(* the rest of an earlier response whose body was taken to be over.          *)
THEOREM FetchSafe == Spec => []FetchInv
<1>1. Init => FetchIInv
  BY FetchInitIInv DEF Init
<1>2. FetchIInv /\ [Next]_vars => FetchIInv'
  <2> SUFFICES ASSUME FetchIInv, [Next]_vars PROVE FetchIInv'
    OBVIOUS
  <2>1. FetchNext \/ UNCHANGED fetchVars
    BY DEF Next, vars
  <2> QED  BY <2>1, FetchNextKeeps, FetchUnchangedKeeps
<1> QED  BY <1>1, <1>2, FetchIInvImplies, PTL DEF Spec

-----------------------------------------------------------------------------
(* Credentials.  What a loader counts in a file of PEM objects, and the store *)
(* it grows.                                                                 *)

Roles == {"client", "server"}

(* The events of a file of PEM objects.                                      *)
PemEvents == {"begin", "end", "error"} \X PemObjects
EventSeqs(file) == [k \in 1..Len(file) |-> EventsOf(file[k])]

(* g[k] are the events of the first k objects.  *)
EventsUpTo(g, file) == Flattens(g, EventSeqs(file), PemEvents)

(* Each object has its events.  *)
LEMMA EventsOfObject ==
  ASSUME NEW o \in PemObjects
  PROVE  /\ EventsOf(o) \in Seq(PemEvents) /\ Len(EventsOf(o)) \in 1..2
         /\ EventsOf(o)[1] = <<"begin", o>>
         /\ o = "broken" => Len(EventsOf(o)) = 2 /\ EventsOf(o)[2] = <<"error", o>>
         /\ o = "endless" => Len(EventsOf(o)) = 1
         /\ o \notin {"broken", "endless"} => Len(EventsOf(o)) = 2 /\ EventsOf(o)[2] = <<"end", o>>
<1>0. /\ <<"begin", o>> \in PemEvents /\ <<"error", o>> \in PemEvents /\ <<"end", o>> \in PemEvents
  BY DEF PemEvents
<1> DEFINE b == <<"begin", o>>
           x == <<"error", o>>
           e == <<"end", o>>
<1>1. CASE o = "broken"
  <2>1. EventsOf(o) = <<b, x>>
    BY <1>1 DEF EventsOf
  <2> HIDE DEF b, x
  <2>2. <<b, x>> \in Seq(PemEvents) /\ Len(<<b, x>>) = 2 /\ <<b, x>>[1] = b /\ <<b, x>>[2] = x
    BY <1>0 DEF b, x
  <2>3. "broken" # "endless" /\ 2 \in 1..2
    OBVIOUS
  <2>4. /\ EventsOf(o) \in Seq(PemEvents) /\ Len(EventsOf(o)) = 2 /\ EventsOf(o)[1] = b
        /\ EventsOf(o)[2] = x
    BY <2>1, <2>2, Zenon
  <2> QED  BY <1>1, <2>3, <2>4, Zenon DEF b, x
<1>2. CASE o = "endless"
  <2>1. EventsOf(o) = <<b>>
    BY <1>2 DEF EventsOf
  <2>2. <<b>> \in Seq(PemEvents) /\ Len(<<b>>) = 1 /\ <<b>>[1] = b
    BY <1>0
  <2> HIDE DEF b
  <2>3. "broken" # "endless"
    OBVIOUS
  <2> QED  BY <1>2, <2>1, <2>2, <2>3 DEF b
<1>3. CASE o \notin {"broken", "endless"}
  <2>1. EventsOf(o) = <<b, e>>
    BY <1>3 DEF EventsOf
  <2>2. <<b, e>> \in Seq(PemEvents) /\ Len(<<b, e>>) = 2 /\ <<b, e>>[1] = b /\ <<b, e>>[2] = e
    BY <1>0
  <2> HIDE DEF b, e
  <2> QED  BY <1>3, <2>1, <2>2 DEF b, e
<1> QED  BY <1>1, <1>2, <1>3

(* Events are those of the objects in their order.  *)
LEMMA EventsAre ==
  ASSUME NEW file \in Seq(PemObjects)
  PROVE  /\ EventSeqs(file) \in Seq(Seq(PemEvents)) /\ Len(EventSeqs(file)) = Len(file)
         /\ \E g : EventsUpTo(g, file) /\ Events(file) = g[Len(file)]
<1> DEFINE s == EventSeqs(file)
           N == Len(file)
<1>0. N \in Nat /\ \A k \in 1..N : file[k] \in PemObjects
  OBVIOUS
<1>1. \A k \in 1..N : EventsOf(file[k]) \in Seq(PemEvents)
  BY <1>0, EventsOfObject
<1>2. s \in [1..N -> Seq(PemEvents)]
  BY <1>1 DEF EventSeqs
<1> HIDE DEF N
<1>3. s \in Seq(Seq(PemEvents)) /\ Len(s) = N
  <2> HIDE DEF s
  <2> QED  BY <1>0, <1>2
<1>a. \A k \in 1..N : s[k] = EventsOf(file[k])
  BY DEF EventSeqs, N
<1> HIDE DEF s
<1>4. PICK g : Flattens(g, s, PemEvents)
  BY <1>3, FlattenExists
<1>5. g \in [0..N -> Seq(PemEvents)] /\ g[0] = <<>> /\ \A n \in 1..N : g[n] = g[n - 1] \o s[n]
  BY <1>3, <1>4 DEF Flattens
<1> DEFINE upTo[n \in 0..N] == IF n = 0 THEN <<>> ELSE upTo[n - 1] \o EventsOf(file[n])
<1>6. g = [n \in 0..N |-> IF n = 0 THEN <<>> ELSE g[n - 1] \o EventsOf(file[n])]
  <2>1. \A n \in 0..N : g[n] = IF n = 0 THEN <<>> ELSE g[n - 1] \o EventsOf(file[n])
    <3> TAKE n \in 0..N
    <3>1. CASE n = 0
      BY <3>1, <1>5
    <3>2. CASE n # 0
      <4>1. n \in 1..N
        BY <3>2, <1>0
      <4> QED  BY <3>2, <4>1, <1>5, <1>a
    <3> QED  BY <3>1, <3>2
  <2>2. g = [n \in 0..N |-> g[n]]
    BY <1>5
  <2> QED  BY <2>1, <2>2
<1>7. upTo = [n \in 0..N |-> IF n = 0 THEN <<>> ELSE upTo[n - 1] \o EventsOf(file[n])]
  BY <1>6, Zenon DEF upTo
<1>8. Events(file) = upTo[N]
  BY Zenon DEF Events, upTo, N
<1> HIDE DEF upTo
<1> DEFINE T == {n \in 0..N : upTo[n] = g[n]}
<1>9. 0 \in T
  BY <1>0, <1>5, <1>7
<1>10. ASSUME NEW n \in 0..(N - 1), n \in T PROVE n + 1 \in T
  <2>1. n + 1 \in 1..N /\ n + 1 \in 0..N /\ (n + 1) - 1 = n /\ n + 1 # 0
    BY <1>0
  <2>2. upTo[n + 1] = upTo[n] \o EventsOf(file[n + 1])
    BY <2>1, <1>7
  <2>3. g[n + 1] = g[n] \o EventsOf(file[n + 1])
    BY <2>1, <1>5, <1>a
  <2> QED  BY <2>1, <2>2, <2>3, <1>10
<1>11. N \in T
  <2> HIDE DEF T
  <2>1. 0..N \subseteq T
    BY <1>0, <1>9, <1>10, IntervalInduction
  <2> QED  BY <1>0, <2>1
<1>12. EventsUpTo(g, file) /\ Events(file) = g[N]
  BY <1>4, <1>8, <1>11 DEF EventsUpTo, s
<1> QED  BY <1>3, <1>12 DEF s, N

(* Where the events of a file are: of object k the first is behind those of  *)
(* the objects before it, and the last closes it; g is fixed by a file.      *)
EventPlaces(g, file, ev) ==
  /\ \A k \in 0..Len(file) : Len(g[k]) \in Nat
  /\ ev \in Seq(PemEvents)
  /\ \A k \in 1..Len(file) :
       /\ Len(g[k]) = Len(g[k - 1]) + Len(EventsOf(file[k]))
       /\ Len(g[k]) =< Len(ev)
       /\ \A j \in 1..Len(EventsOf(file[k])) : ev[Len(g[k - 1]) + j] = EventsOf(file[k])[j]
  /\ \A i \in 1..Len(ev) : \E k \in 1..Len(file) :
       \E j \in 1..Len(EventsOf(file[k])) : i = Len(g[k - 1]) + j
  /\ \A j, k \in 0..Len(file) : j =< k => Len(g[j]) =< Len(g[k])

(* The events of a file have such places.  *)
LEMMA PlacesOfEvents ==
  ASSUME NEW file \in Seq(PemObjects)
  PROVE  \E g : EventPlaces(g, file, Events(file))
<1> DEFINE s == EventSeqs(file)
           N == Len(file)
           ev == Events(file)
<1>0. N \in Nat
  OBVIOUS
<1>1. s \in Seq(Seq(PemEvents)) /\ Len(s) = N
  BY EventsAre
<1>2. PICK g : Flattens(g, s, PemEvents) /\ ev = g[N]
  BY EventsAre, Zenon DEF EventsUpTo
<1>3. \A k \in 1..N : s[k] = EventsOf(file[k]) /\ s[k] \in Seq(PemEvents)
  <2>1. \A k \in 1..N : s[k] = EventsOf(file[k])
    BY DEF EventSeqs
  <2> HIDE DEF s
  <2> QED  BY <1>1, <2>1
<1> HIDE DEF s, N, ev
<1>b. \A q \in Seq(PemEvents) : Len(q) \in Nat
  OBVIOUS
<1>c. \A p, q \in Seq(PemEvents) : Len(p \o q) = Len(p) + Len(q)
  OBVIOUS
<1>4. /\ \A k \in 0..N : g[k] \in Seq(PemEvents) /\ Len(g[k]) \in Nat
      /\ \A k \in 1..N : g[k] = g[k - 1] \o s[k]
  <2>1. \A k \in 0..N : g[k] \in Seq(PemEvents)
    BY <1>1, <1>2 DEF Flattens
  <2>2. \A k \in 1..N : g[k] = g[k - 1] \o s[k]
    BY <1>1, <1>2 DEF Flattens
  <2> QED  BY <2>1, <2>2, <1>b, Zenon
<1>5. ev \in Seq(PemEvents) /\ N \in 0..N
  BY <1>0, <1>2, <1>4
<1>6. \A j, k \in 0..N : j =< k => Len(g[j]) =< Len(g[k])
  <2>1. \A j, k \in 0..Len(s) : j =< k => Len(g[j]) =< Len(g[k])
    BY <1>1, <1>2, FlattenGrows
  <2> QED  BY <1>1, <2>1
<1>7. ASSUME NEW k \in 1..N
      PROVE  /\ Len(g[k]) = Len(g[k - 1]) + Len(s[k]) /\ Len(g[k]) =< Len(ev)
             /\ \A j \in 1..Len(s[k]) : ev[Len(g[k - 1]) + j] = s[k][j]
  <2>1. k - 1 \in 0..N /\ k \in 0..N /\ k =< N
    BY <1>0
  <2>2. Len(g[k]) = Len(g[k - 1]) + Len(s[k])
    <3>1. g[k - 1] \in Seq(PemEvents) /\ s[k] \in Seq(PemEvents) /\ g[k] = g[k - 1] \o s[k]
      BY <1>3, <1>4, <2>1
    <3> QED  BY <3>1, <1>c, Zenon
  <2>3. Len(g[k]) =< Len(ev)
    BY <1>2, <1>5, <1>6, <2>1
  <2>4. k \in 1..Len(s)
    BY <1>1
  <2>5. \A j \in 1..Len(s[k]) : /\ Len(g[k - 1]) + j \in 1..Len(g[Len(s)])
                                /\ g[Len(s)][Len(g[k - 1]) + j] = s[k][j]
    BY <1>1, <1>2, <2>4, FlattenPiece
  <2>6. ev = g[Len(s)]
    BY <1>1, <1>2
  <2> QED  BY <2>2, <2>3, <2>5, <2>6
<1>8. ASSUME NEW i \in 1..Len(ev)
      PROVE  \E k \in 1..N : \E j \in 1..Len(s[k]) : i = Len(g[k - 1]) + j
  <2>1. i \in 1..Len(g[Len(s)])
    BY <1>1, <1>2
  <2>2. \E k \in 1..Len(s) : \E j \in 1..Len(s[k]) : i = Len(g[k - 1]) + j
    <3>1. s \in Seq(Seq(PemEvents)) /\ Flattens(g, s, PemEvents)
      BY <1>1, <1>2
    <3>2. OfPiece(i, g, s)
      BY <3>1, <2>1, FlattenPlace, Zenon
    <3> QED  BY <3>2, Zenon DEF OfPiece
  <2> QED  BY <1>1, <2>2
<1>9. EventPlaces(g, file, ev)
  <2>1. \A k \in 1..N :
          /\ Len(g[k]) = Len(g[k - 1]) + Len(EventsOf(file[k]))
          /\ Len(g[k]) =< Len(ev)
          /\ \A j \in 1..Len(EventsOf(file[k])) : ev[Len(g[k - 1]) + j] = EventsOf(file[k])[j]
    BY <1>3, <1>7
  <2>2. \A i \in 1..Len(ev) : \E k \in 1..N :
          \E j \in 1..Len(EventsOf(file[k])) : i = Len(g[k - 1]) + j
    BY <1>3, <1>8
  <2> QED  BY <1>4, <1>5, <1>6, <2>1, <2>2, Zenon DEF EventPlaces, N
<1> QED  BY <1>9, Zenon DEF ev

(* What the loop over the events has seen, and what it knows: only ends are  *)
(* counted, nothing is skipped before the first error, and an end that       *)
(* directly follows its beginning is counted if no error came before it.     *)
PemStates == [open : BOOLEAN, skip : Nat, whole : SUBSET Nat]
Kind(ev, i) == ev[i][1]
Clean(ev, n) == \A j \in 1..n : Kind(ev, j) # "error"
Closes(ev, i) == Kind(ev, i) = "end" /\ Kind(ev, i - 1) = "begin" /\ Clean(ev, i)
PemOK(ev, n, w) ==
  /\ w \in PemStates
  /\ \A i \in w.whole : i \in 1..n /\ Kind(ev, i) = "end"
  /\ Clean(ev, n) => w.skip = 0 /\ (n > 0 /\ Kind(ev, n) = "begin" => w.open)
  /\ \A i \in 2..n : Closes(ev, i) => i \in w.whole

(* Blocks are counted from one.  *)
LEMMA BlocksFromOne == ASSUME NEW n \in Nat \ {0} PROVE BlockOf(n) \in Nat \ {0}
<1>1. Block \in Nat /\ Block > 0 /\ n - 1 \in Nat
  BY CredentialsAssumption
<1>2. (n - 1) \div Block \in Nat
  BY <1>1
<1> QED  BY <1>2 DEF BlockOf

(* What an event changes.  *)
LEMMA EventStep ==
  ASSUME NEW ev, NEW w \in PemStates, NEW n \in Nat \ {0}
  PROVE  LET x == OnEvent(ev, w, n) IN
         /\ x \in PemStates
         /\ w.whole \subseteq x.whole
         /\ \A i \in x.whole : i \in w.whole \/ (i = n /\ Kind(ev, n) = "end")
         /\ w.skip = 0 /\ Kind(ev, n) # "error" => x.skip = 0
         /\ w.skip = 0 /\ Kind(ev, n) = "begin" => x.open
         /\ w.skip = 0 /\ Kind(ev, n) = "end" /\ w.open => n \in x.whole
<1> DEFINE x == OnEvent(ev, w, n)
           b == BlockOf(n)
           k == ev[n][1]
<1>0. b \in Nat /\ b # 0 /\ n \in Nat
  BY BlocksFromOne
<1>1. CASE w.skip = b
  <2>1. x = w
    BY <1>1 DEF OnEvent
  <2> QED  BY <1>0, <1>1, <2>1 DEF PemStates, Kind
<1>2. CASE w.skip # b
  <2>1. x = CASE k = "begin" -> [w EXCEPT !.open = TRUE]
              [] w.open /\ k = "end" -> [w EXCEPT !.open = FALSE, !.whole = @ \cup {n}]
              [] w.open /\ k = "error" -> [w EXCEPT !.open = FALSE, !.skip = b]
              [] OTHER -> w
    BY <1>2, Zenon DEF OnEvent
  <2> HIDE DEF x, b, k
  <2>2. CASE k = "begin"
    <3>1. x = [w EXCEPT !.open = TRUE]
      BY <2>1, <2>2
    <3> QED  BY <1>0, <2>2, <3>1 DEF PemStates, Kind, k, x
  <2>3. CASE k = "end"
    <3>1. CASE w.open
      <4>1. x = [w EXCEPT !.open = FALSE, !.whole = @ \cup {n}]
        BY <2>1, <2>3, <3>1
      <4>2. /\ w.whole \cup {n} \in SUBSET Nat /\ w.skip \in Nat
            /\ w = [open |-> w.open, skip |-> w.skip, whole |-> w.whole]
        BY <1>0 DEF PemStates
      <4>3. x.open = FALSE /\ x.skip = w.skip /\ x.whole = w.whole \cup {n}
        BY <4>1 DEF PemStates
      <4>4. x \in PemStates
        BY <4>1, <4>2 DEF PemStates
      <4> QED  BY <2>3, <4>3, <4>4 DEF Kind, k, x
    <3>2. CASE ~w.open
      <4>1. x = w
        BY <2>1, <2>3, <3>2
      <4> QED  BY <1>0, <2>3, <3>2, <4>1 DEF PemStates, Kind, k, x
    <3> QED  BY <3>1, <3>2
  <2>4. CASE k = "error"
    <3>1. CASE w.open
      <4>1. x = [w EXCEPT !.open = FALSE, !.skip = b]
        BY <2>1, <2>4, <3>1
      <4> QED  BY <1>0, <2>4, <4>1 DEF PemStates, Kind, k, x
    <3>2. CASE ~w.open
      <4>1. x = w
        BY <2>1, <2>4, <3>2
      <4> QED  BY <1>0, <2>4, <4>1 DEF PemStates, Kind, k, x
    <3> QED  BY <3>1, <3>2
  <2>5. CASE k \notin {"begin", "end", "error"}
    <3>1. x = w
      BY <2>1, <2>5
    <3> QED  BY <1>0, <2>5, <3>1 DEF PemStates, Kind, k, x
  <2> QED  BY <2>2, <2>3, <2>4, <2>5
<1> QED  BY <1>1, <1>2

(* ... keeps what is known.  *)
LEMMA EventKeeps ==
  ASSUME NEW ev, NEW n \in Nat, NEW w, PemOK(ev, n, w)
  PROVE  PemOK(ev, n + 1, OnEvent(ev, w, n + 1))
<1> DEFINE m == n + 1
           x == OnEvent(ev, w, m)
<1>0. m \in Nat \ {0} /\ m > 0 /\ m - 1 = n /\ n < m
  OBVIOUS
<1>1. w \in PemStates
  BY DEF PemOK
<1>2. /\ x \in PemStates
      /\ w.whole \subseteq x.whole
      /\ \A i \in x.whole : i \in w.whole \/ (i = m /\ Kind(ev, m) = "end")
      /\ w.skip = 0 /\ Kind(ev, m) # "error" => x.skip = 0
      /\ w.skip = 0 /\ Kind(ev, m) = "begin" => x.open
      /\ w.skip = 0 /\ Kind(ev, m) = "end" /\ w.open => m \in x.whole
  BY <1>0, <1>1, EventStep
<1> HIDE DEF x
<1>3. Clean(ev, m) => Clean(ev, n) /\ Kind(ev, m) # "error"
  BY <1>0 DEF Clean
<1> HIDE DEF m
<1>4. \A i \in x.whole : i \in 1..m /\ Kind(ev, i) = "end"
  BY <1>0, <1>2 DEF PemOK
<1>5. Clean(ev, m) => x.skip = 0 /\ (m > 0 /\ Kind(ev, m) = "begin" => x.open)
  BY <1>2, <1>3 DEF PemOK
<1>6. ASSUME NEW i \in 2..m, Closes(ev, i) PROVE i \in x.whole
  <2>1. CASE i \in 2..n
    BY <1>2, <1>6, <2>1 DEF PemOK
  <2>2. CASE i = m
    <3>1. Clean(ev, n) /\ Kind(ev, n) = "begin" /\ Kind(ev, m) = "end" /\ n > 0
      BY <1>0, <1>3, <1>6, <2>2 DEF Closes
    <3> QED  BY <1>2, <2>2, <3>1 DEF PemOK
  <2> QED  BY <1>0, <2>1, <2>2
<1>7. PemOK(ev, m, x)
  BY <1>2, <1>4, <1>5, <1>6 DEF PemOK
<1> QED  BY <1>7 DEF m, x
(* The states of the loop one after the other.  *)
PemInit == [open |-> FALSE, skip |-> 0, whole |-> {}]
PemSteps(a, ev, n) == a[0] = PemInit /\ \A k \in 1..n : a[k] = OnEvent(ev, a[k - 1], k)

LEMMA ReadSteps ==
  ASSUME NEW ev, NEW L \in Nat
  PROVE  \E a : PemSteps(a, ev, L) /\ ReadTo(ev, L) = a[L]
<1> DEFINE init == PemInit
           Reads(a, n) == /\ a \in [0..n -> PemStates] /\ a[0] = init
                          /\ \A k \in 1..n : a[k] = OnEvent(ev, a[k - 1], k)
           T == {n \in 0..L : \E a : Reads(a, n)}
<1>0. L \in Nat /\ init \in PemStates
  BY DEF PemStates, PemInit
<1> HIDE DEF init
<1>1. 0 \in T
  <2> DEFINE a == [k \in 0..0 |-> init]
  <2>1. a \in [0..0 -> PemStates] /\ a[0] = init
    BY <1>0
  <2>2. Reads(a, 0)
    <3> HIDE DEF a
    <3> QED  BY <2>1
  <2> HIDE DEF a, Reads
  <2>3. 0 \in 0..L
    BY <1>0
  <2> QED  BY <2>2, <2>3
<1>2. ASSUME NEW n \in 0..(L - 1), n \in T PROVE n + 1 \in T
  <2>1. PICK a : Reads(a, n)
    BY <1>2
  <2> DEFINE m == n + 1
             c == [k \in 0..m |-> IF k = m THEN OnEvent(ev, a[n], m) ELSE a[k]]
  <2>2. /\ n \in Nat /\ m \in Nat \ {0} /\ m \in 0..L /\ n \in 0..n
        /\ \A k \in 0..m : k # m => k \in 0..n
        /\ \A k \in 1..m : k - 1 # m /\ k - 1 \in 0..m /\ k \in 0..m /\ (k # m => k \in 1..n)
    BY <1>0
  <2>3. m - 1 = n /\ m \in 0..m /\ 0 \in 0..m /\ 0 # m
    BY <2>2
  <2>4. OnEvent(ev, a[n], m) \in PemStates
    BY <2>1, <2>2, EventStep
  <2> HIDE DEF m
  <2>5. c \in [0..m -> PemStates] /\ c[0] = init
    BY <2>1, <2>2, <2>3, <2>4
  <2>6. ASSUME NEW k \in 1..m PROVE c[k] = OnEvent(ev, c[k - 1], k)
    <3>1. c[k - 1] = a[k - 1]
      BY <2>2
    <3>2. CASE k = m
      <4>1. c[k] = OnEvent(ev, a[n], m) /\ k - 1 = n
        BY <2>3, <3>2
      <4> QED  BY <3>1, <3>2, <4>1
    <3>3. CASE k # m
      <4>1. c[k] = a[k] /\ k \in 1..n
        BY <2>2, <3>3
      <4> QED  BY <2>1, <3>1, <4>1
    <3> QED  BY <3>2, <3>3
  <2>7. Reads(c, m)
    <3> HIDE DEF c
    <3> QED  BY <2>5, <2>6
  <2>8. m \in T
    <3> HIDE DEF Reads
    <3> QED  BY <2>2, <2>7
  <2> QED  BY <2>8 DEF m
<1>3. L \in T
  <2> HIDE DEF T
  <2>1. 0..L \subseteq T
    BY <1>0, <1>1, <1>2, IntervalInduction
  <2> QED  BY <1>0, <2>1
<1>4. PICK a : Reads(a, L)
  BY <1>3
<1> DEFINE after[n \in 0..L] == IF n = 0 THEN init ELSE OnEvent(ev, after[n - 1], n)
<1>5. a = [n \in 0..L |-> IF n = 0 THEN init ELSE OnEvent(ev, a[n - 1], n)]
  <2>1. \A n \in 0..L : a[n] = IF n = 0 THEN init ELSE OnEvent(ev, a[n - 1], n)
    <3> TAKE n \in 0..L
    <3>1. n # 0 => n \in 1..L
      BY <1>0
    <3> QED  BY <1>4, <3>1
  <2>2. a = [n \in 0..L |-> a[n]]
    BY <1>4
  <2> QED  BY <2>1, <2>2
<1>6. after = [n \in 0..L |-> IF n = 0 THEN init ELSE OnEvent(ev, after[n - 1], n)]
  BY <1>5, Zenon DEF after
<1>7. ReadTo(ev, L) = after[L]
  BY Zenon DEF ReadTo, after, init, PemInit
<1>8. after[0] = init /\ \A k \in 1..L : after[k] = OnEvent(ev, after[k - 1], k)
  <2>1. 0 \in 0..L /\ \A k \in 1..L : k \in 0..L /\ k # 0
    BY <1>0
  <2> HIDE DEF after
  <2> QED  BY <1>6, <2>1
<1>9. PemSteps(after, ev, L)
  <2> HIDE DEF after
  <2> QED  BY <1>8 DEF PemSteps, init
<1> QED  BY <1>7, <1>9, Zenon

(* The loop counts only ends, and each end that follows its beginning before *)
(* the first error.                                                          *)
LEMMA WhatIsRead ==
  ASSUME NEW ev, Len(ev) \in Nat
  PROVE  /\ \A i \in ReadPem(ev) : i \in 1..Len(ev) /\ Kind(ev, i) = "end"
         /\ \A i \in 2..Len(ev) : Closes(ev, i) => i \in ReadPem(ev)
<1> DEFINE L == Len(ev)
<1>0. L \in Nat
  OBVIOUS
<1> HIDE DEF L
<1>1. PICK after : PemSteps(after, ev, L) /\ ReadTo(ev, L) = after[L]
  BY <1>0, ReadSteps
<1>2. ReadPem(ev) = after[L].whole
  BY <1>1, Zenon DEF ReadPem, L
<1> DEFINE U == {n \in 0..L : PemOK(ev, n, after[n])}
<1>3. 0 \in U
  <2>1. after[0] = PemInit
    BY <1>1 DEF PemSteps
  <2>2. PemOK(ev, 0, PemInit)
    BY DEF PemOK, PemStates, PemInit
  <2> QED  BY <1>0, <2>1, <2>2
<1>4. ASSUME NEW n \in 0..(L - 1), n \in U PROVE n + 1 \in U
  <2>1. n \in Nat /\ n + 1 \in 1..L /\ n + 1 \in 0..L /\ (n + 1) - 1 = n
    BY <1>0
  <2>2. after[n + 1] = OnEvent(ev, after[n], n + 1)
    BY <1>0, <1>1, <2>1 DEF PemSteps
  <2>3. PemOK(ev, n, after[n])
    BY <1>4
  <2>4. PemOK(ev, n + 1, OnEvent(ev, after[n], n + 1))
    BY <2>1, <2>3, EventKeeps
  <2> QED  BY <2>1, <2>2, <2>4
<1>5. PemOK(ev, L, after[L])
  <2>1. 0..L \subseteq U
    <3> HIDE DEF U
    <3> QED  BY <1>0, <1>3, <1>4, IntervalInduction
  <2> QED  BY <1>0, <2>1
<1> QED  BY <1>2, <1>5 DEF PemOK, L

(* Where the last event of object k is.  *)
LastOf(g, k) == Len(g[k])

(* An end is the end of an object that has one.  *)
LEMMA EndsAreLast ==
  ASSUME NEW file \in Seq(PemObjects), NEW g, EventPlaces(g, file, Events(file)),
         NEW i \in 1..Len(Events(file)), Kind(Events(file), i) = "end"
  PROVE  \E k \in 1..Len(file) : i = LastOf(g, k) /\ Events(file)[i][2] = file[k]
<1> DEFINE ev == Events(file)
<1>1. PICK k \in 1..Len(file) : \E j \in 1..Len(EventsOf(file[k])) : i = Len(g[k - 1]) + j
  BY DEF EventPlaces
<1>2. PICK j \in 1..Len(EventsOf(file[k])) : i = Len(g[k - 1]) + j
  BY <1>1
<1> DEFINE o == file[k]
<1>3. o \in PemObjects
  OBVIOUS
<1>4. /\ Len(g[k]) = Len(g[k - 1]) + Len(EventsOf(o))
      /\ ev[i] = EventsOf(o)[j]
  BY <1>2 DEF EventPlaces
<1> HIDE DEF o, ev
<1>5. /\ EventsOf(o) \in Seq(PemEvents) /\ Len(EventsOf(o)) \in 1..2
      /\ EventsOf(o)[1] = <<"begin", o>>
      /\ o = "broken" => Len(EventsOf(o)) = 2 /\ EventsOf(o)[2] = <<"error", o>>
      /\ o = "endless" => Len(EventsOf(o)) = 1
      /\ o \notin {"broken", "endless"} => Len(EventsOf(o)) = 2 /\ EventsOf(o)[2] = <<"end", o>>
  BY <1>3, EventsOfObject
<1>6. EventsOf(o)[j][1] = "end"
  BY <1>4 DEF Kind, ev
<1>7. j \in 1..Len(EventsOf(o))
  BY DEF o
<1>8. j = 2 /\ Len(EventsOf(o)) = 2 /\ EventsOf(o)[2] = <<"end", o>>
  <2>1. j # 1
    BY <1>5, <1>6
  <2>2. j = 2 /\ Len(EventsOf(o)) = 2
    <3> DEFINE l == Len(EventsOf(o))
    <3>1. l \in 1..2 /\ j \in 1..l
      BY <1>5, <1>7
    <3> HIDE DEF l
    <3>2. j = 2 /\ l = 2
      BY <2>1, <3>1
    <3> QED  BY <3>2 DEF l
  <2>3. o # "broken"
    BY <1>5, <1>6, <2>2
  <2>4. o # "endless"
    BY <1>5, <2>2
  <2> QED  BY <1>5, <2>2, <2>3, <2>4
<1>9. i = LastOf(g, k)
  BY <1>2, <1>4, <1>8 DEF LastOf
<1>10. ev[i][2] = o
  BY <1>4, <1>8
<1> QED  BY <1>9, <1>10 DEF o, ev

(* An object with an end, before which there is no broken one, is closed.    *)
LEMMA GoodObjectCloses ==
  ASSUME NEW file \in Seq(PemObjects), NEW g, EventPlaces(g, file, Events(file)),
         NEW k \in 1..Len(file), file[k] \notin {"broken", "endless"},
         \A j \in 1..k : file[j] # "broken"
  PROVE  /\ LastOf(g, k) \in 2..Len(Events(file)) /\ Closes(Events(file), LastOf(g, k))
         /\ Events(file)[LastOf(g, k)][2] = file[k]
<1> DEFINE ev == Events(file)
           o == file[k]
           p == Len(g[k - 1])
           e == LastOf(g, k)
<1>1. o \in PemObjects /\ k - 1 \in 0..Len(file) /\ k \in 0..Len(file) /\ Len(file) \in Nat
  OBVIOUS
<1>2. Len(EventsOf(o)) = 2 /\ EventsOf(o)[1] = <<"begin", o>> /\ EventsOf(o)[2] = <<"end", o>>
  BY <1>1, EventsOfObject
<1>3. p \in Nat /\ Len(ev) \in Nat /\ Len(g[k]) =< Len(ev)
  <2>1. p \in Nat /\ Len(g[k]) =< Len(ev) /\ ev \in Seq(PemEvents)
    BY <1>1, Zenon DEF EventPlaces
  <2> HIDE DEF ev, p
  <2> QED  BY <2>1
<1>4. e = p + 2 /\ ev[p + 1] = <<"begin", o>> /\ ev[p + 2] = <<"end", o>>
  <2>1. /\ Len(g[k]) = p + Len(EventsOf(o))
        /\ \A j \in 1..Len(EventsOf(o)) : ev[p + j] = EventsOf(o)[j]
    BY DEF EventPlaces
  <2> HIDE DEF p, o, ev
  <2> QED  BY <1>2, <2>1 DEF LastOf
<1>5. e \in 2..Len(ev) /\ e - 1 = p + 1
  <2> DEFINE L == Len(ev)
  <2>1. p \in Nat /\ L \in Nat /\ e =< L /\ e = p + 2
    BY <1>3, <1>4 DEF LastOf
  <2> HIDE DEF p, e, L
  <2>2. e \in 2..L /\ e - 1 = p + 1
    BY <2>1
  <2> QED  BY <2>2 DEF L
<1>6. Kind(ev, e) = "end" /\ Kind(ev, e - 1) = "begin" /\ ev[e][2] = o
  <2> HIDE DEF ev, e, p, o
  <2> QED  BY <1>4, <1>5 DEF Kind
<1>7. ASSUME NEW i \in 1..e, Kind(ev, i) = "error" PROVE FALSE
  <2>1. i \in 1..Len(ev)
    BY <1>3, <1>5
  <2>2. PICK n \in 1..Len(file) : \E j \in 1..Len(EventsOf(file[n])) : i = Len(g[n - 1]) + j
    BY <2>1 DEF EventPlaces
  <2>3. PICK j \in 1..Len(EventsOf(file[n])) : i = Len(g[n - 1]) + j
    BY <2>2
  <2> DEFINE q == file[n]
  <2>4. q \in PemObjects /\ n - 1 \in 0..Len(file) /\ n \in 0..Len(file)
    OBVIOUS
  <2>5. ev[i] = EventsOf(q)[j] /\ Len(g[n - 1]) \in Nat
    BY <2>3, <2>4 DEF EventPlaces
  <2>6. EventsOf(q)[j][1] = "error"
    BY <1>7, <2>5 DEF Kind
  <2>7. q = "broken"
    <3> DEFINE l == Len(EventsOf(q))
    <3> HIDE DEF q
    <3>1. /\ l \in 1..2 /\ j \in 1..l /\ EventsOf(q)[1] = <<"begin", q>>
          /\ q = "endless" => l = 1
          /\ q \notin {"broken", "endless"} => EventsOf(q)[2] = <<"end", q>>
      <4>1. j \in 1..l
        BY DEF q
      <4> QED  BY <2>4, <4>1, EventsOfObject
    <3> HIDE DEF l
    <3>2. j # 1
      BY <2>6, <3>1
    <3>3. j = 2 /\ l = 2
      BY <3>1, <3>2
    <3> QED  BY <2>6, <3>1, <3>3
  <2>8. n > k
    <3>1. ~(n \in 1..k)
      BY <2>7
    <3> QED  BY <1>1, <3>1
  <2>9. Len(g[k]) =< Len(g[n - 1])
    <3>1. k =< n - 1
      BY <2>8, <1>1
    <3> QED  BY <3>1, <1>1, <2>4 DEF EventPlaces
  <2> DEFINE r == Len(g[n - 1])
  <2>10. r \in Nat /\ e =< r /\ i = r + j /\ j >= 1 /\ j \in Int /\ i =< e /\ e \in Int
    BY <2>3, <2>5, <2>9, <1>5 DEF LastOf
  <2> HIDE DEF r, e
  <2> QED  BY <2>10
<1>8. Clean(ev, e)
  <2> HIDE DEF ev, e
  <2> QED  BY <1>7 DEF Clean
<1>9. Closes(ev, e)
  <2> HIDE DEF ev, e
  <2> QED  BY <1>6, <1>8 DEF Closes
<1> QED  BY <1>5, <1>6, <1>9
(* load_ca_pem adds no more than the certificates that decode, and at least  *)
(* those before the first broken object, however the blocks fall.            *)
LEMMA AnchorsAreGood ==
  ASSUME NEW file \in Seq(PemObjects)
  PROVE  LET good == {i \in DOMAIN file : file[i] = "cert"}
             bad == {i \in DOMAIN file : file[i] = "broken"}
         IN  /\ AnchorsIn(file) \in Nat
             /\ AnchorsIn(file) =< Cardinality(good)
             /\ bad = {} => AnchorsIn(file) = Cardinality(good)
             /\ AnchorsIn(file) >= Cardinality({i \in good : \A j \in bad : i < j})
<1> DEFINE N == Len(file)
           ev == Events(file)
           good == {i \in DOMAIN file : file[i] = "cert"}
           bad == {i \in DOMAIN file : file[i] = "broken"}
           early == {i \in good : \A j \in bad : i < j}
           W == WholeObjects(file, {"cert"})
<1>1. PICK g : EventPlaces(g, file, ev)
  BY PlacesOfEvents
<1>2. N \in Nat /\ DOMAIN file = 1..N /\ good \subseteq 1..N /\ early \subseteq good
  OBVIOUS
<1>3. ev \in Seq(PemEvents) /\ Len(ev) \in Nat
  <2>1. ev \in Seq(PemEvents)
    BY <1>1, Zenon DEF EventPlaces
  <2> HIDE DEF ev
  <2> QED  BY <2>1
<1>4. IsFiniteSet(good) /\ IsFiniteSet(early)
  <2>1. IsFiniteSet(1..N)
    BY <1>2, FS_Interval
  <2> QED  BY <1>2, <2>1, FS_Subset
<1>5. W = {i \in ReadPem(ev) : ev[i][2] \in {"cert"}}
  BY Zenon DEF WholeObjects
<1>6. /\ \A i \in ReadPem(ev) : i \in 1..Len(ev) /\ Kind(ev, i) = "end"
      /\ \A i \in 2..Len(ev) : Closes(ev, i) => i \in ReadPem(ev)
  BY <1>3, WhatIsRead
<1> DEFINE f == [k \in good |-> LastOf(g, k)]
           im == {f[k] : k \in good}
<1>7. \A i \in W : \E k \in good : i = f[k]
  <2> TAKE i \in W
  <2>1. i \in 1..Len(ev) /\ Kind(ev, i) = "end" /\ ev[i][2] = "cert"
    BY <1>5, <1>6
  <2>2. PICK k \in 1..N : i = LastOf(g, k) /\ ev[i][2] = file[k]
    BY <1>1, <2>1, EndsAreLast
  <2>3. k \in good
    BY <1>2, <2>1, <2>2
  <2> QED  BY <2>2, <2>3
<1>8. IsFiniteSet(W) /\ Cardinality(W) \in Nat /\ Cardinality(W) =< Cardinality(good)
  <2>1. f \in Surjection(good, im)
    BY DEF Surjection
  <2>2. IsFiniteSet(im) /\ Cardinality(im) =< Cardinality(good)
    <3> HIDE DEF f, im, good
    <3> QED  BY <1>4, <2>1, FS_Surjection
  <2>3. W \in SUBSET im
    <3> HIDE DEF W, good
    <3> QED  BY <1>7
  <2>4. IsFiniteSet(W) /\ Cardinality(W) =< Cardinality(im)
    <3> HIDE DEF W, im
    <3> QED  BY <2>2, <2>3, FS_Subset
  <2>5. Cardinality(W) \in Nat /\ Cardinality(im) \in Nat /\ Cardinality(good) \in Nat
    <3> HIDE DEF W, im, good
    <3> QED  BY <1>4, <2>2, <2>4, FS_CardinalityType
  <2> HIDE DEF W, im, good
  <2> QED  BY <2>2, <2>4, <2>5
<1>9. \A k \in early : LastOf(g, k) \in W
  <2> TAKE k \in early
  <2>1. k \in 1..N /\ file[k] = "cert" /\ \A j \in bad : k < j
    BY <1>2
  <2>2. \A j \in 1..k : file[j] # "broken"
    <3> SUFFICES ASSUME NEW j \in 1..k, file[j] = "broken" PROVE FALSE
      OBVIOUS
    <3>1. j \in 1..N /\ j \in Int /\ k \in Int /\ j =< k
      BY <1>2, <2>1
    <3>2. j \in bad
      BY <1>2, <3>1
    <3> QED  BY <2>1, <3>1, <3>2
  <2>3. /\ LastOf(g, k) \in 2..Len(ev) /\ Closes(ev, LastOf(g, k))
        /\ ev[LastOf(g, k)][2] = file[k]
    BY <1>1, <2>1, <2>2, GoodObjectCloses
  <2> QED  BY <1>5, <1>6, <2>1, <2>3
<1>10. Cardinality(early) =< Cardinality(W)
  <2> DEFINE h == [k \in early |-> LastOf(g, k)]
  <2>1. \A j, k \in early : j < k => LastOf(g, j) < LastOf(g, k)
    <3> SUFFICES ASSUME NEW j \in early, NEW k \in early, j < k PROVE LastOf(g, j) < LastOf(g, k)
      OBVIOUS
    <3>1. j \in 0..N /\ k \in 1..N /\ k - 1 \in 0..N /\ j =< k - 1 /\ file[k] \in PemObjects /\ k \in 0..N
      BY <1>2
    <3>2. Len(g[j]) =< Len(g[k - 1]) /\ Len(g[k]) = Len(g[k - 1]) + Len(EventsOf(file[k]))
      BY <1>1, <3>1 DEF EventPlaces
    <3>3. Len(g[j]) \in Nat /\ Len(g[k - 1]) \in Nat /\ Len(g[k]) \in Nat
      BY <1>1, <3>1 DEF EventPlaces
    <3>4. Len(EventsOf(file[k])) \in 1..2
      BY <3>1, EventsOfObject
    <3> DEFINE a == Len(g[j])
               b == Len(g[k - 1])
               c == Len(g[k])
               d == Len(EventsOf(file[k]))
    <3>5. a \in Nat /\ b \in Nat /\ c \in Nat /\ d \in 1..2 /\ a =< b /\ c = b + d
      BY <3>2, <3>3, <3>4
    <3> HIDE DEF a, b, c, d
    <3>6. a < c
      BY <3>5
    <3> QED  BY <3>6 DEF a, c, LastOf
  <2>2. \A k \in early : k \in Nat /\ LastOf(g, k) \in Nat
    <3> TAKE k \in early
    <3>1. k \in 0..N
      BY <1>2
    <3> QED  BY <1>1, <3>1 DEF EventPlaces, LastOf
  <2>3. h \in Injection(early, W)
    <3> HIDE DEF early, W
    <3>1. h \in [early -> W]
      BY <1>9
    <3>2. \A j, k \in early : h[j] = h[k] => j = k
      BY <2>1, <2>2
    <3> HIDE DEF h
    <3> QED  BY <3>1, <3>2 DEF Injection, IsInjective
  <2> HIDE DEF h, early, W
  <2> QED  BY <1>8, <2>3, FS_Injection
<1>11. bad = {} => early = good
  OBVIOUS
<1>12. Cardinality(early) \in Nat /\ Cardinality(good) \in Nat
  <2> HIDE DEF early, good
  <2> QED  BY <1>4, FS_CardinalityType
<1>13. AnchorsIn(file) = Cardinality(W)
  BY Zenon DEF AnchorsIn
<1>14. /\ AnchorsIn(file) \in Nat
       /\ AnchorsIn(file) =< Cardinality(good)
       /\ bad = {} => AnchorsIn(file) = Cardinality(good)
       /\ AnchorsIn(file) >= Cardinality(early)
  <2> HIDE DEF early, good, W, bad
  <2> QED  BY <1>8, <1>10, <1>11, <1>12, <1>13
<1> QED  BY <1>14
(* The store holds no more than it has room for, and an array that was full  *)
(* once has been left for a larger one only when more came.                  *)
StoreOK(s) == s \in [num : Nat, cap : Nat, place : Nat, loads : Nat] /\ s.num =< s.cap
SameRoom(s, place, room) == (s.place = place /\ s.cap = room) \/ s.num > room

(* add_trust_anchor moves the array only when it is full, and then holds more.  *)
LEMMA AnchorAdded ==
  ASSUME NEW s, StoreOK(s)
  PROVE  /\ StoreOK(AddAnchor(s))
         /\ \A place, room \in Nat : SameRoom(s, place, room) => SameRoom(AddAnchor(s), place, room)
<1> DEFINE x == AddAnchor(s)
<1>0. /\ s.num \in Nat /\ s.cap \in Nat /\ s.place \in Nat /\ s.loads \in Nat /\ s.num =< s.cap
      /\ s \in [num : Nat, cap : Nat, place : Nat, loads : Nat]
      /\ AnchorCap \in Nat /\ AnchorCap > 0
  BY CredentialsAssumption DEF StoreOK
<1>1. CASE s.num < s.cap
  <2>1. x = [s EXCEPT !.num = s.num + 1]
    BY <1>1 DEF AddAnchor
  <2>2. /\ x \in [num : Nat, cap : Nat, place : Nat, loads : Nat]
        /\ x.num = s.num + 1 /\ x.cap = s.cap /\ x.place = s.place
    BY <1>0, <2>1
  <2> HIDE DEF x
  <2>3. StoreOK(x) /\ \A place, room \in Nat : SameRoom(s, place, room) => SameRoom(x, place, room)
    BY <1>0, <1>1, <2>2 DEF StoreOK, SameRoom
  <2> QED  BY <2>3 DEF x
<1>2. CASE ~(s.num < s.cap)
  <2> DEFINE c == IF s.cap = 0 THEN AnchorCap ELSE 2 * s.cap
  <2>1. x = [s EXCEPT !.num = s.num + 1, !.place = s.place + 1, !.cap = c]
    BY <1>2, Zenon DEF AddAnchor
  <2>2. c \in Nat /\ c > s.cap
    BY <1>0
  <2> HIDE DEF c
  <2>3. /\ x \in [num : Nat, cap : Nat, place : Nat, loads : Nat]
        /\ x.num = s.num + 1 /\ x.cap = c /\ x.place = s.place + 1
    <3> DEFINE a == s.num + 1
               b == s.place + 1
    <3>1. a \in Nat /\ b \in Nat
      BY <1>0
    <3>2. x = [s EXCEPT !.num = a, !.place = b, !.cap = c]
      BY <2>1
    <3> HIDE DEF a, b, x
    <3>3. x \in [num : Nat, cap : Nat, place : Nat, loads : Nat]
      BY <1>0, <2>2, <3>1, <3>2
    <3>4. x.num = a /\ x.cap = c /\ x.place = b
      BY <1>0, <3>2
    <3> QED  BY <3>3, <3>4 DEF a, b
  <2> HIDE DEF x
  <2>4. StoreOK(x) /\ \A place, room \in Nat : SameRoom(s, place, room) => SameRoom(x, place, room)
    BY <1>0, <1>2, <2>2, <2>3 DEF StoreOK, SameRoom
  <2> QED  BY <2>4 DEF x
<1> QED  BY <1>1, <1>2

(* So do any number of them.  *)
LEMMA AnchorsAdded ==
  ASSUME NEW s, StoreOK(s), NEW n \in Nat
  PROVE  /\ StoreOK(AddAnchors(s, n))
         /\ \A place, room \in Nat : SameRoom(s, place, room) => SameRoom(AddAnchors(s, n), place, room)
<1> DEFINE Keeps(x) == /\ StoreOK(x)
                       /\ \A place, room \in Nat : SameRoom(s, place, room) => SameRoom(x, place, room)
           Adds(a, m) == /\ a = [k \in 0..m |-> a[k]] /\ a[0] = s
                         /\ \A k \in 1..m : a[k] = AddAnchor(a[k - 1])
           T == {m \in 0..n : \E a : Adds(a, m)}
<1>1. 0 \in T
  <2> DEFINE a == [k \in 0..0 |-> s]
  <2>1. a = [k \in 0..0 |-> a[k]] /\ a[0] = s
    OBVIOUS
  <2>2. Adds(a, 0)
    <3> HIDE DEF a
    <3> QED  BY <2>1
  <2> HIDE DEF a, Adds
  <2> QED  BY <2>2
<1>2. ASSUME NEW m \in 0..(n - 1), m \in T PROVE m + 1 \in T
  <2>1. PICK a : Adds(a, m)
    BY <1>2
  <2> DEFINE p == m + 1
             c == [k \in 0..p |-> IF k = p THEN AddAnchor(a[m]) ELSE a[k]]
  <2>2. /\ p \in 0..n /\ p - 1 = m /\ p \in 0..p /\ 0 \in 0..p /\ 0 # p
        /\ \A k \in 1..p : k - 1 # p /\ k - 1 \in 0..p /\ k \in 0..p /\ (k # p => k \in 1..m)
    OBVIOUS
  <2> HIDE DEF p
  <2>3. c = [k \in 0..p |-> c[k]] /\ c[0] = s
    BY <2>1, <2>2
  <2>4. ASSUME NEW k \in 1..p PROVE c[k] = AddAnchor(c[k - 1])
    <3>1. c[k - 1] = a[k - 1]
      BY <2>2
    <3>2. CASE k = p
      <4>1. c[k] = AddAnchor(a[m]) /\ k - 1 = m
        BY <2>2, <3>2
      <4> QED  BY <3>1, <4>1
    <3>3. CASE k # p
      <4>1. c[k] = a[k] /\ k \in 1..m
        BY <2>2, <3>3
      <4> QED  BY <2>1, <3>1, <4>1
    <3> QED  BY <3>2, <3>3
  <2>5. Adds(c, p)
    <3> HIDE DEF c
    <3> QED  BY <2>3, <2>4
  <2>6. p \in T
    <3> HIDE DEF Adds
    <3> QED  BY <2>2, <2>5
  <2> QED  BY <2>6 DEF p
<1>3. n \in T
  <2> HIDE DEF T
  <2>1. 0..n \subseteq T
    BY <1>1, <1>2, IntervalInduction
  <2> QED  BY <2>1
<1>4. PICK a : Adds(a, n)
  BY <1>3
<1> DEFINE after[k \in 0..n] == IF k = 0 THEN s ELSE AddAnchor(after[k - 1])
<1>5. a = [k \in 0..n |-> IF k = 0 THEN s ELSE AddAnchor(a[k - 1])]
  <2>1. \A k \in 0..n : a[k] = IF k = 0 THEN s ELSE AddAnchor(a[k - 1])
    <3> TAKE k \in 0..n
    <3>1. k # 0 => k \in 1..n
      OBVIOUS
    <3> QED  BY <1>4, <3>1
  <2> QED  BY <1>4, <2>1
<1>6. after = [k \in 0..n |-> IF k = 0 THEN s ELSE AddAnchor(after[k - 1])]
  BY <1>5, Zenon DEF after
<1>7. AddAnchors(s, n) = after[n]
  BY Zenon DEF AddAnchors, after
<1> HIDE DEF after
<1> DEFINE U == {k \in 0..n : Keeps(after[k])}
<1>8. 0 \in U
  <2>1. after[0] = s
    BY <1>6
  <2> QED  BY <2>1
<1>9. ASSUME NEW k \in 0..(n - 1), k \in U PROVE k + 1 \in U
  <2>1. k + 1 \in 0..n /\ k + 1 # 0 /\ (k + 1) - 1 = k
    OBVIOUS
  <2>2. after[k + 1] = AddAnchor(after[k])
    BY <1>6, <2>1
  <2>3. Keeps(after[k])
    BY <1>9
  <2>4. Keeps(AddAnchor(after[k]))
    BY <2>3, AnchorAdded
  <2> QED  BY <2>1, <2>2, <2>4
<1>10. Keeps(after[n])
  <2>1. 0..n \subseteq U
    <3> HIDE DEF U
    <3> QED  BY <1>8, <1>9, IntervalInduction
  <2> QED  BY <2>1
<1> QED  BY <1>7, <1>10
(* What the anchors rest on: the array a connection was given is still the   *)
(* store's, or holds less than the store does.                               *)
AnchorsIInv ==
  /\ StoreOK(store)
  /\ peer["client"].state = "live" =>
       /\ peer["client"].place \in Nat /\ peer["client"].room \in Nat
       /\ SameRoom(store, peer["client"].place, peer["client"].room)
  /\ OnlyGoodAnchors

(* OnlyGoodAnchors, of a load.  *)
GoodLoad(l) ==
  LET good == {i \in DOMAIN l.file : l.file[i] = "cert"}
      bad  == {i \in DOMAIN l.file : l.file[i] = "broken"}
  IN  /\ l.added =< Cardinality(good)
      /\ bad = {} => l.added = Cardinality(good)
      /\ l.added >= Cardinality({i \in good : \A j \in bad : i < j})

(* OnlyGoodAnchors of no load ...  *)
LEMMA NoLoadIsGood == GoodLoad(NoLoad)
<1> DEFINE file == NoLoad.file
<1>1. DOMAIN file = {} /\ NoLoad.added = 0
  BY DEF NoLoad
<1> DEFINE good == {i \in DOMAIN file : file[i] = "cert"}
           bad  == {i \in DOMAIN file : file[i] = "broken"}
           early == {i \in good : \A j \in bad : i < j}
<1>2. good = {} /\ early = {} /\ Cardinality({}) = 0
  BY <1>1, FS_EmptySet
<1>3. NoLoad.added =< Cardinality(good) /\ NoLoad.added = Cardinality(good) /\ NoLoad.added >= Cardinality(early)
  <2> HIDE DEF good, early
  <2> QED  BY <1>1, <1>2
<1> QED  BY <1>3 DEF GoodLoad

(* ... and of the load of a file.  *)
LEMMA LoadIsGood ==
  ASSUME NEW file \in Seq(PemObjects)
  PROVE  GoodLoad([file |-> file, added |-> AnchorsIn(file)])
<1> DEFINE l == [file |-> file, added |-> AnchorsIn(file)]
<1>1. l.file = file /\ l.added = AnchorsIn(file)
  OBVIOUS
<1> HIDE DEF l
<1>2. GoodLoad(l)
  BY <1>1, AnchorsAreGood DEF GoodLoad
<1> QED  BY <1>2 DEF l

(* At first there is no store and no connection.  *)
LEMMA AnchorsInit == CredInit => AnchorsIInv
<1> SUFFICES ASSUME CredInit PROVE AnchorsIInv
  OBVIOUS
<1>1. StoreOK(store)
  BY DEF CredInit, StoreOK
<1>2. peer["client"].state # "live"
  BY DEF CredInit
<1>3. OnlyGoodAnchors
  BY NoLoadIsGood, Zenon DEF CredInit, OnlyGoodAnchors, GoodLoad
<1> QED  BY <1>1, <1>2, <1>3 DEF AnchorsIInv

(* Each call keeps it; only a load and a new connection touch it.  *)
LEMMA AnchorsKept ==
  ASSUME AnchorsIInv, CredNext, peer = [r \in Roles |-> peer[r]],
         \A r \in Roles : peer[r] = [f \in {"state", "place", "room", "pin"} |-> peer[r][f]]
  PROVE  AnchorsIInv'
<1>1. ASSUME load' = NoLoad PROVE OnlyGoodAnchors'
  BY <1>1, NoLoadIsGood, Zenon DEF OnlyGoodAnchors, GoodLoad
<1>2. ASSUME NEW f \in PemFiles, LoadCACerts(f) PROVE AnchorsIInv'
  <2>0. f \in Seq(PemObjects)
    BY CredentialsAssumption
  <2> DEFINE n == AnchorsIn(f)
             s == AddAnchors(store, n)
  <2>1. n \in Nat
    BY <2>0, AnchorsAreGood
  <2>2. /\ store' = [s EXCEPT !.loads = store.loads + 1]
        /\ load' = [file |-> f, added |-> n] /\ peer' = peer
    BY <1>2 DEF LoadCACerts
  <2>3. StoreOK(store)
    BY DEF AnchorsIInv
  <2>4. /\ StoreOK(s)
        /\ \A place, room \in Nat : SameRoom(store, place, room) => SameRoom(s, place, room)
    <3> HIDE DEF n
    <3> QED  BY <2>1, <2>3, AnchorsAdded
  <2>5. store.loads + 1 \in Nat
    BY <2>3 DEF StoreOK
  <2> HIDE DEF s
  <2>6. StoreOK(store') /\ store'.place = s.place /\ store'.cap = s.cap /\ store'.num = s.num
    <3> DEFINE m == store.loads + 1
    <3>1. store' = [s EXCEPT !.loads = m] /\ m \in Nat
      BY <2>2, <2>5
    <3> HIDE DEF m
    <3> QED  BY <2>4, <3>1 DEF StoreOK
  <2>7. OnlyGoodAnchors'
    <3>1. GoodLoad(load')
      BY <2>0, <2>2, LoadIsGood, Zenon
    <3> QED  BY <3>1, Zenon DEF OnlyGoodAnchors, GoodLoad
  <2>8. peer["client"].state = "live" =>
          SameRoom(store', peer["client"].place, peer["client"].room)
    BY <2>4, <2>6 DEF AnchorsIInv, SameRoom
  <2> QED  BY <2>2, <2>6, <2>7, <2>8 DEF AnchorsIInv
<1>3. ASSUME load' = NoLoad, store' = store,
             peer'["client"].state = "live" => peer'["client"] = peer["client"]
      PROVE  AnchorsIInv'
  <2>1. OnlyGoodAnchors'
    BY <1>1, <1>3
  <2> QED  BY <1>3, <2>1 DEF AnchorsIInv
<1>4. ASSUME NEW f \in PemFiles, NEW g \in PemFiles, LoadServerCert(f, g) PROVE AnchorsIInv'
  BY <1>3, <1>4 DEF LoadServerCert
<1>5. ASSUME TlsConnect PROVE AnchorsIInv'
  <2>1. /\ peer'["client"].place = store.place /\ peer'["client"].room = store.cap
        /\ load' = NoLoad /\ store' = store
    BY <1>5 DEF TlsConnect, Roles
  <2>2. StoreOK(store')
    BY <2>1 DEF AnchorsIInv
  <2>3. /\ peer'["client"].place \in Nat /\ peer'["client"].room \in Nat
        /\ SameRoom(store', peer'["client"].place, peer'["client"].room)
    BY <2>1, <2>2 DEF StoreOK, SameRoom
  <2> QED  BY <1>1, <2>1, <2>2, <2>3 DEF AnchorsIInv
<1>6. ASSUME Accept PROVE AnchorsIInv'
  <2>1. peer'["client"] = peer["client"]
    BY <1>6 DEF Accept, Roles
  <2> QED  BY <1>3, <1>6, <2>1 DEF Accept
<1>7. ASSUME DropCred PROVE AnchorsIInv'
  BY <1>3, <1>7 DEF DropCred
<1>8. ASSUME CredFinalizer PROVE AnchorsIInv'
  BY <1>3, <1>8 DEF CredFinalizer
<1>9. ASSUME NEW r \in Roles, ConnFinalizer(r) PROVE AnchorsIInv'
  <2>1. peer'["client"].state = "live" => peer'["client"] = peer["client"]
    <3>1. CASE r = "client"
      <4>1. peer'["client"].state = "freed"
        BY <1>9, <3>1 DEF ConnFinalizer, Roles
      <4> QED  BY <4>1
    <3>2. CASE r = "server"
      BY <1>9, <3>2 DEF ConnFinalizer, Roles
    <3> QED  BY <3>1, <3>2 DEF Roles
  <2> QED  BY <1>3, <1>9, <2>1 DEF ConnFinalizer
<1> QED  BY <1>2, <1>4, <1>5, <1>6, <1>7, <1>8, <1>9 DEF CredNext, Roles

-----------------------------------------------------------------------------
(* What a loader leaves allocated when it stops reading.                     *)

(* Dividing by a positive number ...  *)
LEMMA Division ==
  ASSUME NEW B \in Nat, B > 0, NEW a \in Nat
  PROVE  /\ a \div B \in Nat /\ a % B \in Nat /\ a % B < B /\ a = B * (a \div B) + (a % B)
<1>1. a \div B \in Nat
  OBVIOUS
<1>2. a % B \in Nat
  OBVIOUS
<1>3. a % B < B
  OBVIOUS
<1>4. a % B = a - B * (a \div B)
  OBVIOUS
<1>5. a = B * (a \div B) + (a % B)
  <2> DEFINE q == B * (a \div B)
             r == a % B
  <2>1. q \in Int /\ r \in Nat /\ r = a - q
    BY <1>1, <1>2, <1>4
  <2> HIDE DEF q, r
  <2>2. a = q + r
    BY <2>1
  <2> QED  BY <2>2 DEF q, r
<1> QED BY <1>1, <1>2, <1>3, <1>5

(* ... has one result.  *)
LEMMA Quotient ==
  ASSUME NEW B \in Nat, B > 0, NEW q \in Nat, NEW r \in Nat, r < B, NEW a \in Nat, a = B * q + r
  PROVE  a \div B = q /\ a % B = r
<1> DEFINE x == a \div B
           y == a % B
<1>1. x \in Nat /\ y \in Nat /\ y < B /\ a = B * x + y
  BY Division
<1> HIDE DEF x, y
<1>2. ~(x < q)
  <2> SUFFICES ASSUME x < q PROVE FALSE OBVIOUS
  <2>1. PICK d \in Nat : q = x + 1 + d
    <3>1. q - x - 1 \in Nat /\ q = x + 1 + (q - x - 1)
      BY <1>1
    <3> QED BY <3>1
  <2>2. B * q = B * x + B + B * d
    BY <1>1, <2>1
  <2>3. B * d \in Nat /\ B * x \in Nat /\ B * q \in Nat
    BY <1>1, <2>1
  <2> DEFINE u == B * x
             v == B * d
             w == B * q
  <2>4. u \in Nat /\ v \in Nat /\ w \in Nat /\ w = u + B + v /\ a = w + r /\ a = u + y
    BY <2>2, <2>3, <1>1
  <2> HIDE DEF u, v, w
  <2> QED BY <2>4, <1>1
<1>3. ~(q < x)
  <2> SUFFICES ASSUME q < x PROVE FALSE OBVIOUS
  <2>1. PICK d \in Nat : x = q + 1 + d
    <3>1. x - q - 1 \in Nat /\ x = q + 1 + (x - q - 1)
      BY <1>1
    <3> QED BY <3>1
  <2>2. B * x = B * q + B + B * d
    BY <1>1, <2>1
  <2>3. B * d \in Nat /\ B * x \in Nat /\ B * q \in Nat
    BY <1>1, <2>1
  <2> DEFINE u == B * x
             v == B * d
             w == B * q
  <2>4. u \in Nat /\ v \in Nat /\ w \in Nat /\ u = w + B + v /\ a = w + r /\ a = u + y
    BY <2>2, <2>3, <1>1
  <2> HIDE DEF u, v, w
  <2> QED BY <2>4, <1>1
<1>4. x = q
  BY <1>1, <1>2, <1>3
<1>5. y = r
  <2> DEFINE u == B * x
  <2>1. u \in Nat /\ a = u + y /\ a = u + r
    BY <1>1, <1>4
  <2> HIDE DEF u
  <2> QED BY <2>1, <1>1
<1> QED  BY <1>4, <1>5 DEF x, y

(* Blocks follow each other.  *)
LEMMA BlocksGrow == ASSUME NEW n \in Nat, n > 0 PROVE BlockOf(n) =< BlockOf(n + 1)
<1> DEFINE x == (n - 1) \div Block
           u == n \div Block
<1>0. Block \in Nat /\ Block > 0 /\ n - 1 \in Nat
  BY CredentialsAssumption
<1>1. PICK y \in Nat : x \in Nat /\ y < Block /\ n - 1 = Block * x + y
  <2>1. (n - 1) % Block \in Nat
    BY <1>0, Division
  <2> QED  BY <1>0, <2>1, Division
<1>2. PICK v \in Nat : u \in Nat /\ v < Block /\ n = Block * u + v
  <2>1. n % Block \in Nat
    BY <1>0, Division
  <2> QED  BY <1>0, <2>1, Division
<1>3. BlockOf(n) = 1 + x /\ BlockOf(n + 1) = 1 + u
  BY <1>0 DEF BlockOf
<1> HIDE DEF x, u
<1>4. ~(u < x)
  <2> SUFFICES ASSUME u < x PROVE FALSE OBVIOUS
  <2>1. PICK d \in Nat : x = u + 1 + d
    <3>1. x - u - 1 \in Nat /\ x = u + 1 + (x - u - 1)
      BY <1>1, <1>2
    <3> QED  BY <3>1
  <2>2. Block * x = Block * u + Block + Block * d
    BY <1>0, <1>2, <2>1
  <2>3. Block * d \in Nat /\ Block * x \in Nat /\ Block * u \in Nat
    BY <1>0, <1>1, <1>2, <2>1
  <2> DEFINE p == Block * x
             q == Block * d
             r == Block * u
  <2>4. p \in Nat /\ q \in Nat /\ r \in Nat /\ p = r + Block + q /\ n - 1 = p + y /\ n = r + v
    BY <1>1, <1>2, <2>2, <2>3
  <2> HIDE DEF p, q, r
  <2> QED  BY <1>0, <1>1, <1>2, <2>4
<1> QED  BY <1>1, <1>2, <1>3, <1>4

(* From each event on there is a last one of its block.  *)
LEMMA EndOfBlock ==
  ASSUME NEW N \in Nat, NEW i \in 1..N
  PROVE  \E n \in i..N : BlockOf(n) = BlockOf(i) /\ (n = N \/ BlockOf(n + 1) # BlockOf(i))
<1> SUFFICES ASSUME \A n \in i..N : BlockOf(n) = BlockOf(i) =>
                      n # N /\ BlockOf(n + 1) = BlockOf(i)
             PROVE  FALSE
  OBVIOUS
<1> DEFINE T == {d \in 0..(N - i) : BlockOf(i + d) = BlockOf(i)}
<1>1. 0 \in T
  OBVIOUS
<1>2. ASSUME NEW d \in 0..((N - i) - 1), d \in T PROVE d + 1 \in T
  <2>1. i + d \in i..N /\ (i + d) + 1 = i + (d + 1) /\ d + 1 \in 0..(N - i)
    OBVIOUS
  <2>2. BlockOf((i + d) + 1) = BlockOf(i)
    BY <1>2, <2>1
  <2> QED  BY <2>1, <2>2
<1>3. N - i \in T
  <2> HIDE DEF T
  <2>1. N - i \in Nat
    OBVIOUS
  <2>2. 0..(N - i) \subseteq T
    BY <1>1, <1>2, <2>1, IntervalInduction
  <2> QED  BY <2>1, <2>2
<1>4. i + (N - i) = N /\ N \in i..N
  OBVIOUS
<1> QED  BY <1>3, <1>4

(* An object is open only behind its beginning: behind an error nothing is   *)
(* open until the block is over.                                             *)
OpenOK(ev, n, w) ==
  /\ w \in PemStates
  /\ IF n = 0 THEN w.skip = 0 /\ ~w.open ELSE w.skip =< BlockOf(n)
  /\ w.open => w.skip # BlockOf(n) /\ Kind(ev, n) \notin {"end", "error"}

LEMMA OpenStep ==
  ASSUME NEW ev, NEW n \in Nat, NEW w, OpenOK(ev, n, w)
  PROVE  OpenOK(ev, n + 1, OnEvent(ev, w, n + 1))
<1> DEFINE m == n + 1
           x == OnEvent(ev, w, m)
           b == BlockOf(m)
           k == ev[m][1]
<1>0. m \in Nat \ {0} /\ b \in Nat /\ b # 0 /\ w \in PemStates
  BY BlocksFromOne DEF OpenOK
<1>1. w.skip \in Nat /\ w.skip =< b /\ (w.skip = b => ~w.open)
  <2>1. CASE n = 0
    BY <1>0, <2>1 DEF OpenOK
  <2>2. CASE n # 0
    <3>1. BlockOf(n) \in Nat /\ BlockOf(n) =< b
      BY <2>2, BlocksFromOne, BlocksGrow
    <3>2. w.skip \in Nat /\ w.skip =< BlockOf(n) /\ (w.open => w.skip # BlockOf(n))
      BY <1>0, <2>2 DEF OpenOK, PemStates
    <3> HIDE DEF b
    <3> QED  BY <1>0, <3>1, <3>2
  <2> QED  BY <2>1, <2>2
<1>2. x \in PemStates
  BY <1>0, EventStep
<1>3. x = IF w.skip = b THEN w
          ELSE CASE k = "begin" -> [w EXCEPT !.open = TRUE]
                 [] w.open /\ k = "end" -> [w EXCEPT !.open = FALSE, !.whole = @ \cup {m}]
                 [] w.open /\ k = "error" -> [w EXCEPT !.open = FALSE, !.skip = b]
                 [] OTHER -> w
  BY Zenon DEF OnEvent
<1> HIDE DEF x, k, b
<1>4. x.skip =< b /\ (x.open => x.skip # b /\ k \notin {"end", "error"})
  <2>1. CASE w.skip = b
    BY <1>0, <1>1, <1>3, <2>1
  <2>2. CASE w.skip # b /\ k = "begin"
    <3>1. x = [w EXCEPT !.open = TRUE]
      BY <1>3, <2>2
    <3>2. x.skip = w.skip
      BY <1>0, <3>1 DEF PemStates
    <3> QED  BY <1>1, <2>2, <3>2
  <2>3. CASE w.skip # b /\ w.open /\ k = "end"
    <3>1. x = [w EXCEPT !.open = FALSE, !.whole = @ \cup {m}]
      BY <1>3, <2>3
    <3>2. x.skip = w.skip /\ ~x.open
      BY <1>0, <3>1 DEF PemStates
    <3> QED  BY <1>1, <3>2
  <2>4. CASE w.skip # b /\ w.open /\ k = "error"
    <3>1. x = [w EXCEPT !.open = FALSE, !.skip = b]
      BY <1>3, <2>4
    <3>2. x.skip = b /\ ~x.open
      BY <1>0, <3>1 DEF PemStates
    <3> QED  BY <1>0, <3>2
  <2>5. CASE w.skip # b /\ k # "begin" /\ ~(w.open /\ k \in {"end", "error"})
    <3>1. x = w
      BY <1>3, <2>5
    <3> QED  BY <1>1, <2>5, <3>1
  <2> QED  BY <2>1, <2>2, <2>3, <2>4, <2>5
<1>5. OpenOK(ev, m, x)
  BY <1>0, <1>2, <1>4 DEF OpenOK, Kind, b, k
<1> QED  BY <1>5 DEF m, x

(* An object is open only behind its beginning.  *)
LEMMA OpenBehindBegin ==
  ASSUME NEW ev, NEW L \in Nat, ReadTo(ev, L).open
  PROVE  L > 0 /\ Kind(ev, L) \notin {"end", "error"}
<1>1. PICK a : PemSteps(a, ev, L) /\ ReadTo(ev, L) = a[L]
  BY ReadSteps
<1> DEFINE U == {n \in 0..L : OpenOK(ev, n, a[n])}
<1>2. 0 \in U
  <2>1. a[0] = PemInit
    BY <1>1 DEF PemSteps
  <2>2. OpenOK(ev, 0, PemInit)
    BY DEF OpenOK, PemStates, PemInit
  <2> QED  BY <2>1, <2>2
<1>3. ASSUME NEW n \in 0..(L - 1), n \in U PROVE n + 1 \in U
  <2>1. n \in Nat /\ n + 1 \in 1..L /\ n + 1 \in 0..L /\ (n + 1) - 1 = n
    OBVIOUS
  <2>2. a[n + 1] = OnEvent(ev, a[n], n + 1)
    BY <1>1, <2>1 DEF PemSteps
  <2>3. OpenOK(ev, n + 1, OnEvent(ev, a[n], n + 1))
    BY <1>3, <2>1, OpenStep
  <2> QED  BY <2>1, <2>2, <2>3
<1>4. OpenOK(ev, L, a[L])
  <2>1. 0..L \subseteq U
    <3> HIDE DEF U
    <3> QED  BY <1>2, <1>3, IntervalInduction
  <2> QED  BY <2>1
<1> QED  BY <1>1, <1>4 DEF OpenOK

(* A beginning is that of an object, and its end, if it has one, follows.    *)
LEMMA BeginsAreFirst ==
  ASSUME NEW file \in Seq(PemObjects), NEW g, EventPlaces(g, file, Events(file)),
         NEW i \in 1..Len(Events(file)), Kind(Events(file), i) \notin {"end", "error"}
  PROVE  \E k \in 1..Len(file) :
           /\ Events(file)[i][2] = file[k]
           /\ file[k] # "endless" => i + 1 = LastOf(g, k) /\ i + 1 =< Len(Events(file))
<1> DEFINE ev == Events(file)
<1>1. PICK k \in 1..Len(file) : \E j \in 1..Len(EventsOf(file[k])) : i = Len(g[k - 1]) + j
  BY DEF EventPlaces
<1>2. PICK j \in 1..Len(EventsOf(file[k])) : i = Len(g[k - 1]) + j
  BY <1>1
<1> DEFINE o == file[k]
           l == Len(EventsOf(o))
           p == Len(g[k - 1])
<1>3. o \in PemObjects /\ k - 1 \in 0..Len(file) /\ k \in 0..Len(file)
  OBVIOUS
<1>4. LastOf(g, k) = p + l /\ LastOf(g, k) =< Len(ev) /\ ev[i] = EventsOf(o)[j] /\ p \in Nat
  BY <1>2, <1>3 DEF EventPlaces, LastOf
<1>5. i = p + j /\ j \in 1..l
  BY <1>2
<1> HIDE DEF o, ev, p
<1>6. /\ l \in 1..2 /\ EventsOf(o)[1] = <<"begin", o>>
      /\ o = "broken" => l = 2 /\ EventsOf(o)[2] = <<"error", o>>
      /\ o = "endless" => l = 1
      /\ o \notin {"broken", "endless"} => l = 2 /\ EventsOf(o)[2] = <<"end", o>>
  BY <1>3, EventsOfObject
<1> HIDE DEF l
<1>7. j = 1
  <2>1. CASE j = 2
    <3>1. l = 2
      BY <1>5, <1>6, <2>1
    <3>2. EventsOf(o)[2][1] \in {"end", "error"}
      BY <1>6, <3>1
    <3> QED  BY <1>4, <2>1, <3>2 DEF Kind, ev
  <2> QED  BY <1>5, <1>6, <2>1
<1>8. ev[i][2] = o
  BY <1>4, <1>6, <1>7
<1>9. o # "endless" => l = 2
  BY <1>6
<1>10. o # "endless" => i + 1 = LastOf(g, k) /\ i + 1 =< Len(ev)
  <2> DEFINE e == LastOf(g, k)
             L == Len(ev)
  <2> HIDE DEF e, L
  <2>1. e = p + l /\ e =< L /\ p \in Nat
    BY <1>4 DEF e, L
  <2> QED  BY <1>5, <1>7, <1>9, <2>1 DEF e, L
<1> QED  BY <1>8, <1>10 DEF o, ev

(* A loader does not stop in an object it looks for.  *)
LEMMA NothingLeft ==
  ASSUME NEW file \in Seq(PemObjects), ~EndsInside(file)
  PROVE  LeftOfChain(file) = 0 /\ LeftOfKey(file) = 0
<1> DEFINE ev == Events(file)
           L == Len(ev)
           Open(n) == n > 0 /\ ReadTo(ev, n).open
<1>1. PICK g : EventPlaces(g, file, ev)
  BY PlacesOfEvents
<1>2. L \in Nat
  <2>1. ev \in Seq(PemEvents)
    BY <1>1 DEF EventPlaces
  <2> HIDE DEF ev
  <2> QED  BY <2>1
<1>3. /\ \A k \in 1..Len(file) : file[k] # "endless"
      /\ \A j, k \in 1..Len(file) :
           j # k => ~({file[j], file[k]} \subseteq {"key", "badkey", "broken"})
  BY DEF EndsInside
<1>4. ASSUME NEW n \in 0..L, ReadTo(ev, n).open
      PROVE  n \in 1..L /\ \E k \in 1..Len(file) : /\ ev[n][2] = file[k]
                                                  /\ n + 1 = LastOf(g, k) /\ n + 1 =< L
  <2>1. n \in Nat /\ n > 0 /\ Kind(ev, n) \notin {"end", "error"}
    <3> HIDE DEF ev
    <3> QED  BY <1>4, OpenBehindBegin
  <2>2. n \in 1..L
    BY <2>1
  <2> QED  BY <1>1, <1>3, <2>1, <2>2, BeginsAreFirst
<1> HIDE DEF ev, L
<1>5. ~ReadTo(ev, L).open
  BY <1>2, <1>4
<1>6. Left(file, L, {"cert", "badcert"}) = 0 /\ Left(file, L, {"key", "badkey"}) = 0
  BY <1>5 DEF Left, ev
<1>7. LeftOfKey(file) = 0
  <2> DEFINE first == FirstKeys(file)
             Stops(n) == IF first = {} THEN n = L
                         ELSE \E i \in first : /\ n >= i /\ BlockOf(n) = BlockOf(i)
                                               /\ n = L \/ BlockOf(n + 1) # BlockOf(i)
             last == LastRead(file)
  <2>1. \A i \in first : i \in 1..L /\ Kind(ev, i) = "end" /\ ev[i][2] \in {"key", "badkey"}
    <3>1. \A i \in ReadPem(ev) : i \in 1..L /\ Kind(ev, i) = "end"
      BY <1>2, WhatIsRead DEF L
    <3> QED  BY <3>1 DEF FirstKeys, WholeObjects, ev
  <2>2. last = CHOOSE n \in 0..L : Stops(n)
    BY Zenon DEF LastRead, L, ev
  <2>3. \E n \in 0..L : Stops(n)
    <3>1. CASE first = {}
      BY <1>2, <3>1
    <3>2. CASE first # {}
      <4>1. PICK i \in first : TRUE
        BY <3>2
      <4>2. PICK n \in i..L : BlockOf(n) = BlockOf(i) /\ (n = L \/ BlockOf(n + 1) # BlockOf(i))
        BY <1>2, <2>1, <4>1, EndOfBlock
      <4>3. n \in 0..L /\ n >= i
        BY <1>2, <2>1, <4>1, <4>2
      <4> QED  BY <3>2, <4>1, <4>2, <4>3
    <3> QED  BY <3>1, <3>2
  <2> HIDE DEF first
  <2>4. last \in 0..L /\ Stops(last)
    <3> HIDE DEF Stops, last
    <3> QED  BY <2>2, <2>3
  <2> HIDE DEF last
  <2>5. CASE first = {}
    BY <1>6, <2>4, <2>5 DEF LeftOfKey, last
  <2>6. CASE first # {}
    <3>1. PICK i \in first : last >= i
      BY <2>4, <2>6
    <3>2. ASSUME ReadTo(ev, last).open, ev[last][2] \in {"key", "badkey", "broken", "endless"}
          PROVE  FALSE
      <4>1. PICK k \in 1..Len(file) : ev[last][2] = file[k] /\ last + 1 = LastOf(g, k)
        BY <1>4, <2>4, <3>2
      <4>2. PICK j \in 1..Len(file) : i = LastOf(g, j) /\ ev[i][2] = file[j]
        BY <1>1, <2>1, EndsAreLast DEF ev, L
      <4>3. j # k
        BY <1>2, <2>1, <2>4, <3>1, <4>1, <4>2
      <4>4. file[j] \in {"key", "badkey"}
        BY <2>1, <4>2
      <4>5. file[k] \in {"key", "badkey", "broken"}
        BY <1>3, <3>2, <4>1
      <4> QED  BY <1>3, <4>3, <4>4, <4>5
    <3>3. Left(file, last, {"key", "badkey"}) = 0
      BY <3>2 DEF Left, ev
    <3> QED  BY <3>3 DEF LeftOfKey, last
  <2> QED  BY <2>5, <2>6
<1> QED  BY <1>6, <1>7 DEF LeftOfChain, L, ev

(* The chain of a file has a length.  *)
LEMMA ChainIsCounted == ASSUME NEW file \in Seq(PemObjects) PROVE ChainIn(file) \in Nat
<1> DEFINE ev == Events(file)
           L == Len(ev)
           S == WholeObjects(file, {"cert", "badcert"})
<1>1. L \in Nat
  <2>1. ev \in Seq(PemEvents)
    BY PlacesOfEvents DEF EventPlaces
  <2> HIDE DEF ev
  <2> QED  BY <2>1
<1>2. S \subseteq 1..L
  BY <1>1, WhatIsRead DEF WholeObjects
<1> HIDE DEF S, L
<1>3. IsFiniteSet(1..L)
  BY <1>1, FS_Interval
<1>4. IsFiniteSet(S)
  BY <1>2, <1>3, FS_Subset
<1> QED  BY <1>4, FS_CardinalityType DEF ChainIn, S

(* What a credential holds: the buffers of the chain, the array of them, the *)
(* key and the struct, until it is over.                                     *)
BlocksOK(c) ==
  ~c.cut => /\ c.state = "live" => c.chain \in Nat /\ c.blocks = c.chain + 3
            /\ c.state \in {"failed", "freed"} => c.blocks = 0

(* A server credential that was loaded, or not.  *)
LEMMA LoadedCred ==
  ASSUME NEW f \in Seq(PemObjects), NEW h \in Seq(PemObjects)
  PROVE  LET c == LoadedServerCert(f, h) IN
         /\ DOMAIN c = {"state", "held", "chain", "blocks", "cut"} /\ c = [x \in DOMAIN c |-> c[x]]
         /\ \/ c.state = "failed" /\ c.held = FALSE
            \/ c.state = "live" /\ c.held = TRUE
         /\ BlocksOK(c)
<1> DEFINE n == ChainIn(f)
           cut == EndsInside(f) \/ EndsInside(h)
           b == n + 3 + LeftOfChain(f) + LeftOfKey(h)
           made == [state |-> "live", held |-> TRUE, chain |-> n, cut |-> cut, blocks |-> b]
           c == LoadedServerCert(f, h)
<1>1. n \in Nat
  BY ChainIsCounted
<1>2. ~cut => LeftOfChain(f) = 0 /\ LeftOfKey(h) = 0
  BY NothingLeft
<1>3. ~cut => b = n + 3 /\ b - (n + 3) = 0
  <2> HIDE DEF n, cut
  <2> QED  BY <1>1, <1>2
<1>4. c = IF n = 0
          THEN [state |-> "failed", held |-> FALSE, chain |-> 0, cut |-> cut, blocks |-> LeftOfChain(f)]
          ELSE IF KeysIn(h) # {"key"} THEN FreeServerCred(made, "failed") ELSE made
  BY Zenon DEF LoadedServerCert
<1> HIDE DEF n, cut, b, c
<1>5. CASE n = 0
  BY <1>2, <1>4, <1>5 DEF BlocksOK, c
<1>6. CASE n # 0 /\ KeysIn(h) # {"key"}
  <2>1. c = [state |-> "failed", held |-> FALSE, chain |-> n, cut |-> cut, blocks |-> b - (n + 3)]
    BY <1>4, <1>6 DEF FreeServerCred
  <2> QED  BY <1>3, <2>1 DEF BlocksOK, c
<1>7. CASE n # 0 /\ KeysIn(h) = {"key"}
  <2>1. c = made
    BY <1>4, <1>7
  <2> QED  BY <1>1, <1>3, <2>1 DEF BlocksOK, c
<1> QED  BY <1>5, <1>6, <1>7

(* The accepted connection pins the credential it points at, and what is      *)
(* over holds nothing.                                                       *)
CredIInv ==
  /\ DOMAIN cred = {"state", "held", "chain", "blocks", "cut"}
  /\ cred = [f \in DOMAIN cred |-> cred[f]]
  /\ BlocksOK(cred)
  /\ peer = [r \in Roles |-> peer[r]]
  /\ \A r \in Roles : peer[r] = [f \in {"state", "place", "room", "pin"} |-> peer[r][f]]
  /\ peer["server"].state = "live" => peer["server"].pin = TRUE /\ cred.state = "live"
  /\ cred.held => cred.state = "live"
  /\ cred.state \in {"none", "live", "failed", "freed"}
  /\ \A r \in Roles : peer[r].state \in {"none", "live", "freed"}

LEMMA CredInitIInv == CredInit => CredIInv
BY DEF CredInit, CredIInv, Roles, BlocksOK

LEMMA CredNextKeeps ==
  ASSUME CredIInv, CredNext
  PROVE  CredIInv'
<1>1. ASSUME NEW f, LoadCACerts(f) PROVE CredIInv'
  BY <1>1 DEF CredIInv, LoadCACerts
<1>2. ASSUME NEW f \in PemFiles, NEW g \in PemFiles, LoadServerCert(f, g) PROVE CredIInv'
  <2>1. /\ cred.state \in {"none", "failed"} /\ peer' = peer /\ cred' = LoadedServerCert(f, g)
    BY <1>2 DEF LoadServerCert
  <2> DEFINE c == LoadedServerCert(f, g)
  <2>2. peer["server"].state # "live"
    BY <2>1 DEF CredIInv
  <2>3. /\ DOMAIN c = {"state", "held", "chain", "blocks", "cut"} /\ c = [x \in DOMAIN c |-> c[x]]
        /\ \/ c.state = "failed" /\ c.held = FALSE
           \/ c.state = "live" /\ c.held = TRUE
        /\ BlocksOK(c)
    BY LoadedCred, CredentialsAssumption
  <2> HIDE DEF c
  <2>4. cred' = c
    BY <2>1 DEF c
  <2> QED  BY <2>1, <2>2, <2>3, <2>4 DEF CredIInv
<1>3. ASSUME TlsConnect PROVE CredIInv'
  BY <1>3 DEF CredIInv, TlsConnect, Roles
<1>4. ASSUME Accept PROVE CredIInv'
  BY <1>4 DEF CredIInv, Accept, Accepted, Roles
<1>5. ASSUME DropCred PROVE CredIInv'
  <2>1. BlocksOK(cred)'
    BY <1>5 DEF CredIInv, DropCred, BlocksOK
  <2> QED  BY <1>5, <2>1 DEF CredIInv, DropCred
<1>6. ASSUME CredFinalizer PROVE CredIInv'
  <2>1. /\ cred'.state = "freed" /\ cred'.cut = cred.cut /\ cred'.held = FALSE
        /\ cred'.blocks = cred.blocks - (cred.chain + 3)
        /\ DOMAIN cred' = DOMAIN cred /\ cred' = [f \in DOMAIN cred' |-> cred'[f]]
    BY <1>6 DEF CredIInv, CredFinalizer, FreeServerCred
  <2>2. BlocksOK(cred)'
    <3>1. cred.state = "live"
      BY <1>6 DEF CredFinalizer
    <3> DEFINE b == cred.blocks
               n == cred.chain
    <3>2. ~cred.cut => n \in Nat /\ b = n + 3
      BY <3>1 DEF CredIInv, BlocksOK
    <3>3. cred'.blocks = b - (n + 3)
      BY <2>1
    <3> HIDE DEF b, n
    <3>4. ~cred.cut => cred'.blocks = 0
      BY <3>2, <3>3
    <3> QED  BY <2>1, <3>4 DEF BlocksOK
  <2>3. peer' = peer /\ ~peer["server"].pin
    BY <1>6 DEF CredFinalizer
  <2> QED  BY <2>1, <2>2, <2>3 DEF CredIInv
<1>7. ASSUME NEW r \in Roles, ConnFinalizer(r) PROVE CredIInv'
  BY <1>7 DEF CredIInv, ConnFinalizer, Roles
<1> QED  BY <1>1, <1>2, <1>3, <1>4, <1>5, <1>6, <1>7 DEF CredNext, Roles

(* What a connection points at stays: a server's chain and key as long as    *)
(* the connection lives, a client's anchors until the store has outgrown the *)
(* array.  tlsLoadCACerts adds exactly the certificates that decode, but for *)
(* those a broken object costs, however the blocks of the file fall.  What   *)
(* tlsLoadServerCert has allocated is freed when it throws and when the      *)
(* credential is collected, unless a loader stopped inside an object.        *)
THEOREM CredentialsKept == Spec => []CredentialsInv
<1> DEFINE I == CredIInv /\ AnchorsIInv
<1>1. Init => I
  BY CredInitIInv, AnchorsInit DEF Init
<1>2. I /\ [Next]_vars => I'
  <2> SUFFICES ASSUME CredIInv, AnchorsIInv, [Next]_vars PROVE CredIInv' /\ AnchorsIInv'
    OBVIOUS
  <2>1. CredNext \/ UNCHANGED credVars
    BY DEF Next, vars
  <2>2. CASE UNCHANGED credVars
    BY <2>2 DEF CredIInv, AnchorsIInv, OnlyGoodAnchors, credVars
  <2>3. CASE CredNext
    <3>1. /\ peer = [r \in Roles |-> peer[r]]
          /\ \A r \in Roles : peer[r] = [f \in {"state", "place", "room", "pin"} |-> peer[r][f]]
      BY Zenon DEF CredIInv
    <3> QED  BY <2>3, <3>1, CredNextKeeps, AnchorsKept
  <2> QED  BY <2>1, <2>2, <2>3
<1>3. I => CredentialsInv
  <2> SUFFICES ASSUME CredIInv, AnchorsIInv PROVE CredentialsInv
    OBVIOUS
  <2>1. CredTypeOK
    BY DEF CredIInv, AnchorsIInv, CredTypeOK, StoreOK, Roles
  <2>2. AnchorsStayPut
    BY DEF AnchorsIInv, AnchorsStayPut, SameRoom, StoreOK
  <2>3. CredentialOutlivesConnection /\ OnlyGoodAnchors /\ LoadsAreFreed
    BY DEF CredIInv, AnchorsIInv, CredentialOutlivesConnection, LoadsAreFreed, BlocksOK
  <2> QED  BY <2>1, <2>2, <2>3 DEF CredentialsInv
<1> QED  BY <1>1, <1>2, <1>3, PTL DEF Spec

-----------------------------------------------------------------------------
(* Crypto.  Text that is cut into calls anyhow is encrypted, and decrypted,  *)
(* as if in one call, because a call begins in the key stream where the one  *)
(* before it ended; for AES-CTR that takes whole blocks.                     *)

(* Whole blocks in front change the number of the block and not the place in *)
(* it.                                                                       *)
LEMMA WholeBlocks ==
  ASSUME NEW B \in Nat, B > 0, NEW d \in Nat, d % B = 0, NEW k \in Nat
  PROVE  /\ (d + k) \div B = d \div B + k \div B /\ (d + k) % B = k % B
         /\ (d + (B - 1)) \div B = d \div B
<1> DEFINE p == d \div B
           q == k \div B
           r == k % B
<1>1. p \in Nat /\ q \in Nat /\ r \in Nat /\ r < B /\ d = B * p /\ k = B * q + r
  BY Division
<1> HIDE DEF p, q, r
<1>2. d + k = B * (p + q) + r /\ p + q \in Nat /\ d + k \in Nat
  BY <1>1
<1>3. d + (B - 1) = B * p + (B - 1) /\ B - 1 \in Nat /\ B - 1 < B /\ d + (B - 1) \in Nat
  BY <1>1
<1>4. (d + k) \div B = p + q /\ (d + k) % B = r
  BY <1>1, <1>2, Quotient
<1>5. (d + (B - 1)) \div B = p
  BY <1>1, <1>3, Quotient
<1> QED  BY <1>4, <1>5 DEF p, q, r

(* The place of a unit in the key stream when n units come before it, and    *)
(* what a text is after encryption and after decryption in one go.           *)
StreamPos(n) == <<n \div BlockUnits, n % BlockUnits>>
EncUnits == Nat \X (Nat \X Nat)
Encrypted(t) == [i \in 1..Len(t) |-> <<t[i], StreamPos(i - 1)>>]
DecryptedUnit(u, place) == IF u[2] = place THEN u[1] ELSE Garbage
Decrypted(t) == [i \in 1..Len(t) |-> DecryptedUnit(t[i], StreamPos(i - 1))]

(* The context c, with n units behind it, is where a single call would be.   *)
InStream(c, n, m) == \A i \in 1..m : Place(c, i) = StreamPos(n + (i - 1))

(* Places are pairs of numbers.  *)
LEMMA StreamPosType == ASSUME NEW n \in Nat PROVE StreamPos(n) \in Nat \X Nat
<1>1. BlockUnits \in Nat /\ BlockUnits > 0
  BY CryptoAssumption
<1>2. n \div BlockUnits \in Nat /\ n % BlockUnits \in Nat
  BY <1>1, Division
<1> QED  BY <1>2 DEF StreamPos

(* GCM and ChaCha20 go on where they were ...  *)
LEMMA InStreamText ==
  ASSUME NEW c, c.algo # "ctr", c.cc = 0, NEW n \in Nat, Len(c.text) = n, NEW m \in Nat
  PROVE  InStream(c, n, m)
<1> SUFFICES ASSUME NEW i \in 1..m PROVE Place(c, i) = StreamPos(n + (i - 1))
  BY DEF InStream
<1> DEFINE at == Len(c.text) + i - 1
<1>1. at = n + (i - 1) /\ at \in Nat
  OBVIOUS
<1>2. Place(c, i) = <<c.cc + at \div BlockUnits, at % BlockUnits>>
  BY Zenon DEF Place, at
<1> HIDE DEF at
<1>3. at \div BlockUnits \in Nat
  BY <1>1, CryptoAssumption, Division
<1>4. c.cc + at \div BlockUnits = at \div BlockUnits
  BY <1>3
<1> QED  BY <1>1, <1>2, <1>4 DEF StreamPos

(* ... and AES-CTR does after whole blocks.  *)
LEMMA InStreamBlocks ==
  ASSUME NEW c, c.algo = "ctr", NEW n \in Nat, n % BlockUnits = 0, c.cc = n \div BlockUnits,
         NEW m \in Nat
  PROVE  InStream(c, n, m)
<1> SUFFICES ASSUME NEW i \in 1..m PROVE Place(c, i) = StreamPos(n + (i - 1))
  BY DEF InStream
<1>1. Place(c, i) = <<c.cc + (i - 1) \div BlockUnits, (i - 1) % BlockUnits>>
  BY Zenon DEF Place
<1>2. i - 1 \in Nat /\ BlockUnits \in Nat /\ BlockUnits > 0
  BY CryptoAssumption
<1>3. /\ (n + (i - 1)) \div BlockUnits = n \div BlockUnits + (i - 1) \div BlockUnits
      /\ (n + (i - 1)) % BlockUnits = (i - 1) % BlockUnits
  BY <1>2, WholeBlocks
<1> QED  BY <1>1, <1>3 DEF StreamPos

(* What is encrypted in pieces is encrypted as a whole, if each piece is in  *)
(* the stream where the whole would have it ...                              *)
LEMMA EncryptMore ==
  ASSUME NEW c, c.encrypt, NEW t \in Seq(Nat), NEW x \in Seq(Nat), InStream(c, Len(t), Len(x))
  PROVE  /\ Encrypted(t) \in Seq(EncUnits) /\ Len(Encrypted(t)) = Len(t)
         /\ Crypt(c, x) \in Seq(EncUnits) /\ Len(Crypt(c, x)) = Len(x)
         /\ Encrypted(t) \o Crypt(c, x) = Encrypted(t \o x)
<1> DEFINE a == Encrypted(t)
           b == Crypt(c, x)
           w == t \o x
           e == Encrypted(w)
<1>0. Len(t) \in Nat /\ Len(x) \in Nat /\ w \in Seq(Nat) /\ Len(w) = Len(t) + Len(x)
  OBVIOUS
<1>1. \A i \in 1..Len(t) : StreamPos(i - 1) \in Nat \X Nat /\ t[i] \in Nat
  <2> TAKE i \in 1..Len(t)
  <2>1. i - 1 \in Nat /\ t[i] \in Nat
    BY <1>0
  <2> QED  BY <2>1, StreamPosType, Zenon
<1>2. a \in [1..Len(t) -> EncUnits]
  BY <1>1 DEF Encrypted, EncUnits
<1>3. \A i \in 1..Len(x) : Place(c, i) = StreamPos(Len(t) + (i - 1)) /\ Place(c, i) \in Nat \X Nat
  <2> TAKE i \in 1..Len(x)
  <2>1. Len(t) + (i - 1) \in Nat
    BY <1>0
  <2> QED  BY <2>1, StreamPosType DEF InStream
<1>4. b = [i \in 1..Len(x) |-> <<x[i], Place(c, i)>>]
  <2>1. DOMAIN x = 1..Len(x)
    OBVIOUS
  <2> QED  BY <2>1 DEF Crypt
<1>5. b \in [1..Len(x) -> EncUnits]
  <2>1. \A i \in 1..Len(x) : x[i] \in Nat
    OBVIOUS
  <2> QED  BY <1>3, <1>4, <2>1 DEF EncUnits
<1>6. a \in Seq(EncUnits) /\ Len(a) = Len(t) /\ b \in Seq(EncUnits) /\ Len(b) = Len(x)
  <2> HIDE DEF a, b
  <2> QED  BY <1>0, <1>2, <1>5, SeqOfFunction
<1>7. e = [i \in 1..Len(w) |-> <<w[i], StreamPos(i - 1)>>]
  BY DEF Encrypted
<1>8. \A i \in 1..Len(w) : w[i] \in Nat /\ StreamPos(i - 1) \in Nat \X Nat
  <2> TAKE i \in 1..Len(w)
  <2> HIDE DEF w
  <2>1. i - 1 \in Nat /\ w[i] \in Nat
    BY <1>0
  <2> QED  BY <2>1, StreamPosType, Zenon
<1>9. e \in Seq(EncUnits) /\ Len(e) = Len(w)
  <2>1. e \in [1..Len(w) -> EncUnits]
    BY <1>7, <1>8 DEF EncUnits
  <2>2. Len(w) \in Nat
    BY <1>0
  <2> HIDE DEF e, w
  <2> QED  BY <2>1, <2>2, SeqOfFunction, Zenon
<1>10. \A i \in 1..Len(t) : w[i] = t[i]
  BY <1>0
<1>11. \A i \in 1..Len(x) : w[Len(t) + i] = x[i]
  BY <1>0
<1>12. \A i \in 1..Len(t) : e[i] = a[i]
  <2> TAKE i \in 1..Len(t)
  <2>1. i \in 1..Len(w)
    BY <1>0
  <2>2. a[i] = <<t[i], StreamPos(i - 1)>>
    BY DEF Encrypted
  <2> QED  BY <1>7, <1>10, <2>1, <2>2
<1>13. \A i \in 1..Len(x) : e[Len(t) + i] = b[i]
  <2> TAKE i \in 1..Len(x)
  <2>1. Len(t) + i \in 1..Len(w) /\ (Len(t) + i) - 1 = Len(t) + (i - 1)
    BY <1>0
  <2> QED  BY <1>3, <1>4, <1>7, <1>11, <2>1
<1> HIDE DEF a, b, w, e
<1>14. a \o b = e
  <2>1. Len(e) = Len(a) + Len(b) /\ Len(a) = Len(t) /\ Len(b) = Len(x)
    BY <1>0, <1>6, <1>9
  <2>2. /\ \A i \in 1..Len(a) : e[i] = a[i]
        /\ \A i \in 1..Len(b) : e[Len(a) + i] = b[i]
    BY <1>12, <1>13, <2>1
  <2> QED  BY <1>6, <1>9, <2>1, <2>2, JoinIs, Zenon
<1> QED  BY <1>6, <1>14 DEF a, b, w, e

(* A unit decrypts to a number.  *)
LEMMA DecryptedUnitType ==
  ASSUME NEW u \in EncUnits, NEW place PROVE DecryptedUnit(u, place) \in Nat
BY DEF EncUnits, DecryptedUnit, Garbage

LEMMA DecryptedType ==
  ASSUME NEW t \in Seq(EncUnits) PROVE Decrypted(t) \in Seq(Nat)
<1> DEFINE d == Decrypted(t)
<1>1. Len(t) \in Nat /\ \A i \in 1..Len(t) : t[i] \in EncUnits
  OBVIOUS
<1>2. \A i \in 1..Len(t) : DecryptedUnit(t[i], StreamPos(i - 1)) \in Nat
  BY <1>1, DecryptedUnitType, Zenon
<1>3. d \in [1..Len(t) -> Nat]
  BY <1>2 DEF Decrypted
<1> HIDE DEF d
<1>4. d \in Seq(Nat)
  BY <1>1, <1>3, SeqOfFunction, Zenon
<1> QED  BY <1>4 DEF d

(* ... and so for what is decrypted.  *)
LEMMA DecryptMore ==
  ASSUME NEW c, ~c.encrypt, NEW t \in Seq(EncUnits), NEW x \in Seq(EncUnits),
         InStream(c, Len(t), Len(x))
  PROVE  /\ Decrypted(t) \in Seq(Nat) /\ Len(Decrypted(t)) = Len(t)
         /\ Crypt(c, x) \in Seq(Nat) /\ Len(Crypt(c, x)) = Len(x)
         /\ Decrypted(t) \o Crypt(c, x) = Decrypted(t \o x)
<1> DEFINE U == EncUnits
           a == Decrypted(t)
           b == Crypt(c, x)
           w == t \o x
           e == Decrypted(w)
<1>0. Len(t) \in Nat /\ Len(x) \in Nat /\ t \in Seq(U) /\ x \in Seq(U)
  OBVIOUS
<1>1. w \in Seq(U) /\ Len(w) = Len(t) + Len(x) /\ Len(w) \in Nat
  <2> HIDE DEF U
  <2> QED  BY <1>0
<1>2. a = [i \in 1..Len(t) |-> DecryptedUnit(t[i], StreamPos(i - 1))]
  BY DEF Decrypted
<1>3. b = [i \in 1..Len(x) |-> DecryptedUnit(x[i], Place(c, i))]
  <2>1. DOMAIN x = 1..Len(x)
    OBVIOUS
  <2> QED  BY <2>1 DEF Crypt, DecryptedUnit
<1>4. e = [i \in 1..Len(w) |-> DecryptedUnit(w[i], StreamPos(i - 1))]
  BY DEF Decrypted
<1>5. /\ \A i \in 1..Len(t) : t[i] \in U
      /\ \A i \in 1..Len(x) : x[i] \in U
      /\ \A i \in 1..Len(w) : w[i] \in U
  <2> HIDE DEF U, w
  <2> QED  BY <1>0, <1>1
<1>6. \A u \in U : \A q : DecryptedUnit(u, q) \in Nat
  BY DecryptedUnitType
<1> HIDE DEF U
<1>7. a \in [1..Len(t) -> Nat] /\ b \in [1..Len(x) -> Nat] /\ e \in [1..Len(w) -> Nat]
  <2> HIDE DEF w
  <2>1. a \in [1..Len(t) -> Nat]
    BY <1>2, <1>5, <1>6
  <2>2. b \in [1..Len(x) -> Nat]
    BY <1>3, <1>5, <1>6
  <2>3. e \in [1..Len(w) -> Nat]
    BY <1>4, <1>5, <1>6
  <2> QED  BY <2>1, <2>2, <2>3
<1>8. \A i \in 1..Len(t) : w[i] = t[i]
  BY <1>0
<1>9. \A i \in 1..Len(x) : w[Len(t) + i] = x[i]
  BY <1>0
<1> HIDE DEF a, b, w, e
<1>10. /\ a \in Seq(Nat) /\ Len(a) = Len(t) /\ b \in Seq(Nat) /\ Len(b) = Len(x)
       /\ e \in Seq(Nat) /\ Len(e) = Len(w)
  BY <1>0, <1>1, <1>7, SeqOfFunction, Zenon
<1>11. \A i \in 1..Len(t) : e[i] = a[i]
  <2> TAKE i \in 1..Len(t)
  <2>1. i \in 1..Len(w)
    BY <1>0, <1>1
  <2> QED  BY <1>2, <1>4, <1>8, <2>1
<1>12. \A i \in 1..Len(x) : e[Len(t) + i] = b[i]
  <2> TAKE i \in 1..Len(x)
  <2>1. Len(t) + i \in 1..Len(w) /\ (Len(t) + i) - 1 = Len(t) + (i - 1)
    BY <1>0, <1>1
  <2>2. Place(c, i) = StreamPos(Len(t) + (i - 1))
    BY DEF InStream
  <2> QED  BY <1>3, <1>4, <1>9, <2>1, <2>2
<1>13. a \o b = e
  <2>1. Len(e) = Len(a) + Len(b)
    BY <1>0, <1>1, <1>10
  <2>2. /\ \A i \in 1..Len(a) : e[i] = a[i]
        /\ \A i \in 1..Len(b) : e[Len(a) + i] = b[i]
    BY <1>10, <1>11, <1>12
  <2> QED  BY <1>10, <2>1, <2>2, JoinIs, Zenon
<1> QED  BY <1>10, <1>13 DEF a, b, w, e

(* Decryption undoes encryption.  *)
LEMMA DecryptEncrypted ==
  ASSUME NEW t \in Seq(Nat)
  PROVE  /\ Encrypted(t) \in Seq(EncUnits) /\ Len(Encrypted(t)) = Len(t)
         /\ Decrypted(Encrypted(t)) = t
<1> DEFINE a == Encrypted(t)
           d == Decrypted(a)
<1>0. Len(t) \in Nat /\ t = [i \in 1..Len(t) |-> t[i]]
  OBVIOUS
<1>1. a \in [1..Len(t) -> EncUnits]
  <2>1. \A i \in 1..Len(t) : i - 1 \in Nat /\ t[i] \in Nat
    BY <1>0
  <2>2. \A i \in 1..Len(t) : StreamPos(i - 1) \in Nat \X Nat
    BY <2>1, StreamPosType, Zenon
  <2> QED  BY <2>1, <2>2 DEF Encrypted, EncUnits
<1>2. \A i \in 1..Len(t) : a[i][1] = t[i] /\ a[i][2] = StreamPos(i - 1)
  BY DEF Encrypted
<1> HIDE DEF a
<1>3. a \in Seq(EncUnits) /\ Len(a) = Len(t)
  BY <1>0, <1>1, SeqOfFunction
<1>4. d = [i \in 1..Len(t) |-> DecryptedUnit(a[i], StreamPos(i - 1))]
  BY <1>3 DEF Decrypted
<1>5. \A i \in 1..Len(t) : DecryptedUnit(a[i], StreamPos(i - 1)) = t[i]
  BY <1>2 DEF DecryptedUnit
<1> HIDE DEF d
<1>6. d = t
  BY <1>0, <1>4, <1>5
<1> QED  BY <1>3, <1>6 DEF a, d

(* Nothing is encrypted to nothing.  *)
LEMMA EncryptedNothing == Encrypted(<<>>) = <<>> /\ Decrypted(<<>>) = <<>>
BY DEF Encrypted, Decrypted

(* The plaintext.  *)
LEMMA PlainType == Plain \in Seq(Nat) /\ Len(Plain) = CrUnits /\ \A i \in 1..CrUnits : Plain[i] = i
<1>1. CrUnits \in Nat
  BY CryptoAssumption
<1>2. Plain \in [1..CrUnits -> Nat] /\ \A i \in 1..CrUnits : Plain[i] = i
  BY <1>1 DEF Plain
<1> QED  BY <1>1, <1>2, SeqOfFunction

(* A context, and what a call changes in it.  *)
CipherFields == {"algo", "encrypt", "cc", "flipped", "aad", "text", "data", "gets", "tag"}
IsCipher(c) == c = [f \in CipherFields |-> c[f]] /\ c.algo \in Ciphers

Updates(c, chunk, u) ==
  /\ IsCipher(u.c) /\ u.c.algo = c.algo /\ u.c.encrypt = c.encrypt
  /\ u.c.aad = c.aad /\ u.c.gets = c.gets /\ u.c.tag = c.tag
  /\ c.algo = "chapoly" => /\ u.c.data = c.data \o chunk /\ u.c.text = c.text
                           /\ u.c.cc = c.cc /\ u.out = <<>>
  /\ c.algo # "chapoly" => u.c.text = c.text \o Covered(c, chunk) /\ u.out = Crypt(c, chunk)
  /\ c.algo = "gcm" => u.c.cc = c.cc
  /\ c.algo = "ctr" => u.c.cc = c.cc + (Len(chunk) + BlockUnits - 1) \div BlockUnits

LEMMA UpdateFields ==
  ASSUME NEW c, IsCipher(c), NEW chunk
  PROVE  Updates(c, chunk, CipherUpdate(c, chunk))
<1> DEFINE u == CipherUpdate(c, chunk)
           data == c.data \o chunk
           text == c.text \o Covered(c, chunk)
           more == c.cc + (Len(chunk) + BlockUnits - 1) \div BlockUnits
           cc == IF c.algo = "ctr" THEN more ELSE c.cc
           out == Crypt(c, chunk)
<1>0. c = [f \in CipherFields |-> c[f]] /\ c.algo \in Ciphers
  BY DEF IsCipher
<1>1. CASE c.algo = "chapoly"
  <2>1. u = [c |-> [c EXCEPT !.data = data], out |-> <<>>]
    BY <1>1 DEF CipherUpdate
  <2> HIDE DEF data, text, more, out, u
  <2>2. u.c = [c EXCEPT !.data = data] /\ u.out = <<>>
    BY <2>1
  <2>3. /\ IsCipher(u.c) /\ u.c.algo = c.algo /\ u.c.encrypt = c.encrypt
        /\ u.c.aad = c.aad /\ u.c.gets = c.gets /\ u.c.tag = c.tag
        /\ u.c.data = data /\ u.c.text = c.text /\ u.c.cc = c.cc
    BY <1>0, <2>2 DEF IsCipher, CipherFields
  <2> QED  BY <1>1, <2>2, <2>3 DEF u, data, Updates
<1>2. CASE c.algo # "chapoly"
  <2>1. u = [c |-> [c EXCEPT !.flipped = TRUE, !.text = text, !.cc = cc], out |-> out]
    BY <1>2, Zenon DEF CipherUpdate
  <2> HIDE DEF data, text, cc, more, out, u
  <2>2. u.c = [c EXCEPT !.flipped = TRUE, !.text = text, !.cc = cc] /\ u.out = out
    BY <2>1
  <2>3. /\ IsCipher(u.c) /\ u.c.algo = c.algo /\ u.c.encrypt = c.encrypt
        /\ u.c.aad = c.aad /\ u.c.gets = c.gets /\ u.c.tag = c.tag
        /\ u.c.data = c.data /\ u.c.text = text /\ u.c.cc = cc
    BY <1>0, <2>2 DEF IsCipher, CipherFields
  <2>4. /\ c.algo = "gcm" => cc = c.cc
        /\ c.algo = "ctr" => cc = more
    BY DEF cc
  <2> QED  BY <1>2, <2>2, <2>3, <2>4 DEF u, text, more, out, Updates
<1> QED  BY <1>1, <1>2

(* AES-CTR, n units into the text with todo to come, is at a block of its    *)
(* own.                                                                      *)
Aligned(cc, n, todo) == todo # <<>> => n % BlockUnits = 0 /\ cc = n \div BlockUnits

(* Two parts are the whole.  *)
Joins(a, b, whole) == a \o b = whole

(* A piece goes from the second part to the first.  *)
LEMMA PieceMoves ==
  ASSUME NEW S, NEW a \in Seq(S), NEW x \in Seq(S), NEW r \in Seq(S), NEW b, NEW whole,
         Joins(x, r, b), Joins(a, b, whole)
  PROVE  /\ a \o x \in Seq(S) /\ Len(a \o x) = Len(a) + Len(x)
         /\ Joins(a \o x, r, whole)
<1>1. (a \o x) \o r = a \o (x \o r)
  OBVIOUS
<1> QED  BY <1>1, ConcatType, LenOfConcat, Zenon DEF Joins

(* While one side encrypts: done is encrypted, or for ChaCha20-Poly1305      *)
(* collected, as if in one call, and a tag was only made by misuse.          *)
SentOK(s, done) ==
  /\ s.use = "gcm" => s.enc.text = Encrypted(done) /\ s.sent = Encrypted(done) /\ s.enc.cc = 0
  /\ s.use = "ctr" => /\ s.sent \in Seq(EncUnits) /\ s.enc.cc \in Nat
                      /\ ~s.uneven => /\ s.sent = Encrypted(done)
                                      /\ Aligned(s.enc.cc, Len(done), s.todo)
  /\ s.use = "chapoly" => /\ s.enc.data = done /\ s.enc.text = <<>> /\ s.sent = <<>>
                          /\ s.enc.cc = 0
SendOK(s) ==
  /\ IsCipher(s.enc) /\ s.enc.algo = s.use /\ s.enc.encrypt
  /\ \/ s.enc.tag = <<>> /\ s.enc.gets = 0
     \/ s.enc.tag # <<>> /\ s.enc.gets = 1 /\ s.misused
  /\ s.dec = NewCipher(s.use, FALSE) /\ s.got = <<>> /\ ~s.asked
  /\ s.todo \in Seq(Nat)
  /\ \E done \in Seq(Nat) : Joins(done, s.todo, Plain) /\ SentOK(s, done)

(* While the other side decrypts: done is decrypted, or collected.  The tag  *)
(* that came is of the text that was sent, or the tag was changed on the     *)
(* way.                                                                      *)
GotOK(s, done) ==
  /\ s.use = "gcm" => s.dec.text = done /\ s.got = Decrypted(done) /\ s.dec.cc = 0
  /\ s.use = "ctr" => s.dec.cc \in Nat /\ (~s.uneven => /\ s.got = Decrypted(done)
                                                       /\ Aligned(s.dec.cc, Len(done), s.todo))
  /\ s.use = "chapoly" => s.dec.data = done /\ s.dec.text = <<>> /\ s.got = <<>> /\ s.dec.cc = 0
TagOK(s) ==
  \/ s.tampered /\ s.tag = <<"other">>
  \/ \E g : s.tag = <<s.enc.aad, s.sent, g>> /\ (~s.misused => g = 0)
ArrivedOK(s, arrived) ==
  /\ ~s.tampered => arrived = s.sent
  /\ s.tampered /\ s.use # "ctr" => s.tag = <<"other">> \/ arrived # s.sent
ReceiveOK(s) ==
  /\ IsCipher(s.dec) /\ s.dec.algo = s.use /\ ~s.dec.encrypt /\ s.dec.gets = 0
  /\ s.asked => s.pending = s.tag /\ s.use # "ctr"
  /\ s.use # "ctr" \/ ~s.uneven => s.sent = Encrypted(Plain)
  /\ s.use # "ctr" => TagOK(s)
  /\ s.todo \in Seq(EncUnits)
  /\ \E done \in Seq(EncUnits) : \E arrived :
       Joins(done, s.todo, arrived) /\ ArrivedOK(s, arrived) /\ GotOK(s, done)

(* A call after whole blocks, or the last one.  *)
LEMMA StaysAligned ==
  ASSUME NEW S, NEW todo \in Seq(S), NEW n \in 1..Len(todo), NEW d \in Nat, NEW cc \in Nat,
         Aligned(cc, d, todo), n = Len(todo) \/ n % BlockUnits = 0
  PROVE  Aligned(cc + (n + BlockUnits - 1) \div BlockUnits, d + n, SubSeq(todo, n + 1, Len(todo)))
<1> DEFINE rest == SubSeq(todo, n + 1, Len(todo))
           B == BlockUnits
<1>0. B \in Nat /\ B > 0 /\ n \in Nat /\ n > 0 /\ n =< Len(todo) /\ Len(todo) \in Nat
  BY CryptoAssumption
<1>1. todo # <<>>
  BY <1>0
<1>2. d % B = 0 /\ cc = d \div B
  BY <1>1 DEF Aligned
<1>3. Len(rest) = Len(todo) - n
  BY <1>0, Cut
<1>4. CASE n = Len(todo)
  <2>1. rest = <<>>
    BY <1>0, <1>3, <1>4
  <2> QED  BY <2>1 DEF Aligned
<1>5. CASE n % B = 0
  <2> HIDE DEF B
  <2>1. (d + n) \div B = d \div B + n \div B /\ (d + n) % B = 0
    BY <1>0, <1>2, <1>5, WholeBlocks
  <2>2. (n + (B - 1)) \div B = n \div B
    BY <1>0, <1>5, WholeBlocks
  <2>3. n + (B - 1) = n + B - 1
    BY <1>0
  <2>4. cc + (n + B - 1) \div B = (d + n) \div B
    BY <1>2, <2>1, <2>2, <2>3
  <2> QED  BY <2>1, <2>4 DEF Aligned, B
<1> QED  BY <1>4, <1>5

(* A piece of the stream is of the right kind, wherever it is.  *)
LEMMA CryptType ==
  ASSUME NEW c, c.encrypt, c.algo = "ctr", c.cc \in Nat, NEW x \in Seq(Nat)
  PROVE  Crypt(c, x) \in Seq(EncUnits)
<1> DEFINE b == Crypt(c, x)
<1>0. Len(x) \in Nat /\ DOMAIN x = 1..Len(x) /\ \A i \in 1..Len(x) : x[i] \in Nat
  OBVIOUS
<1>1. b = [i \in 1..Len(x) |-> <<x[i], Place(c, i)>>]
  BY <1>0 DEF Crypt
<1>2. \A i \in 1..Len(x) : Place(c, i) \in Nat \X Nat
  <2> TAKE i \in 1..Len(x)
  <2>1. Place(c, i) = <<c.cc + (i - 1) \div BlockUnits, (i - 1) % BlockUnits>>
    BY Zenon DEF Place
  <2>2. i - 1 \in Nat /\ BlockUnits \in Nat /\ BlockUnits > 0
    BY <1>0, CryptoAssumption
  <2>3. (i - 1) \div BlockUnits \in Nat /\ (i - 1) % BlockUnits \in Nat
    BY <2>2, Division
  <2>4. c.cc + (i - 1) \div BlockUnits \in Nat
    BY <2>3
  <2> QED  BY <2>1, <2>3, <2>4
<1>3. b \in [1..Len(x) -> EncUnits]
  BY <1>0, <1>1, <1>2 DEF EncUnits
<1> HIDE DEF b
<1>4. b \in Seq(EncUnits)
  BY <1>0, <1>3, SeqOfFunction, Zenon
<1> QED  BY <1>4 DEF b

(* cc counts blocks.  *)
LEMMA MoreBlocks ==
  ASSUME NEW cc \in Nat, NEW n \in Nat
  PROVE  cc + (n + BlockUnits - 1) \div BlockUnits \in Nat
<1>1. n + BlockUnits - 1 \in Nat /\ BlockUnits \in Nat /\ BlockUnits > 0
  BY CryptoAssumption
<1>2. (n + BlockUnits - 1) \div BlockUnits \in Nat
  BY <1>1, Division
<1> QED  BY <1>2

(* update() of the side that encrypts.  *)
LEMMA SendMore ==
  ASSUME NEW s, NEW t, SendOK(s), s.use \in Ciphers, NEW n \in 1..Len(s.todo),
         t.use = s.use, t.asked = s.asked, t.got = s.got, t.dec = s.dec, t.misused = s.misused,
         t.todo = SubSeq(s.todo, n + 1, Len(s.todo)),
         ~t.uneven => ~s.uneven /\ (n = Len(s.todo) \/ n % BlockUnits = 0),
         t.enc = CipherUpdate(s.enc, SubSeq(s.todo, 1, n)).c,
         t.sent = s.sent \o CipherUpdate(s.enc, SubSeq(s.todo, 1, n)).out
  PROVE  SendOK(t)
<1> DEFINE c == s.enc
           x == SubSeq(s.todo, 1, n)
           u == CipherUpdate(c, x)
<1>0. IsCipher(c) /\ c.algo = s.use /\ c.encrypt /\ s.todo \in Seq(Nat)
  BY DEF SendOK
<1>1. PICK done \in Seq(Nat) : Joins(done, s.todo, Plain) /\ SentOK(s, done)
  BY DEF SendOK
<1>2. n \in 0..Len(s.todo) /\ n \in Nat /\ Len(done) \in Nat
  BY <1>0
<1>3. /\ x \in Seq(Nat) /\ Len(x) = n /\ t.todo \in Seq(Nat) /\ Joins(x, t.todo, s.todo)
  BY <1>0, <1>2, Cut DEF Joins
<1>4. Updates(c, x, u)
  BY <1>0, UpdateFields, Zenon
<1>a. t.enc = u.c /\ t.sent = s.sent \o u.out
  OBVIOUS
<1> HIDE DEF u, x
<1> DEFINE more == done \o x
<1>5. more \in Seq(Nat) /\ Joins(more, t.todo, Plain) /\ Len(more) = Len(done) + n
  BY <1>1, <1>3, PieceMoves
<1>6. SentOK(t, more)
  <2>1. CASE s.use = "gcm"
    <3>1. c.text = Encrypted(done) /\ s.sent = Encrypted(done) /\ c.cc = 0 /\ c.algo # "ctr"
      BY <1>0, <1>1, <2>1 DEF SentOK
    <3>2. Len(c.text) = Len(done)
      BY <3>1, DecryptEncrypted
    <3>3. InStream(c, Len(done), Len(x))
      BY <1>2, <1>3, <3>1, <3>2, InStreamText
    <3>4. Encrypted(done) \o Crypt(c, x) = Encrypted(more)
      BY <1>0, <1>3, <3>3, EncryptMore
    <3>5. Covered(c, x) = Crypt(c, x)
      BY <1>0 DEF Covered
    <3>6. c.algo = "gcm" /\ c.algo # "chapoly" /\ t.use = "gcm"
      BY <1>0, <2>1
    <3>7. t.enc.text = Encrypted(more) /\ t.sent = Encrypted(more) /\ t.enc.cc = 0
      BY <1>4, <1>a, <3>1, <3>4, <3>5, <3>6, Zenon DEF Updates
    <3> HIDE DEF more
    <3> QED  BY <3>6, <3>7 DEF SentOK
  <2>2. CASE s.use = "ctr"
    <3>1. /\ s.sent \in Seq(EncUnits) /\ c.cc \in Nat /\ c.algo = "ctr" /\ c.algo # "chapoly"
          /\ ~s.uneven => s.sent = Encrypted(done) /\ Aligned(c.cc, Len(done), s.todo)
      BY <1>0, <1>1, <2>2 DEF SentOK
    <3>2. t.sent = s.sent \o Crypt(c, x) /\ t.enc.cc = c.cc + (n + BlockUnits - 1) \div BlockUnits
      BY <1>3, <1>4, <1>a, <3>1 DEF Updates
    <3>3. t.enc.cc \in Nat
      BY <1>2, <3>1, <3>2, MoreBlocks
    <3>4. t.sent \in Seq(EncUnits)
      <4>1. Crypt(c, x) \in Seq(EncUnits)
        BY <1>0, <1>3, <3>1, CryptType
      <4> QED  BY <3>1, <3>2, <4>1, ConcatType, Zenon
    <3>5. ASSUME ~t.uneven PROVE t.sent = Encrypted(more) /\ Aligned(t.enc.cc, Len(more), t.todo)
      <4>1. /\ ~s.uneven /\ s.sent = Encrypted(done) /\ Aligned(c.cc, Len(done), s.todo)
            /\ n = Len(s.todo) \/ n % BlockUnits = 0
        BY <3>1, <3>5
      <4>2. Aligned(t.enc.cc, Len(done) + n, t.todo)
        BY <1>0, <1>2, <3>1, <3>2, <4>1, StaysAligned
      <4>3. s.todo # <<>>
        BY <1>0, <1>2
      <4>4. Len(done) % BlockUnits = 0 /\ c.cc = Len(done) \div BlockUnits
        BY <4>1, <4>3 DEF Aligned
      <4>5. InStream(c, Len(done), Len(x))
        BY <1>2, <1>3, <3>1, <4>4, InStreamBlocks
      <4>6. Encrypted(done) \o Crypt(c, x) = Encrypted(more)
        BY <1>0, <1>3, <4>5, EncryptMore
      <4> QED  BY <1>5, <3>2, <4>1, <4>2, <4>6
    <3>6. t.use = "ctr"
      BY <2>2
    <3> HIDE DEF more
    <3> QED  BY <3>3, <3>4, <3>5, <3>6 DEF SentOK
  <2>3. CASE s.use = "chapoly"
    <3>1. c.data = done /\ c.text = <<>> /\ s.sent = <<>> /\ c.cc = 0 /\ c.algo = "chapoly"
      BY <1>0, <1>1, <2>3 DEF SentOK
    <3>2. t.enc.data = more /\ t.enc.text = <<>> /\ t.enc.cc = 0 /\ t.sent = <<>> \o <<>>
      BY <1>4, <1>a, <3>1 DEF Updates
    <3>a. <<>> \o <<>> = <<>>
      BY ConcatEmpty
    <3>3. t.sent = <<>> /\ t.use = "chapoly"
      BY <2>3, <3>2, <3>a, Zenon
    <3> HIDE DEF more
    <3> QED  BY <3>2, <3>3 DEF SentOK
  <2> QED  BY <2>1, <2>2, <2>3 DEF Ciphers
<1> HIDE DEF more
<1>7. \/ t.enc.tag = <<>> /\ t.enc.gets = 0
      \/ t.enc.tag # <<>> /\ t.enc.gets = 1 /\ t.misused
  BY <1>4, <1>a DEF SendOK, Updates
<1>8. IsCipher(t.enc) /\ t.enc.algo = t.use /\ t.enc.encrypt
  BY <1>0, <1>4, <1>a DEF Updates
<1>9. t.dec = NewCipher(t.use, FALSE) /\ t.got = <<>> /\ ~t.asked
  BY DEF SendOK
<1> QED  BY <1>3, <1>5, <1>6, <1>7, <1>8, <1>9 DEF SendOK

(* update() of the side that decrypts.  *)
LEMMA ReceiveMore ==
  ASSUME NEW s, NEW t, ReceiveOK(s), s.use \in Ciphers, NEW n \in 1..Len(s.todo),
         t.use = s.use, t.asked = s.asked, t.pending = s.pending, t.tag = s.tag, t.sent = s.sent,
         t.tampered = s.tampered, t.misused = s.misused, t.enc = s.enc,
         t.todo = SubSeq(s.todo, n + 1, Len(s.todo)),
         ~t.uneven => ~s.uneven /\ (n = Len(s.todo) \/ n % BlockUnits = 0),
         t.dec = CipherUpdate(s.dec, SubSeq(s.todo, 1, n)).c,
         t.got = s.got \o CipherUpdate(s.dec, SubSeq(s.todo, 1, n)).out
  PROVE  ReceiveOK(t)
<1> DEFINE c == s.dec
           x == SubSeq(s.todo, 1, n)
           u == CipherUpdate(c, x)
           U == EncUnits
<1>0. IsCipher(c) /\ c.algo = s.use /\ ~c.encrypt /\ s.todo \in Seq(U) /\ c.gets = 0
  BY DEF ReceiveOK
<1>1. PICK done \in Seq(U) : \E arrived :
        Joins(done, s.todo, arrived) /\ ArrivedOK(s, arrived) /\ GotOK(s, done)
  BY DEF ReceiveOK
<1>b. PICK arrived : Joins(done, s.todo, arrived) /\ ArrivedOK(s, arrived) /\ GotOK(s, done)
  BY <1>1
<1> HIDE DEF U
<1>2. n \in 0..Len(s.todo) /\ n \in Nat /\ Len(done) \in Nat
  BY <1>0
<1>3. /\ x \in Seq(U) /\ Len(x) = n /\ t.todo \in Seq(U) /\ Joins(x, t.todo, s.todo)
  BY <1>0, <1>2, Cut DEF Joins
<1>4. Updates(c, x, u)
  BY <1>0, UpdateFields, Zenon
<1>a. t.dec = u.c /\ t.got = s.got \o u.out
  OBVIOUS
<1> HIDE DEF u, x
<1> DEFINE more == done \o x
<1>5. more \in Seq(U) /\ Joins(more, t.todo, arrived) /\ Len(more) = Len(done) + n
  BY <1>b, <1>3, PieceMoves
<1>6. GotOK(t, more)
  <2>1. CASE s.use = "gcm"
    <3>1. c.text = done /\ s.got = Decrypted(done) /\ c.cc = 0 /\ c.algo # "ctr"
      BY <1>0, <1>b, <2>1 DEF GotOK
    <3>3. InStream(c, Len(done), Len(x))
      BY <1>2, <1>3, <3>1, InStreamText
    <3>4. Decrypted(done) \o Crypt(c, x) = Decrypted(more)
      BY <1>0, <1>3, <3>3, DecryptMore DEF U
    <3>5. Covered(c, x) = x
      BY <1>0 DEF Covered
    <3>6. c.algo = "gcm" /\ c.algo # "chapoly" /\ t.use = "gcm"
      BY <1>0, <2>1
    <3>7. t.dec.text = more /\ t.got = Decrypted(more) /\ t.dec.cc = 0
      BY <1>4, <1>a, <3>1, <3>4, <3>5, <3>6, Zenon DEF Updates
    <3> HIDE DEF more
    <3> QED  BY <3>6, <3>7 DEF GotOK
  <2>2. CASE s.use = "ctr"
    <3>1. /\ c.cc \in Nat /\ c.algo = "ctr" /\ c.algo # "chapoly"
          /\ ~s.uneven => s.got = Decrypted(done) /\ Aligned(c.cc, Len(done), s.todo)
      BY <1>0, <1>b, <2>2 DEF GotOK
    <3>2. t.got = s.got \o Crypt(c, x) /\ t.dec.cc = c.cc + (n + BlockUnits - 1) \div BlockUnits
      BY <1>3, <1>4, <1>a, <3>1 DEF Updates
    <3>3. t.dec.cc \in Nat
      BY <1>2, <3>1, <3>2, MoreBlocks
    <3>5. ASSUME ~t.uneven PROVE t.got = Decrypted(more) /\ Aligned(t.dec.cc, Len(more), t.todo)
      <4>1. /\ ~s.uneven /\ s.got = Decrypted(done) /\ Aligned(c.cc, Len(done), s.todo)
            /\ n = Len(s.todo) \/ n % BlockUnits = 0
        BY <3>1, <3>5
      <4>2. Aligned(t.dec.cc, Len(done) + n, t.todo)
        BY <1>0, <1>2, <3>1, <3>2, <4>1, StaysAligned
      <4>3. s.todo # <<>>
        BY <1>0, <1>2
      <4>4. Len(done) % BlockUnits = 0 /\ c.cc = Len(done) \div BlockUnits
        BY <4>1, <4>3 DEF Aligned
      <4>5. InStream(c, Len(done), Len(x))
        BY <1>2, <1>3, <3>1, <4>4, InStreamBlocks
      <4>6. Decrypted(done) \o Crypt(c, x) = Decrypted(more)
        BY <1>0, <1>3, <4>5, DecryptMore DEF U
      <4> QED  BY <1>5, <3>2, <4>1, <4>2, <4>6
    <3>6. t.use = "ctr"
      BY <2>2
    <3> HIDE DEF more
    <3> QED  BY <3>3, <3>5, <3>6 DEF GotOK
  <2>3. CASE s.use = "chapoly"
    <3>1. c.data = done /\ c.text = <<>> /\ s.got = <<>> /\ c.cc = 0 /\ c.algo = "chapoly"
      BY <1>0, <1>b, <2>3 DEF GotOK
    <3>2. t.dec.data = more /\ t.dec.text = <<>> /\ t.dec.cc = 0 /\ t.got = <<>> \o <<>>
      BY <1>4, <1>a, <3>1 DEF Updates
    <3>a. <<>> \o <<>> = <<>>
      BY ConcatEmpty
    <3>3. t.got = <<>> /\ t.use = "chapoly"
      BY <2>3, <3>2, <3>a, Zenon
    <3> HIDE DEF more
    <3> QED  BY <3>2, <3>3 DEF GotOK
  <2> QED  BY <2>1, <2>2, <2>3 DEF Ciphers
<1> HIDE DEF more
<1>7. ArrivedOK(t, arrived)
  BY <1>b DEF ArrivedOK
<1>8. IsCipher(t.dec) /\ t.dec.algo = t.use /\ ~t.dec.encrypt /\ t.dec.gets = 0
  BY <1>0, <1>4, <1>a DEF Updates
<1>9. /\ t.asked => t.pending = t.tag /\ t.use # "ctr"
      /\ t.use # "ctr" \/ ~t.uneven => t.sent = Encrypted(Plain)
      /\ t.use # "ctr" => TagOK(t)
  BY DEF ReceiveOK, TagOK
<1> QED  BY <1>3, <1>5, <1>6, <1>7, <1>8, <1>9 DEF ReceiveOK, U

(* setAAD and getAuthTag leave text and stream alone.  *)
LEMMA SendOther ==
  ASSUME NEW s, NEW t, SendOK(s),
         t.use = s.use, t.asked = s.asked, t.got = s.got, t.dec = s.dec, t.todo = s.todo,
         t.uneven = s.uneven, t.sent = s.sent, s.misused => t.misused,
         IsCipher(t.enc), t.enc.algo = s.enc.algo, t.enc.encrypt = s.enc.encrypt,
         t.enc.text = s.enc.text, t.enc.cc = s.enc.cc, t.enc.data = s.enc.data,
         \/ t.enc.tag = s.enc.tag /\ t.enc.gets = s.enc.gets
         \/ t.enc.tag # <<>> /\ s.enc.tag = <<>> /\ t.enc.gets = s.enc.gets + 1 /\ t.misused
  PROVE  SendOK(t)
<1>1. PICK done \in Seq(Nat) : Joins(done, s.todo, Plain) /\ SentOK(s, done)
  BY DEF SendOK
<1>2. SentOK(t, done)
  BY <1>1 DEF SentOK
<1>3. \/ t.enc.tag = <<>> /\ t.enc.gets = 0
      \/ t.enc.tag # <<>> /\ t.enc.gets = 1 /\ t.misused
  BY DEF SendOK
<1>4. IsCipher(t.enc) /\ t.enc.algo = t.use /\ t.enc.encrypt
  BY DEF SendOK
<1>5. t.dec = NewCipher(t.use, FALSE) /\ t.got = <<>> /\ ~t.asked /\ t.todo \in Seq(Nat)
  BY DEF SendOK
<1> QED  BY <1>1, <1>2, <1>3, <1>4, <1>5 DEF SendOK

LEMMA ReceiveOther ==
  ASSUME NEW s, NEW t, ReceiveOK(s),
         t.use = s.use, t.tag = s.tag, t.sent = s.sent, t.got = s.got, t.todo = s.todo,
         t.tampered = s.tampered, s.misused => t.misused, t.uneven = s.uneven, t.enc = s.enc,
         t.asked => t.pending = t.tag /\ t.use # "ctr",
         IsCipher(t.dec), t.dec.algo = s.dec.algo, t.dec.encrypt = s.dec.encrypt,
         t.dec.text = s.dec.text, t.dec.cc = s.dec.cc, t.dec.data = s.dec.data,
         t.dec.gets = s.dec.gets
  PROVE  ReceiveOK(t)
<1>1. PICK done \in Seq(EncUnits) : \E arrived :
        Joins(done, s.todo, arrived) /\ ArrivedOK(s, arrived) /\ GotOK(s, done)
  BY DEF ReceiveOK
<1>2. PICK arrived : Joins(done, s.todo, arrived) /\ ArrivedOK(s, arrived) /\ GotOK(s, done)
  BY <1>1
<1>3. GotOK(t, done)
  BY <1>2 DEF GotOK
<1>4. ArrivedOK(t, arrived)
  BY <1>2 DEF ArrivedOK
<1>5. IsCipher(t.dec) /\ t.dec.algo = t.use /\ ~t.dec.encrypt /\ t.dec.gets = 0
  BY DEF ReceiveOK
<1>6. /\ t.use # "ctr" \/ ~t.uneven => t.sent = Encrypted(Plain)
      /\ t.use # "ctr" => TagOK(t)
      /\ t.todo \in Seq(EncUnits)
  BY DEF ReceiveOK, TagOK
<1> QED  BY <1>2, <1>3, <1>4, <1>5, <1>6 DEF ReceiveOK

(* What final() changes.  *)
Finals(c, f) ==
  /\ IsCipher(f.c) /\ f.c.algo = c.algo /\ f.c.encrypt = c.encrypt /\ f.c.aad = c.aad
  /\ c.algo = "gcm" => f.c.tag = <<c.aad, c.text, c.gets>> /\ f.c.gets = c.gets + 1 /\ f.out = <<>>
  /\ c.algo = "ctr" => f.c = c /\ f.out = <<>>
  /\ c.algo = "chapoly" => /\ f.c.tag = <<c.aad, Covered(c, c.data), c.gets>>
                           /\ f.c.gets = c.gets /\ f.out = Crypt(c, c.data)

LEMMA FinalFields ==
  ASSUME NEW c, IsCipher(c) PROVE Finals(c, CipherFinal(c))
<1> DEFINE f == CipherFinal(c)
           tag == <<c.aad, c.text, c.gets>>
           text == Covered(c, c.data)
           out == Crypt(c, c.data)
           more == c.gets + 1
           d == [c EXCEPT !.text = text, !.data = <<>>]
<1>0. c = [i \in CipherFields |-> c[i]] /\ c.algo \in Ciphers
  BY DEF IsCipher
<1>1. CASE c.algo = "gcm"
  <2>1. f = [c |-> [c EXCEPT !.flipped = TRUE, !.tag = tag, !.gets = more], out |-> <<>>]
    BY <1>1 DEF CipherFinal, Tag
  <2> HIDE DEF f, tag, more
  <2>2. f.c = [c EXCEPT !.flipped = TRUE, !.tag = tag, !.gets = more] /\ f.out = <<>>
    BY <2>1
  <2>3. /\ IsCipher(f.c) /\ f.c.algo = c.algo /\ f.c.encrypt = c.encrypt /\ f.c.aad = c.aad
        /\ f.c.tag = tag /\ f.c.gets = more
    BY <1>0, <2>2 DEF IsCipher, CipherFields
  <2> QED  BY <1>1, <2>2, <2>3 DEF Finals, f, tag, more
<1>2. CASE c.algo = "ctr"
  <2>1. f = [c |-> c, out |-> <<>>]
    BY <1>2 DEF CipherFinal
  <2> HIDE DEF f
  <2>2. f.c = c /\ f.out = <<>>
    BY <2>1
  <2>3. Finals(c, f)
    BY <1>2, <2>2 DEF Finals
  <2> QED  BY <2>3 DEF f
<1>3. CASE c.algo = "chapoly"
  <2>1. f = [c |-> [d EXCEPT !.tag = <<d.aad, d.text, d.gets>>], out |-> out]
    BY <1>3 DEF CipherFinal, Tag
  <2> HIDE DEF text
  <2>2. /\ IsCipher(d) /\ d.algo = c.algo /\ d.encrypt = c.encrypt /\ d.aad = c.aad
        /\ d.text = text /\ d.gets = c.gets
    BY <1>0 DEF IsCipher, CipherFields
  <2> DEFINE newtag == <<d.aad, d.text, d.gets>>
  <2>3. newtag = <<c.aad, text, c.gets>>
    BY <2>2
  <2>4. f.c = [d EXCEPT !.tag = newtag] /\ f.out = out
    <3> HIDE DEF f, d, out
    <3> QED  BY <2>1
  <2> HIDE DEF f, d, newtag, out
  <2>5. /\ IsCipher(f.c) /\ f.c.algo = d.algo /\ f.c.encrypt = d.encrypt /\ f.c.aad = d.aad
        /\ f.c.tag = newtag /\ f.c.gets = d.gets
    BY <2>2, <2>4 DEF IsCipher, CipherFields
  <2>6. /\ IsCipher(f.c) /\ f.c.algo = c.algo /\ f.c.encrypt = c.encrypt /\ f.c.aad = c.aad
        /\ f.c.tag = <<c.aad, text, c.gets>> /\ f.c.gets = c.gets /\ f.out = out
    BY <2>2, <2>3, <2>4, <2>5
  <2> QED  BY <1>3, <2>6 DEF Finals, f, text, out
<1> QED  BY <1>0, <1>1, <1>2, <1>3 DEF Ciphers

(* The whole text in one call.  *)
LEMMA EncryptWhole ==
  ASSUME NEW c, c.encrypt, c.algo # "ctr", c.cc = 0, c.text = <<>>, NEW x \in Seq(Nat)
  PROVE  Crypt(c, x) = Encrypted(x)
<1>1. <<>> \in Seq(Nat) /\ Len(<<>>) = 0 /\ Len(x) \in Nat /\ <<>> \o x = x
  OBVIOUS
<1>2. InStream(c, Len(<<>>), Len(x))
  BY <1>1, InStreamText
<1>3. /\ Encrypted(<<>>) \o Crypt(c, x) = Encrypted(<<>> \o x)
      /\ Crypt(c, x) \in Seq(EncUnits)
  <2>1. <<>> \in Seq(Nat)
    OBVIOUS
  <2> QED  BY <2>1, <1>2, EncryptMore, Zenon
<1>4. <<>> \o Crypt(c, x) = Crypt(c, x)
  BY <1>3, ConcatEmpty
<1> QED  BY <1>1, <1>3, <1>4, EncryptedNothing, Zenon

LEMMA DecryptWhole ==
  ASSUME NEW c, ~c.encrypt, c.algo # "ctr", c.cc = 0, c.text = <<>>, NEW x \in Seq(EncUnits)
  PROVE  Crypt(c, x) = Decrypted(x)
<1>0. <<>> \in Seq(EncUnits) /\ Len(<<>>) = 0 /\ Len(x) \in Nat
  OBVIOUS
<1>1. <<>> \o x = x
  BY ConcatEmpty
<1>2. InStream(c, Len(<<>>), Len(x))
  BY <1>0, InStreamText
<1>3. /\ Decrypted(<<>>) \o Crypt(c, x) = Decrypted(<<>> \o x)
      /\ Crypt(c, x) \in Seq(Nat)
  BY <1>0, <1>2, DecryptMore
<1>4. <<>> \o Crypt(c, x) = Crypt(c, x)
  BY <1>3, ConcatEmpty
<1> QED  BY <1>1, <1>3, <1>4, EncryptedNothing, Zenon

(* The first call is at the first block.  *)
LEMMA AlignedAtStart == ASSUME NEW todo PROVE Aligned(0, Len(<<>>), todo)
<1>1. Len(<<>>) = 0 /\ BlockUnits \in Nat /\ BlockUnits > 0 /\ 0 = BlockUnits * 0 + 0
  BY CryptoAssumption
<1>2. 0 \div BlockUnits = 0 /\ 0 % BlockUnits = 0
  BY <1>1, Quotient
<1> QED  BY <1>1, <1>2 DEF Aligned

(* final() and getAuthTag() of the side that encrypts, and the way to the    *)
(* other side.                                                               *)
LEMMA SendEnds ==
  ASSUME NEW s, NEW t, SendOK(s), s.use \in Ciphers, s.todo = <<>>, NEW tamper,
         t.use = s.use, t.asked = s.asked, t.got = s.got, t.dec = s.dec, t.misused = s.misused,
         t.uneven = s.uneven,
         t.sent = s.sent \o CipherFinal(s.enc).out,
         t.enc = CipherGetAuthTag(CipherFinal(s.enc).c),
         t.tampered <=> (tamper # "nothing"),
         t.tag = IF tamper = "tag" THEN <<"other">> ELSE t.enc.tag,
         tamper = "text" => t.sent # <<>>,
         tamper \in {"nothing", "text", "tag"},
         t.todo = IF tamper = "text" THEN [t.sent EXCEPT ![1] = <<Garbage, <<0, 0>>>>] ELSE t.sent
  PROVE  ReceiveOK(t) /\ t.enc.gets \in 0..2
<1> DEFINE c == s.enc
           f == CipherFinal(c)
           E == Encrypted(Plain)
           U == EncUnits
<1>0. IsCipher(c) /\ c.algo = s.use /\ c.encrypt
  BY DEF SendOK
<1>a. c.gets \in 0..1 /\ (~s.misused => c.gets = 0)
  BY DEF SendOK
<1>1. SentOK(s, Plain)
  <2>1. PICK done \in Seq(Nat) : Joins(done, s.todo, Plain) /\ SentOK(s, done)
    BY DEF SendOK
  <2>2. done \o <<>> = Plain
    BY <2>1 DEF Joins
  <2>3. done \o <<>> = done
    BY ConcatEmpty
  <2>4. done = Plain
    BY <2>2, <2>3
  <2> QED  BY <2>1, <2>4
<1>2. Finals(c, f)
  BY <1>0, FinalFields
<1>3. E \in Seq(U) /\ Len(E) = CrUnits /\ CrUnits \in Nat
  BY PlainType, DecryptEncrypted, CryptoAssumption
<1>4. /\ t.enc.gets \in 0..2
      /\ t.sent \in Seq(U)
      /\ s.use # "ctr" \/ ~s.uneven => t.sent = E
      /\ s.use # "ctr" => \E g : t.enc.tag = <<t.enc.aad, t.sent, g>> /\ (~s.misused => g = 0)
  <2>1. CASE s.use = "gcm"
    <3>1. c.text = E /\ s.sent = E
      BY <1>1, <2>1 DEF SentOK
    <3>2. f.c.algo = "gcm" /\ f.c.aad = c.aad /\ f.c.tag = <<c.aad, c.text, c.gets>> /\ f.c.gets = c.gets + 1 /\ f.out = <<>>
      BY <1>0, <1>2, <2>1 DEF Finals
    <3>3. t.enc = f.c
      <4>1. <<c.aad, c.text, c.gets>> # <<>>
        OBVIOUS
      <4>2. f.c.tag # <<>>
        BY <3>2, <4>1
      <4> QED  BY <4>2 DEF CipherGetAuthTag
    <3>4. t.sent = E
      <4>1. E \o <<>> = E
        <5> HIDE DEF E
        <5> QED  BY <1>3, ConcatEmpty, Zenon
      <4> QED  BY <3>1, <3>2, <4>1
    <3>5. t.enc.gets \in 0..2
      BY <1>a, <3>2, <3>3
    <3>6. t.enc.tag = <<t.enc.aad, t.sent, c.gets>>
      <4> HIDE DEF E, f
      <4> QED  BY <3>1, <3>2, <3>3, <3>4
    <3> HIDE DEF E
    <3> QED  BY <1>3, <1>a, <3>4, <3>5, <3>6
  <2>2. CASE s.use = "ctr"
    <3>1. s.sent \in Seq(U) /\ (~s.uneven => s.sent = E)
      BY <1>1, <2>2 DEF SentOK
    <3>2. f.c = c /\ f.out = <<>> /\ c.algo = "ctr"
      BY <1>0, <1>2, <2>2 DEF Finals
    <3>3. t.enc = c
      BY <3>2 DEF CipherGetAuthTag
    <3>4. t.sent = s.sent
      <4> HIDE DEF U
      <4>1. s.sent \o <<>> = s.sent
        BY <3>1, ConcatEmpty, Zenon
      <4> QED  BY <3>2, <4>1
    <3> HIDE DEF E, U
    <3> QED  BY <1>a, <2>2, <3>1, <3>3, <3>4
  <2>3. CASE s.use = "chapoly"
    <3>1. c.data = Plain /\ c.text = <<>> /\ s.sent = <<>> /\ c.cc = 0
      BY <1>1, <2>3 DEF SentOK
    <3>2. /\ f.c.algo = "chapoly" /\ f.c.aad = c.aad
          /\ f.c.tag = <<c.aad, Covered(c, c.data), c.gets>> /\ f.c.gets = c.gets
          /\ f.out = Crypt(c, c.data)
      BY <1>0, <1>2, <2>3 DEF Finals
    <3>3. t.enc = f.c
      BY <3>2 DEF CipherGetAuthTag
    <3>4. Crypt(c, c.data) = E /\ Covered(c, c.data) = E
      <4>1. c.algo # "ctr" /\ Plain \in Seq(Nat)
        BY <1>0, <2>3, PlainType
      <4>2. Crypt(c, Plain) = E
        BY <1>0, <3>1, <4>1, EncryptWhole
      <4> QED  BY <1>0, <3>1, <4>2 DEF Covered
    <3>5. t.sent = E
      <4>1. <<>> \o E = E
        <5> HIDE DEF E
        <5> QED  BY <1>3, ConcatEmpty, Zenon
      <4> QED  BY <3>1, <3>2, <3>4, <4>1
    <3>6. t.enc.gets \in 0..2
      BY <1>a, <3>2, <3>3
    <3>7. t.enc.tag = <<t.enc.aad, t.sent, c.gets>>
      <4> HIDE DEF E, f
      <4> QED  BY <3>2, <3>3, <3>4, <3>5
    <3> HIDE DEF E
    <3> QED  BY <1>3, <1>a, <3>5, <3>6, <3>7
  <2> QED  BY <2>1, <2>2, <2>3 DEF Ciphers
<1>5. t.todo \in Seq(U) /\ (tamper = "text" => t.todo # t.sent \/ t.use = "ctr")
  <2>1. CASE tamper # "text"
    BY <1>4, <2>1
  <2>2. CASE tamper = "text"
    <3> DEFINE z == <<Garbage, <<0, 0>>>>
               w == t.sent
    <3>1. z \in U /\ w \in Seq(U) /\ w # <<>> /\ t.todo = [w EXCEPT ![1] = z]
      BY <1>4, <2>2 DEF EncUnits, Garbage
    <3>2. z[1] = 0
      BY DEF Garbage
    <3> HIDE DEF U, z, w
    <3>3. 1 \in 1..Len(w) /\ Len(w) \in Nat
      BY <3>1
    <3> DEFINE v == t.todo
               N == Len(w)
    <3>a. w \in [1..N -> U] /\ v = [w EXCEPT ![1] = z]
      <4>1. w \in Seq(U)
        BY <3>1, Zenon
      <4>2. w \in [1..Len(w) -> U]
        BY ONLY <4>1
      <4>3. v = [w EXCEPT ![1] = z]
        BY <3>1, Zenon
      <4> QED  BY <4>2, <4>3, Zenon
    <3>b. 1 \in 1..N /\ N \in Nat
      BY <3>3
    <3>4. v \in [1..N -> U] /\ v[1] = z
      <4> HIDE DEF v, N
      <4> QED  BY <3>1, <3>a, <3>b
    <3>5. t.todo \in Seq(U)
      BY <3>b, <3>4, SeqOfFunction, Zenon
    <3>6. ASSUME t.use # "ctr" PROVE t.todo # w
      <4>1. w = E
        BY <1>4, <3>6 DEF w
      <4>2. 1 \in 1..CrUnits
        BY <1>3, <3>3, <4>1
      <4>3. E[1][1] = Plain[1] /\ Plain[1] = 1
        BY <4>2, PlainType DEF Encrypted
      <4>4. w[1][1] = 1
        BY <4>1, <4>3
      <4>5. w[1] # z
        BY <3>2, <4>4
      <4> QED  BY <3>4, <4>5
    <3> QED  BY <3>5, <3>6 DEF w
  <2> QED  BY <2>1, <2>2
<1>6. \E done \in Seq(U) : \E arrived :
         Joins(done, t.todo, arrived) /\ ArrivedOK(t, arrived) /\ GotOK(t, done)
  <2>1. <<>> \in Seq(U)
    OBVIOUS
  <2>2. Joins(<<>>, t.todo, t.todo)
    <3> HIDE DEF U
    <3> QED  BY <1>5, ConcatEmpty DEF Joins
  <2>3. ArrivedOK(t, t.todo)
    BY <1>5 DEF ArrivedOK
  <2>4. GotOK(t, <<>>)
    <3>1. t.dec = NewCipher(t.use, FALSE) /\ t.got = <<>>
      BY DEF SendOK
    <3>2. t.dec.text = <<>> /\ t.dec.cc = 0 /\ t.dec.data = <<>>
      BY <3>1 DEF NewCipher
    <3>3. Aligned(0, Len(<<>>), t.todo)
      BY AlignedAtStart
    <3>4. t.got = Decrypted(<<>>)
      BY <3>1, EncryptedNothing, Zenon
    <3>5. t.dec.cc \in Nat /\ Aligned(t.dec.cc, Len(<<>>), t.todo)
      BY <3>2, <3>3
    <3> QED  BY <3>1, <3>2, <3>4, <3>5, Zenon DEF GotOK
  <2> QED  BY <2>1, <2>2, <2>3, <2>4
<1>7. IsCipher(t.dec) /\ t.dec.algo = t.use /\ ~t.dec.encrypt /\ t.dec.gets = 0
  <2>1. t.dec = NewCipher(t.use, FALSE) /\ t.use \in Ciphers
    BY DEF SendOK
  <2> QED  BY <2>1 DEF NewCipher, IsCipher, CipherFields
<1>8. t.use # "ctr" => TagOK(t)
  <2>1. CASE tamper = "tag"
    BY <2>1 DEF TagOK
  <2>2. CASE tamper # "tag"
    <3>1. t.tag = t.enc.tag
      BY <2>2
    <3> HIDE DEF U, E
    <3> QED  BY <1>4, <3>1 DEF TagOK
  <2> QED  BY <2>1, <2>2
<1>9. ~t.asked /\ (t.use # "ctr" \/ ~t.uneven => t.sent = Encrypted(Plain))
  BY <1>4 DEF SendOK
<1> QED  BY <1>4, <1>5, <1>6, <1>7, <1>8, <1>9 DEF ReceiveOK

(* When final() of the side that decrypts has been called: what came is what *)
(* was encrypted, and a change is noticed if a tag was set.                  *)
OverOK(s) ==
  /\ ~s.tampered /\ ~s.misused /\ (s.enc.aad = s.dec.aad \/ ~s.asked) /\ (s.use = "ctr" => ~s.uneven)
     => s.verdict = "ok" /\ s.got = Plain
  /\ s.use # "ctr" /\ s.asked /\ (s.tampered \/ s.enc.aad # s.dec.aad) => s.verdict = "throws"

LEMMA ReceiveEnds ==
  ASSUME NEW s, NEW t, ReceiveOK(s), s.use \in Ciphers, s.todo = <<>>,
         t.use = s.use, t.asked = s.asked, t.tampered = s.tampered, t.misused = s.misused,
         t.uneven = s.uneven, t.enc = s.enc, t.dec = CipherFinal(s.dec).c,
         LET f == CipherFinal(s.dec)
         IN  IF s.asked /\ ~CipherSetAuthTag(f.c, s.pending)
             THEN t.verdict = "throws"
             ELSE t.verdict = "ok" /\ t.got = s.got \o f.out
  PROVE  OverOK(t) /\ t.dec.gets \in 0..1
<1> DEFINE c == s.dec
           f == CipherFinal(c)
           E == Encrypted(Plain)
           U == EncUnits
<1>0. IsCipher(c) /\ c.algo = s.use /\ ~c.encrypt /\ c.gets = 0
  BY DEF ReceiveOK
<1>1. PICK done \in Seq(U) : ArrivedOK(s, done) /\ GotOK(s, done)
  <2>1. PICK done \in Seq(U) : \E arrived :
          Joins(done, s.todo, arrived) /\ ArrivedOK(s, arrived) /\ GotOK(s, done)
    BY DEF ReceiveOK
  <2>2. PICK arrived : Joins(done, s.todo, arrived) /\ ArrivedOK(s, arrived) /\ GotOK(s, done)
    BY <2>1
  <2>3. done \o <<>> = done
    BY ConcatEmpty
  <2>4. arrived = done
    BY <2>2, <2>3 DEF Joins
  <2> QED  BY <2>2, <2>4
<1>2. Finals(c, f)
  BY <1>0, FinalFields
<1>3. Plain \in Seq(Nat) /\ Decrypted(E) = Plain /\ E \in Seq(U)
  BY PlainType, DecryptEncrypted
<1>4. t.dec.aad = c.aad /\ t.dec.gets \in 0..1
  <2>1. f.c.aad = c.aad /\ f.c.gets \in {c.gets, c.gets + 1}
    BY <1>0, <1>2 DEF Finals, IsCipher, Ciphers
  <2> QED  BY <1>0, <2>1
<1>5. s.use # "ctr" => f.c.tag = <<c.aad, done, 0>> /\ f.c.algo # "ctr"
  <2>1. CASE s.use = "gcm"
    BY <1>0, <1>1, <1>2, <2>1 DEF Finals, GotOK
  <2>2. CASE s.use = "chapoly"
    <3>1. Covered(c, c.data) = done
      BY <1>0, <1>1, <2>2 DEF Covered, GotOK
    <3> QED  BY <1>0, <1>2, <2>2, <3>1 DEF Finals
  <2> QED  BY <2>1, <2>2 DEF Ciphers
<1>6. s.use # "ctr" \/ ~s.uneven => s.got \o f.out = Decrypted(done)
  <2>1. CASE s.use = "gcm" \/ (s.use = "ctr" /\ ~s.uneven)
    <3>1. s.got = Decrypted(done) /\ f.out = <<>>
      BY <1>0, <1>1, <1>2, <2>1 DEF Finals, GotOK
    <3>2. Decrypted(done) \o <<>> = Decrypted(done)
      <4>1. Decrypted(done) \in Seq(Nat)
        BY <1>1, DecryptedType
      <4> QED  BY <4>1, ConcatEmpty, Zenon
    <3> QED  BY <3>1, <3>2
  <2>2. CASE s.use = "chapoly"
    <3>1. s.got = <<>> /\ f.out = Crypt(c, done) /\ c.text = <<>> /\ c.cc = 0 /\ c.algo # "ctr"
      BY <1>0, <1>1, <1>2, <2>2 DEF Finals, GotOK
    <3>2. Crypt(c, done) = Decrypted(done)
      BY <1>0, <1>1, <3>1, DecryptWhole
    <3>3. <<>> \o Decrypted(done) = Decrypted(done)
      <4>1. Decrypted(done) \in Seq(Nat)
        BY <1>1, DecryptedType
      <4> QED  BY <4>1, ConcatEmpty, Zenon
    <3> QED  BY <3>1, <3>2, <3>3
  <2> QED  BY <2>1, <2>2 DEF Ciphers
<1>7. s.use # "ctr" /\ s.asked => s.pending = s.tag
  BY DEF ReceiveOK
<1>8. (s.asked /\ ~CipherSetAuthTag(f.c, s.pending) /\ t.verdict = "throws")
      \/ (~(s.asked /\ ~CipherSetAuthTag(f.c, s.pending)) /\ t.verdict = "ok" /\ t.got = s.got \o f.out)
  <2> HIDE DEF f
  <2> QED  BY DEF f
<1> HIDE DEF f, E, U
<1>9. ASSUME ~t.tampered, ~t.misused, t.enc.aad = t.dec.aad \/ ~t.asked, t.use = "ctr" => ~t.uneven
      PROVE  t.verdict = "ok" /\ t.got = Plain
  <2>1. done = s.sent
    BY <1>1, <1>9 DEF ArrivedOK
  <2>2. s.sent = E
    BY <1>9 DEF ReceiveOK, E
  <2>3. s.got \o f.out = Plain
    BY <1>3, <1>6, <1>9, <2>1, <2>2
  <2>4. ASSUME s.asked PROVE CipherSetAuthTag(f.c, s.pending)
    <3>1. s.use # "ctr" /\ s.enc.aad = c.aad
      BY <1>4, <1>9, <2>4 DEF ReceiveOK
    <3>2. s.tag = <<s.enc.aad, s.sent, 0>>
      BY <1>9, <3>1 DEF ReceiveOK, TagOK
    <3>3. f.c.tag = s.pending /\ f.c.algo # "ctr"
      BY <1>5, <1>7, <2>1, <2>4, <3>1, <3>2
    <3> QED  BY <3>3 DEF CipherSetAuthTag
  <2> QED  BY <1>8, <2>3, <2>4
<1>10. ASSUME t.use # "ctr", t.asked, t.tampered \/ t.enc.aad # t.dec.aad
       PROVE  t.verdict = "throws"
  <2>1. f.c.tag = <<c.aad, done, 0>> /\ s.pending = s.tag /\ TagOK(s)
    BY <1>5, <1>7, <1>10 DEF ReceiveOK
  <2>2. s.tag # <<c.aad, done, 0>>
    <3>1. CASE s.tag = <<"other">>
      <4>1. Len(<<"other">>) = 1 /\ Len(<<c.aad, done, 0>>) = 3
        OBVIOUS
      <4> QED  BY <3>1, <4>1
    <3>2. ASSUME NEW g, s.tag = <<s.enc.aad, s.sent, g>>, s.tag # <<"other">>
          PROVE  s.tag # <<c.aad, done, 0>>
      <4>1. CASE s.tampered
        <5>1. done # s.sent
          BY <1>1, <1>10, <3>2, <4>1 DEF ArrivedOK
        <5> QED  BY <3>2, <5>1
      <4>2. CASE s.enc.aad # c.aad
        BY <3>2, <4>2
      <4> QED  BY <1>4, <1>10, <4>1, <4>2
    <3> QED  BY <2>1, <3>1, <3>2 DEF TagOK
  <2>3. ~CipherSetAuthTag(f.c, s.pending)
    BY <2>1, <2>2 DEF CipherSetAuthTag
  <2> QED  BY <1>8, <1>10, <2>3
<1> QED  BY <1>4, <1>9, <1>10 DEF OverOK
CipherOK(s) ==
  \/ s.phase = "encrypt" /\ s.verdict = "none" /\ SendOK(s)
  \/ s.phase = "decrypt" /\ s.verdict = "none" /\ ReceiveOK(s)
  \/ s.phase = "decrypt" /\ s.verdict # "none" /\ OverOK(s)

(* The chunks that were kept and what is to come are the data of the side    *)
(* that signs and of the side that verifies.                                 *)
ChunksOf(s, data) ==
  s.state \in Seq(Seq(Nat)) /\ s.todo \in Seq(Nat) /\ Joins(FlattenSeq(s.state), s.todo, data)

SignOK(s) ==
  \/ s.phase = "encrypt" /\ s.verdict = "none" /\ ChunksOf(s, Plain)
  \/ s.phase = "decrypt" /\ s.verdict = "none" /\ s.signed = Plain /\ ChunksOf(s, s.other)
  \/ s.phase = "decrypt" /\ s.verdict # "none" /\ (s.verdict = "ok" <=> s.other = Plain)

(* A secret belongs to the private key its side has now, because a new key   *)
(* forgets it, and keys are never made twice.                                *)
KeysOK(s) ==
  /\ s.made \in 0..MaxKeys /\ s.priv \in [Sides -> 0..MaxKeys] /\ s.pub \in [Sides -> 0..MaxKeys]
  /\ s.shown \in [Sides -> 0..MaxKeys] /\ s.secret \in [Sides -> SUBSET (1..MaxKeys)]
  /\ \A p \in Sides : s.priv[p] =< s.made /\ s.pub[p] \in {0, s.priv[p]}
  /\ \A p, q \in Sides : p # q /\ s.priv[p] # 0 => s.priv[p] # s.priv[q]
  /\ \A p \in Sides : s.secret[p] # {} => \E x \in s.secret[p] : s.secret[p] = {s.priv[p], x}

(* The state of a hash is all that was fed, and a digest that was read is of *)
(* that state.                                                               *)
HashOK(s) == s.state = s.fed /\ (s.asked => s.digest = s.state)

CrFields ==
  {"use", "todo", "enc", "dec", "phase", "sent", "tag", "tampered", "pending", "asked", "got",
   "verdict", "uneven", "misused", "fed", "state", "digest", "signed", "other", "made", "priv",
   "pub", "shown", "secret"}

IsSession(s) == s = [f \in CrFields |-> s[f]]

PlainFieldsOK(s) ==
  /\ s.verdict \in {"none", "ok", "throws"} /\ s.phase \in {"encrypt", "decrypt"}
  /\ s.enc.gets \in 0..2 /\ s.dec.gets \in 0..1

SessionOK(s) ==
  /\ IsSession(s) /\ KeysOK(s) /\ PlainFieldsOK(s)
  /\ s.use \in Ciphers => CipherOK(s)
  /\ s.use = "hash" => HashOK(s)
  /\ s.use = "sign" => SignOK(s)

CrIInv == SessionOK(cr)

(* Steps that leave the keys alone.  *)
SameKeys(s, t) ==
  t.made = s.made /\ t.priv = s.priv /\ t.pub = s.pub /\ t.shown = s.shown /\ t.secret = s.secret

LEMMA KeysStay == ASSUME NEW s, NEW t, KeysOK(s), SameKeys(s, t) PROVE KeysOK(t)
BY Zenon DEF KeysOK, SameKeys

(* A session as it begins.  *)
LEMMA NewSessionOK == ASSUME NEW use PROVE SessionOK(NewSession(use))
<1> DEFINE s == NewSession(use)
<1>1. /\ IsSession(s) /\ s.use = use /\ s.made = 0
      /\ s.priv = [p \in Sides |-> 0] /\ s.pub = [p \in Sides |-> 0]
      /\ s.shown = [p \in Sides |-> 0] /\ s.secret = [p \in Sides |-> {}]
      /\ s.state = <<>> /\ s.fed = <<>> /\ s.asked = FALSE
  BY DEF NewSession, CrFields, IsSession
<1>2. /\ s.enc = NewCipher(use, TRUE) /\ s.dec = NewCipher(use, FALSE) /\ s.phase = "encrypt"
      /\ s.verdict = "none" /\ s.todo = Plain /\ s.sent = <<>> /\ s.got = <<>>
  BY DEF NewSession
<1> HIDE DEF s
<1>3. KeysOK(s)
  <2>1. 0 \in 0..MaxKeys /\ {} \in SUBSET (1..MaxKeys)
    BY CryptoAssumption
  <2> QED  BY <1>1, <2>1 DEF KeysOK
<1>4. HashOK(s)
  BY <1>1 DEF HashOK
<1>5. PlainFieldsOK(s)
  BY <1>2 DEF PlainFieldsOK, NewCipher
<1>6. SignOK(s)
  <2>1. <<>> \in Seq(Seq(Nat)) /\ FlattenSeq(<<>>) = <<>>
    BY FlattenEmpty
  <2>2. <<>> \o Plain = Plain
    BY PlainType, ConcatEmpty
  <2> QED  BY <1>1, <1>2, <2>1, <2>2, PlainType DEF SignOK, ChunksOf, Joins
<1>7. ASSUME use \in Ciphers PROVE CipherOK(s)
  <2>1. /\ IsCipher(s.enc) /\ s.enc.algo = s.use /\ s.enc.encrypt /\ s.enc.tag = <<>>
        /\ s.enc.gets = 0 /\ s.enc.text = <<>> /\ s.enc.data = <<>> /\ s.enc.cc = 0
    BY <1>1, <1>2, <1>7 DEF NewCipher, IsCipher, CipherFields
  <2>2. <<>> \in Seq(Nat) /\ Joins(<<>>, s.todo, Plain) /\ s.todo \in Seq(Nat)
    BY <1>2, PlainType, ConcatEmpty DEF Joins
  <2>3. SentOK(s, <<>>)
    <3>1. Aligned(0, Len(<<>>), s.todo)
      BY AlignedAtStart
    <3>2. s.sent = Encrypted(<<>>) /\ s.enc.text = Encrypted(<<>>)
      BY <1>2, <2>1, EncryptedNothing, Zenon
    <3>3. s.sent \in Seq(EncUnits) /\ s.enc.cc \in Nat /\ Aligned(s.enc.cc, Len(<<>>), s.todo)
      <4>1. <<>> \in Seq(EncUnits) /\ 0 \in Nat
        OBVIOUS
      <4> QED  BY <1>2, <2>1, <3>1, <4>1, Zenon
    <3> QED  BY <1>2, <2>1, <3>2, <3>3, Zenon DEF SentOK
  <2>4. SendOK(s)
    BY <1>1, <1>2, <2>1, <2>2, <2>3 DEF SendOK
  <2> QED  BY <1>2, <2>4 DEF CipherOK
<1> QED  BY <1>1, <1>3, <1>4, <1>5, <1>6, <1>7 DEF SessionOK, s

(* What is to be shown of a step of a cipher.  *)
LEMMA CipherStep ==
  ASSUME NEW s, NEW t, SessionOK(s), s.use \in Ciphers, IsSession(t), t.use = s.use,
         SameKeys(s, t), CipherOK(t), PlainFieldsOK(t)
  PROVE  SessionOK(t)
<1>1. s.use # "hash" /\ s.use # "sign"
  BY DEF Ciphers
<1> QED  BY <1>1, KeysStay, Zenon DEF SessionOK

LEMMA SignStep ==
  ASSUME NEW s, NEW t, SessionOK(s), s.use = "sign", IsSession(t), t.use = s.use,
         SameKeys(s, t), t.enc = s.enc, t.dec = s.dec, SignOK(t),
         t.verdict \in {"none", "ok", "throws"}, t.phase \in {"encrypt", "decrypt"}
  PROVE  SessionOK(t)
<1>1. s.use # "hash" /\ s.use \notin Ciphers
  BY DEF Ciphers
<1>2. PlainFieldsOK(t)
  BY DEF SessionOK, PlainFieldsOK
<1> QED  BY <1>1, <1>2, KeysStay, Zenon DEF SessionOK

(* update() of a cipher.  *)
LEMMA UpdateKeeps == ASSUME CrIInv, NEW n, Update(n) PROVE CrIInv'
<1> DEFINE chunk == SubSeq(cr.todo, 1, n)
           side  == IF cr.phase = "encrypt" THEN cr.enc ELSE cr.dec
           u     == CipherUpdate(side, chunk)
           rest  == SubSeq(cr.todo, n + 1, Len(cr.todo))
           odd   == cr.uneven \/ (n < Len(cr.todo) /\ n % BlockUnits # 0)
           s     == [cr EXCEPT !.todo = rest, !.uneven = odd]
           sent  == cr.sent \o u.out
           got   == cr.got \o u.out
           newc  == u.c
<1>0. /\ SessionOK(cr) /\ IsSession(cr) /\ PlainFieldsOK(cr) /\ CipherOK(cr)
      /\ cr.use \in Ciphers /\ cr.verdict = "none" /\ n \in 1..Len(cr.todo)
  BY DEF CrIInv, SessionOK, Update
<1>1. cr' = IF cr.phase = "encrypt" THEN [s EXCEPT !.enc = newc, !.sent = sent]
            ELSE [s EXCEPT !.dec = newc, !.got = got]
  BY Zenon DEF Update
<1>a. ~odd => ~cr.uneven /\ (n = Len(cr.todo) \/ n % BlockUnits = 0)
  <2>1. CASE ~(n < Len(cr.todo))
    <3>1. n = Len(cr.todo)
      BY <1>0, <2>1
    <3> QED  BY <3>1
  <2> QED  BY <2>1
<1> HIDE DEF rest, odd, newc, sent, got
<1>2. /\ IsSession(s) /\ s.todo = rest /\ s.uneven = odd /\ s.use = cr.use
      /\ s.asked = cr.asked /\ s.got = cr.got /\ s.dec = cr.dec /\ s.enc = cr.enc
      /\ s.sent = cr.sent /\ s.misused = cr.misused /\ s.pending = cr.pending /\ s.tag = cr.tag
      /\ s.tampered = cr.tampered /\ s.verdict = cr.verdict /\ s.phase = cr.phase
      /\ SameKeys(cr, s)
  BY <1>0 DEF IsSession, CrFields, SameKeys
<1> HIDE DEF s
<1>3. CASE cr.phase = "encrypt"
  <2>1. cr' = [s EXCEPT !.enc = newc, !.sent = sent]
    BY <1>1, <1>3
  <2>2. /\ IsSession(cr') /\ cr'.todo = rest /\ cr'.uneven = odd /\ cr'.use = cr.use
        /\ cr'.asked = cr.asked /\ cr'.got = cr.got /\ cr'.dec = cr.dec /\ cr'.enc = newc
        /\ cr'.sent = sent /\ cr'.misused = cr.misused
        /\ cr'.verdict = cr.verdict /\ cr'.phase = cr.phase /\ SameKeys(cr, cr')
    BY <1>2, <2>1 DEF IsSession, CrFields, SameKeys
  <2>3. SendOK(cr)
    BY <1>0, <1>3 DEF CipherOK
  <2>4. side = cr.enc
    BY <1>3
  <2>5. newc = CipherUpdate(cr.enc, chunk).c /\ sent = cr.sent \o CipherUpdate(cr.enc, chunk).out
    BY <2>4, Zenon DEF newc, sent
  <2>6. SendOK(cr')
    <3>1. /\ cr'.todo = SubSeq(cr.todo, n + 1, Len(cr.todo))
          /\ ~cr'.uneven => ~cr.uneven /\ (n = Len(cr.todo) \/ n % BlockUnits = 0)
          /\ cr'.enc = CipherUpdate(cr.enc, SubSeq(cr.todo, 1, n)).c
          /\ cr'.sent = cr.sent \o CipherUpdate(cr.enc, SubSeq(cr.todo, 1, n)).out
      BY <1>a, <2>2, <2>5, Zenon DEF rest
    <3> QED  BY <1>0, <2>2, <2>3, <3>1, SendMore, Zenon
  <2>7. CipherOK(cr')
    BY <1>0, <1>3, <2>2, <2>6 DEF CipherOK
  <2>8. cr'.enc.gets \in 0..2
    BY <2>6 DEF SendOK
  <2>9. PlainFieldsOK(cr')
    BY <1>0, <2>2, <2>8 DEF PlainFieldsOK
  <2> QED  BY <1>0, <2>2, <2>7, <2>9, CipherStep, Zenon DEF CrIInv
<1>4. CASE cr.phase # "encrypt"
  <2>1. cr' = [s EXCEPT !.dec = newc, !.got = got]
    BY <1>1, <1>4
  <2>2. /\ IsSession(cr') /\ cr'.todo = rest /\ cr'.uneven = odd /\ cr'.use = cr.use
        /\ cr'.asked = cr.asked /\ cr'.got = got /\ cr'.dec = newc /\ cr'.enc = cr.enc
        /\ cr'.sent = cr.sent /\ cr'.misused = cr.misused /\ cr'.pending = cr.pending
        /\ cr'.tag = cr.tag /\ cr'.tampered = cr.tampered
        /\ cr'.verdict = cr.verdict /\ cr'.phase = cr.phase /\ SameKeys(cr, cr')
    BY <1>2, <2>1 DEF IsSession, CrFields, SameKeys
  <2>3. ReceiveOK(cr) /\ cr.phase = "decrypt"
    BY <1>0, <1>4 DEF CipherOK
  <2>4. side = cr.dec
    BY <1>4
  <2>5. newc = CipherUpdate(cr.dec, chunk).c /\ got = cr.got \o CipherUpdate(cr.dec, chunk).out
    BY <2>4, Zenon DEF newc, got
  <2>6. ReceiveOK(cr')
    <3>1. /\ cr'.todo = SubSeq(cr.todo, n + 1, Len(cr.todo))
          /\ ~cr'.uneven => ~cr.uneven /\ (n = Len(cr.todo) \/ n % BlockUnits = 0)
          /\ cr'.dec = CipherUpdate(cr.dec, SubSeq(cr.todo, 1, n)).c
          /\ cr'.got = cr.got \o CipherUpdate(cr.dec, SubSeq(cr.todo, 1, n)).out
      BY <1>a, <2>2, <2>5, Zenon DEF rest
    <3> QED  BY <1>0, <2>2, <2>3, <3>1, ReceiveMore, Zenon
  <2>7. CipherOK(cr')
    BY <1>0, <2>2, <2>3, <2>6 DEF CipherOK
  <2>8. cr'.dec.gets \in 0..1
    BY <2>6 DEF ReceiveOK
  <2>9. PlainFieldsOK(cr')
    BY <1>0, <2>2, <2>8 DEF PlainFieldsOK
  <2> QED  BY <1>0, <2>2, <2>7, <2>9, CipherStep, Zenon DEF CrIInv
<1> QED  BY <1>3, <1>4

(* setAAD and getAuthTag change the tag or what goes into it.  *)
SameText(c, d) ==
  /\ IsCipher(d) /\ d.algo = c.algo /\ d.encrypt = c.encrypt
  /\ d.text = c.text /\ d.cc = c.cc /\ d.data = c.data

LEMMA AADFields ==
  ASSUME NEW c, IsCipher(c), NEW a
  PROVE  LET d == CipherSetAAD(c, a) IN SameText(c, d) /\ d.tag = c.tag /\ d.gets = c.gets
<1> DEFINE d == CipherSetAAD(c, a)
           aad == Append(c.aad, <<a, IF c.algo = "gcm" THEN Len(c.text) ELSE 0>>)
<1>1. d = [c EXCEPT !.aad = aad] /\ c = [f \in CipherFields |-> c[f]] /\ c.algo \in Ciphers
  BY DEF CipherSetAAD, IsCipher
<1> HIDE DEF d, aad
<1>2. SameText(c, d) /\ d.tag = c.tag /\ d.gets = c.gets
  BY <1>1 DEF SameText, IsCipher, CipherFields
<1> QED  BY <1>2 DEF d

LEMMA TagFields ==
  ASSUME NEW c, IsCipher(c), c.algo = "gcm", c.tag = <<>>
  PROVE  LET d == CipherGetAuthTag(c)
         IN  SameText(c, d) /\ d.tag # <<>> /\ d.gets = c.gets + 1
<1> DEFINE d == CipherGetAuthTag(c)
           tag == <<c.aad, c.text, c.gets>>
           more == c.gets + 1
<1>1. d = [c EXCEPT !.tag = tag, !.gets = more] /\ c = [f \in CipherFields |-> c[f]]
  BY DEF CipherGetAuthTag, Tag, IsCipher
<1>2. tag # <<>>
  OBVIOUS
<1> HIDE DEF d, tag, more
<1>3. SameText(c, d) /\ d.tag = tag /\ d.gets = more
  BY <1>1 DEF SameText, IsCipher, CipherFields, Ciphers
<1> QED  BY <1>2, <1>3 DEF d, more

LEMMA SetAADKeeps == ASSUME CrIInv, SetAAD PROVE CrIInv'
<1> DEFINE side == IF cr.phase = "encrypt" THEN cr.enc ELSE cr.dec
           bad  == cr.misused \/ (cr.use = "gcm" /\ side.flipped)
           s    == [cr EXCEPT !.misused = bad]
           newc == CipherSetAAD(side, "aad")
<1>0. /\ SessionOK(cr) /\ IsSession(cr) /\ PlainFieldsOK(cr) /\ CipherOK(cr)
      /\ cr.use \in Ciphers /\ cr.verdict = "none"
  BY DEF CrIInv, SessionOK, SetAAD
<1>1. cr' = IF cr.phase = "encrypt" THEN [s EXCEPT !.enc = newc] ELSE [s EXCEPT !.dec = newc]
  BY Zenon DEF SetAAD
<1>a. cr.misused => bad
  OBVIOUS
<1> HIDE DEF bad, newc
<1>2. /\ IsSession(s) /\ s.todo = cr.todo /\ s.uneven = cr.uneven /\ s.use = cr.use
      /\ s.asked = cr.asked /\ s.got = cr.got /\ s.dec = cr.dec /\ s.enc = cr.enc
      /\ s.sent = cr.sent /\ s.misused = bad /\ s.pending = cr.pending /\ s.tag = cr.tag
      /\ s.tampered = cr.tampered /\ s.verdict = cr.verdict /\ s.phase = cr.phase
      /\ SameKeys(cr, s)
  BY <1>0 DEF IsSession, CrFields, SameKeys
<1> HIDE DEF s
<1>3. CASE cr.phase = "encrypt"
  <2>1. cr' = [s EXCEPT !.enc = newc]
    BY <1>1, <1>3
  <2>2. /\ IsSession(cr') /\ cr'.todo = cr.todo /\ cr'.uneven = cr.uneven /\ cr'.use = cr.use
        /\ cr'.asked = cr.asked /\ cr'.got = cr.got /\ cr'.dec = cr.dec /\ cr'.enc = newc
        /\ cr'.sent = cr.sent /\ cr'.misused = bad
        /\ cr'.verdict = cr.verdict /\ cr'.phase = cr.phase /\ SameKeys(cr, cr')
    BY <1>2, <2>1 DEF IsSession, CrFields, SameKeys
  <2>3. SendOK(cr)
    BY <1>0, <1>3 DEF CipherOK
  <2>4. newc = CipherSetAAD(cr.enc, "aad")
    BY <1>3, Zenon DEF newc
  <2>5. SameText(cr.enc, newc) /\ newc.tag = cr.enc.tag /\ newc.gets = cr.enc.gets
    <3>1. IsCipher(cr.enc)
      BY <2>3 DEF SendOK
    <3> QED  BY <2>4, <3>1, AADFields, Zenon
  <2>6. SendOK(cr')
    BY <1>a, <2>2, <2>3, <2>5, SendOther DEF SameText
  <2>7. CipherOK(cr')
    BY <1>0, <1>3, <2>2, <2>6 DEF CipherOK
  <2>9. PlainFieldsOK(cr')
    BY <1>0, <2>2, <2>5 DEF PlainFieldsOK
  <2> QED  BY <1>0, <2>2, <2>7, <2>9, CipherStep, Zenon DEF CrIInv
<1>4. CASE cr.phase # "encrypt"
  <2>1. cr' = [s EXCEPT !.dec = newc]
    BY <1>1, <1>4
  <2>2. /\ IsSession(cr') /\ cr'.todo = cr.todo /\ cr'.uneven = cr.uneven /\ cr'.use = cr.use
        /\ cr'.asked = cr.asked /\ cr'.got = cr.got /\ cr'.dec = newc /\ cr'.enc = cr.enc
        /\ cr'.sent = cr.sent /\ cr'.misused = bad /\ cr'.pending = cr.pending
        /\ cr'.tag = cr.tag /\ cr'.tampered = cr.tampered
        /\ cr'.verdict = cr.verdict /\ cr'.phase = cr.phase /\ SameKeys(cr, cr')
    BY <1>2, <2>1 DEF IsSession, CrFields, SameKeys
  <2>3. ReceiveOK(cr) /\ cr.phase = "decrypt"
    BY <1>0, <1>4 DEF CipherOK
  <2>4. newc = CipherSetAAD(cr.dec, "aad")
    BY <1>4, Zenon DEF newc
  <2>5. SameText(cr.dec, newc) /\ newc.tag = cr.dec.tag /\ newc.gets = cr.dec.gets
    <3>1. IsCipher(cr.dec)
      BY <2>3 DEF ReceiveOK
    <3> QED  BY <2>4, <3>1, AADFields, Zenon
  <2>a. cr'.asked => cr'.pending = cr'.tag /\ cr'.use # "ctr"
    BY <2>2, <2>3 DEF ReceiveOK
  <2>6. ReceiveOK(cr')
    BY <1>a, <2>2, <2>3, <2>5, <2>a, ReceiveOther DEF SameText
  <2>7. CipherOK(cr')
    BY <1>0, <2>2, <2>3, <2>6 DEF CipherOK
  <2>9. PlainFieldsOK(cr')
    BY <1>0, <2>2, <2>5 DEF PlainFieldsOK
  <2> QED  BY <1>0, <2>2, <2>7, <2>9, CipherStep, Zenon DEF CrIInv
<1> QED  BY <1>3, <1>4

(* getAuthTag too early, and setAuthTag.  *)
LEMMA AuthTagKeeps == ASSUME CrIInv, EarlyGetAuthTag \/ SetAuthTag PROVE CrIInv'
<1>1. CASE EarlyGetAuthTag
  <2> DEFINE newc == CipherGetAuthTag(cr.enc)
  <2>0. /\ SessionOK(cr) /\ IsSession(cr) /\ PlainFieldsOK(cr) /\ CipherOK(cr)
        /\ cr.use \in Ciphers /\ cr.use = "gcm" /\ cr.phase = "encrypt" /\ cr.enc.tag = <<>>
        /\ cr' = [cr EXCEPT !.enc = newc, !.misused = TRUE]
    BY <1>1 DEF CrIInv, SessionOK, EarlyGetAuthTag, Ciphers
  <2>1. SendOK(cr) /\ cr.verdict = "none"
    BY <2>0 DEF CipherOK
  <2>2. SameText(cr.enc, newc) /\ newc.tag # <<>> /\ newc.gets = cr.enc.gets + 1 /\ cr.enc.gets = 0
    <3>1. IsCipher(cr.enc) /\ cr.enc.algo = "gcm" /\ cr.enc.gets = 0
      BY <2>0, <2>1 DEF SendOK
    <3> QED  BY <2>0, <3>1, TagFields, Zenon
  <2> HIDE DEF newc
  <2>3. /\ IsSession(cr') /\ cr'.todo = cr.todo /\ cr'.uneven = cr.uneven /\ cr'.use = cr.use
        /\ cr'.asked = cr.asked /\ cr'.got = cr.got /\ cr'.dec = cr.dec /\ cr'.enc = newc
        /\ cr'.sent = cr.sent /\ cr'.misused
        /\ cr'.verdict = cr.verdict /\ cr'.phase = cr.phase /\ SameKeys(cr, cr')
    BY <2>0 DEF IsSession, CrFields, SameKeys
  <2>a. /\ IsCipher(cr'.enc) /\ cr'.enc.algo = cr.enc.algo /\ cr'.enc.encrypt = cr.enc.encrypt
        /\ cr'.enc.text = cr.enc.text /\ cr'.enc.cc = cr.enc.cc /\ cr'.enc.data = cr.enc.data
        /\ cr'.enc.tag # <<>> /\ cr.enc.tag = <<>> /\ cr'.enc.gets = cr.enc.gets + 1 /\ cr'.misused
    BY <2>0, <2>2, <2>3, Zenon DEF SameText
  <2>4. SendOK(cr')
    BY <2>1, <2>3, <2>a, SendOther, Zenon
  <2>5. CipherOK(cr')
    BY <2>0, <2>1, <2>3, <2>4 DEF CipherOK
  <2>6. PlainFieldsOK(cr')
    BY <2>0, <2>2, <2>3 DEF PlainFieldsOK
  <2> QED  BY <2>0, <2>3, <2>5, <2>6, CipherStep, Zenon DEF CrIInv
<1>2. CASE SetAuthTag
  <2>0. /\ SessionOK(cr) /\ IsSession(cr) /\ PlainFieldsOK(cr) /\ CipherOK(cr)
        /\ cr.use \in Ciphers /\ cr.use # "ctr" /\ cr.phase = "decrypt" /\ cr.verdict = "none"
        /\ cr' = [cr EXCEPT !.pending = cr.tag, !.asked = TRUE]
    BY <1>2 DEF CrIInv, SessionOK, SetAuthTag
  <2>1. ReceiveOK(cr)
    BY <2>0 DEF CipherOK
  <2>3. /\ IsSession(cr') /\ cr'.todo = cr.todo /\ cr'.uneven = cr.uneven /\ cr'.use = cr.use
        /\ cr'.got = cr.got /\ cr'.dec = cr.dec /\ cr'.enc = cr.enc
        /\ cr'.sent = cr.sent /\ cr'.misused = cr.misused /\ cr'.pending = cr.tag
        /\ cr'.tag = cr.tag /\ cr'.tampered = cr.tampered
        /\ cr'.verdict = cr.verdict /\ cr'.phase = cr.phase /\ SameKeys(cr, cr')
    BY <2>0 DEF IsSession, CrFields, SameKeys
  <2>a. IsCipher(cr'.dec) /\ (cr'.asked => cr'.pending = cr'.tag /\ cr'.use # "ctr")
    BY <2>0, <2>1, <2>3 DEF ReceiveOK
  <2>4. ReceiveOK(cr')
    BY <2>1, <2>3, <2>a, ReceiveOther
  <2>5. CipherOK(cr')
    BY <2>0, <2>3, <2>4 DEF CipherOK
  <2>6. PlainFieldsOK(cr')
    BY <2>0, <2>3 DEF PlainFieldsOK
  <2> QED  BY <2>0, <2>3, <2>5, <2>6, CipherStep, Zenon DEF CrIInv
<1> QED  BY <1>1, <1>2

(* final() on either side.  *)
LEMMA FinalEncryptKeeps ==
  ASSUME CrIInv, NEW tamper \in {"nothing", "text", "tag"}, FinalEncrypt(tamper) PROVE CrIInv'
<1> DEFINE f    == CipherFinal(cr.enc)
           text == cr.sent \o f.out
           g    == CipherGetAuthTag(f.c)
           bad  == tamper # "nothing"
           tag  == IF tamper = "tag" THEN <<"other">> ELSE g.tag
           rest == IF tamper = "text" THEN [text EXCEPT ![1] = <<Garbage, <<0, 0>>>>] ELSE text
<1>0. /\ SessionOK(cr) /\ IsSession(cr) /\ PlainFieldsOK(cr) /\ CipherOK(cr)
      /\ cr.use \in Ciphers /\ cr.phase = "encrypt" /\ cr.todo = <<>>
  BY DEF CrIInv, SessionOK, FinalEncrypt
<1>1. /\ tamper = "text" => text # <<>>
      /\ cr' = [cr EXCEPT !.enc = g, !.sent = text, !.phase = "decrypt", !.tampered = bad,
                          !.tag = tag, !.todo = rest]
  BY Zenon DEF FinalEncrypt
<1>2. SendOK(cr) /\ cr.verdict = "none"
  BY <1>0 DEF CipherOK
<1> HIDE DEF text, g, bad, tag, rest
<1>3. /\ IsSession(cr') /\ cr'.todo = rest /\ cr'.uneven = cr.uneven /\ cr'.use = cr.use
      /\ cr'.asked = cr.asked /\ cr'.got = cr.got /\ cr'.dec = cr.dec /\ cr'.enc = g
      /\ cr'.sent = text /\ cr'.misused = cr.misused /\ cr'.tag = tag
      /\ cr'.tampered = bad /\ cr'.verdict = cr.verdict /\ cr'.phase = "decrypt"
      /\ SameKeys(cr, cr')
  BY <1>0, <1>1 DEF IsSession, CrFields, SameKeys
<1>4. ReceiveOK(cr') /\ cr'.enc.gets \in 0..2
  <2>1. /\ cr'.sent = cr.sent \o CipherFinal(cr.enc).out
        /\ cr'.enc = CipherGetAuthTag(CipherFinal(cr.enc).c)
    BY <1>3, Zenon DEF text, g
  <2>2. /\ cr'.tampered <=> (tamper # "nothing")
        /\ cr'.tag = IF tamper = "tag" THEN <<"other">> ELSE cr'.enc.tag
        /\ tamper = "text" => cr'.sent # <<>>
    BY <1>1, <1>3 DEF tag, bad
  <2>3. cr'.todo = IF tamper = "text" THEN [cr'.sent EXCEPT ![1] = <<Garbage, <<0, 0>>>>] ELSE cr'.sent
    BY <1>3, Zenon DEF rest
  <2> QED  BY <1>0, <1>2, <1>3, <2>1, <2>2, <2>3, SendEnds, Zenon
<1>5. CipherOK(cr')
  BY <1>2, <1>3, <1>4 DEF CipherOK
<1>6. PlainFieldsOK(cr')
  BY <1>0, <1>3, <1>4 DEF PlainFieldsOK
<1> QED  BY <1>0, <1>3, <1>5, <1>6, CipherStep, Zenon DEF CrIInv

LEMMA FinalDecryptKeeps == ASSUME CrIInv, FinalDecrypt PROVE CrIInv'
<1> DEFINE f    == CipherFinal(cr.dec)
           newc == f.c
           got  == cr.got \o f.out
           no   == cr.asked /\ ~CipherSetAuthTag(f.c, cr.pending)
<1>0. /\ SessionOK(cr) /\ IsSession(cr) /\ PlainFieldsOK(cr) /\ CipherOK(cr)
      /\ cr.use \in Ciphers /\ cr.phase = "decrypt" /\ cr.todo = <<>> /\ cr.verdict = "none"
  BY DEF CrIInv, SessionOK, FinalDecrypt
<1>1. cr' = IF no THEN [cr EXCEPT !.dec = newc, !.verdict = "throws"]
            ELSE [cr EXCEPT !.dec = newc, !.got = got, !.verdict = "ok"]
  BY Zenon DEF FinalDecrypt, FinalDecrypts
<1>2. ReceiveOK(cr)
  BY <1>0 DEF CipherOK
<1> HIDE DEF newc, got, no
<1>3. /\ IsSession(cr') /\ cr'.uneven = cr.uneven /\ cr'.use = cr.use
      /\ cr'.asked = cr.asked /\ cr'.dec = newc /\ cr'.enc = cr.enc
      /\ cr'.misused = cr.misused /\ cr'.tampered = cr.tampered /\ cr'.phase = cr.phase
      /\ SameKeys(cr, cr')
      /\ IF no THEN cr'.verdict = "throws" ELSE cr'.verdict = "ok" /\ cr'.got = got
  <2>1. CASE no
    BY <1>0, <1>1, <2>1 DEF IsSession, CrFields, SameKeys
  <2>2. CASE ~no
    BY <1>0, <1>1, <2>2 DEF IsSession, CrFields, SameKeys
  <2> QED  BY <2>1, <2>2
<1>4. OverOK(cr') /\ cr'.dec.gets \in 0..1
  <2>1. cr'.dec = CipherFinal(cr.dec).c
    BY <1>3, Zenon DEF newc
  <2>2. IF cr.asked /\ ~CipherSetAuthTag(CipherFinal(cr.dec).c, cr.pending)
        THEN cr'.verdict = "throws"
        ELSE cr'.verdict = "ok" /\ cr'.got = cr.got \o CipherFinal(cr.dec).out
    BY <1>3, Zenon DEF no, got
  <2> QED  BY <1>0, <1>2, <1>3, <2>1, <2>2, ReceiveEnds, Zenon
<1>5. cr'.verdict \in {"ok", "throws"}
  BY <1>3
<1>6. CipherOK(cr')
  BY <1>0, <1>3, <1>4, <1>5 DEF CipherOK
<1>7. PlainFieldsOK(cr')
  BY <1>0, <1>3, <1>4, <1>5 DEF PlainFieldsOK
<1> QED  BY <1>0, <1>3, <1>6, <1>7, CipherStep, Zenon DEF CrIInv

(* Sign and Verify: a chunk is kept, and the kept chunks are hashed.  *)
LEMMA ChunkKept ==
  ASSUME NEW s, NEW t, NEW data, ChunksOf(s, data), NEW n \in 1..Len(s.todo),
         t.todo = SubSeq(s.todo, n + 1, Len(s.todo)),
         t.state = Append(s.state, SubSeq(s.todo, 1, n))
  PROVE  ChunksOf(t, data)
<1> DEFINE x == SubSeq(s.todo, 1, n)
           a == FlattenSeq(s.state)
<1>0. s.state \in Seq(Seq(Nat)) /\ s.todo \in Seq(Nat) /\ Joins(a, s.todo, data)
  BY DEF ChunksOf
<1>1. n \in 0..Len(s.todo)
  BY <1>0
<1>2. x \in Seq(Nat) /\ t.todo \in Seq(Nat) /\ Joins(x, t.todo, s.todo)
  <2> DEFINE w == s.todo
  <2>1. w \in Seq(Nat) /\ n \in 0..Len(w)
    BY <1>0, <1>1
  <2> HIDE DEF w
  <2>2. /\ SubSeq(w, 1, n) \in Seq(Nat) /\ SubSeq(w, n + 1, Len(w)) \in Seq(Nat)
        /\ SubSeq(w, 1, n) \o SubSeq(w, n + 1, Len(w)) = w
    BY <2>1, Cut, Zenon
  <2> QED  BY <2>2, Zenon DEF Joins, w
<1>3. a \in Seq(Nat)
  BY <1>0, FlattenType
<1>4. t.state = Append(s.state, x)
  OBVIOUS
<1> HIDE DEF x, a
<1>5. Joins(a \o x, t.todo, data)
  BY <1>0, <1>2, <1>3, PieceMoves, Zenon
<1>6. FlattenSeq(t.state) = a \o x
  <2>1. FlattenSeq(Append(s.state, x)) = FlattenSeq(s.state) \o x
    BY <1>0, <1>2, FlattenAppend, Zenon
  <2> QED  BY <1>4, <2>1 DEF a
<1>7. t.state \in Seq(Seq(Nat))
  <2> DEFINE T == Seq(Nat)
  <2>1. s.state \in Seq(T) /\ x \in T
    BY <1>0, <1>2
  <2> HIDE DEF T
  <2>2. Append(s.state, x) \in Seq(T)
    BY <2>1
  <2> QED  BY <1>4, <2>2 DEF T
<1> QED  BY <1>2, <1>5, <1>6, <1>7, Zenon DEF ChunksOf

(* All chunks together are the data.  *)
LEMMA ChunksAll ==
  ASSUME NEW s, NEW data, ChunksOf(s, data), s.todo = <<>> PROVE HashedChunks(s.state) = data
<1>1. FlattenSeq(s.state) \in Seq(Nat)
  BY FlattenType DEF ChunksOf
<1>2. FlattenSeq(s.state) \o <<>> = FlattenSeq(s.state)
  BY <1>1, ConcatEmpty, Zenon
<1> QED  BY <1>2, Zenon DEF ChunksOf, Joins, HashedChunks

LEMMA SignDataType == ASSUME NEW data \in {Plain, Reverse(Plain)} PROVE data \in Seq(Nat)
<1> DEFINE r == Reverse(Plain)
<1>1. Plain \in Seq(Nat) /\ Len(Plain) = CrUnits /\ CrUnits \in Nat /\ \A i \in 1..CrUnits : Plain[i] \in Nat
  BY PlainType, CryptoAssumption
<1> HIDE DEF Plain
<1>2. r = [i \in 1..CrUnits |-> Plain[(CrUnits - i) + 1]]
  BY <1>1 DEF Reverse
<1>3. \A i \in 1..CrUnits : (CrUnits - i) + 1 \in 1..CrUnits
  BY <1>1
<1>4. r \in [1..CrUnits -> Nat]
  BY <1>1, <1>2, <1>3
<1> HIDE DEF r
<1>5. r \in Seq(Nat)
  BY <1>1, <1>4, SeqOfFunction, Zenon
<1> QED  BY <1>1, <1>5 DEF r

LEMMA SignStepsKeep ==
  ASSUME CrIInv,
         \/ \E n \in 1..CrUnits : SignUpdate(n) \/ VerifyUpdate(n)
         \/ \E data \in {Plain, Reverse(Plain)} : SignData(data)
         \/ Verify
  PROVE  CrIInv'
<1>0. /\ SessionOK(cr) /\ IsSession(cr) /\ PlainFieldsOK(cr) /\ SignOK(cr) /\ cr.use = "sign"
  BY DEF CrIInv, SessionOK, SignUpdate, VerifyUpdate, SignData, Verify
<1>a. cr.verdict \in {"none", "ok", "throws"} /\ cr.phase \in {"encrypt", "decrypt"}
  BY <1>0 DEF PlainFieldsOK
<1>1. ASSUME NEW n, SignUpdate(n) \/ VerifyUpdate(n) PROVE CrIInv'
  <2> DEFINE rest == SubSeq(cr.todo, n + 1, Len(cr.todo))
             chunks == Append(cr.state, SubSeq(cr.todo, 1, n))
  <2>1. cr' = [cr EXCEPT !.todo = rest, !.state = chunks] /\ n \in 1..Len(cr.todo)
    BY <1>1 DEF SignUpdate, VerifyUpdate
  <2>2. cr.verdict = "none"
    BY <1>0, <1>1 DEF SignUpdate, VerifyUpdate, SignOK
  <2> HIDE DEF rest, chunks
  <2>3. /\ IsSession(cr') /\ cr'.todo = rest /\ cr'.state = chunks /\ cr'.use = cr.use
        /\ cr'.phase = cr.phase /\ cr'.verdict = cr.verdict /\ cr'.enc = cr.enc /\ cr'.dec = cr.dec
        /\ cr'.signed = cr.signed /\ cr'.other = cr.other /\ SameKeys(cr, cr')
    BY <1>0, <2>1 DEF IsSession, CrFields, SameKeys
  <2>4. \A data : ChunksOf(cr, data) => ChunksOf(cr', data)
    BY <2>1, <2>3, ChunkKept, Zenon DEF rest, chunks
  <2>5. SignOK(cr')
    BY <1>0, <2>2, <2>3, <2>4 DEF SignOK
  <2> QED  BY <1>0, <1>a, <2>3, <2>5, SignStep, Zenon DEF CrIInv
<1>2. ASSUME NEW data \in {Plain, Reverse(Plain)}, SignData(data) PROVE CrIInv'
  <2> DEFINE h == HashedChunks(cr.state)
  <2>1. /\ cr' = [cr EXCEPT !.signed = h, !.phase = "decrypt", !.state = <<>>,
                            !.todo = data, !.other = data]
        /\ cr.phase = "encrypt" /\ cr.todo = <<>>
    BY <1>2 DEF SignData
  <2>2. cr.verdict = "none" /\ ChunksOf(cr, Plain)
    BY <1>0, <2>1 DEF SignOK
  <2>3. h = Plain
    BY <2>1, <2>2, ChunksAll
  <2> HIDE DEF h
  <2>4. /\ IsSession(cr') /\ cr'.todo = data /\ cr'.state = <<>> /\ cr'.use = cr.use
        /\ cr'.phase = "decrypt" /\ cr'.verdict = cr.verdict /\ cr'.enc = cr.enc /\ cr'.dec = cr.dec
        /\ cr'.signed = h /\ cr'.other = data /\ SameKeys(cr, cr')
    BY <1>0, <2>1 DEF IsSession, CrFields, SameKeys
  <2>5. ChunksOf(cr', data)
    <3>1. data \in Seq(Nat) /\ <<>> \in Seq(Seq(Nat)) /\ FlattenSeq(<<>>) = <<>>
      BY <1>2, SignDataType, FlattenEmpty
    <3>2. <<>> \o data = data
      BY <3>1, ConcatEmpty
    <3> QED  BY <2>4, <3>1, <3>2 DEF ChunksOf, Joins
  <2>6. SignOK(cr')
    BY <2>2, <2>3, <2>4, <2>5 DEF SignOK
  <2> QED  BY <1>0, <1>a, <2>4, <2>6, SignStep, Zenon DEF CrIInv
<1>3. ASSUME Verify PROVE CrIInv'
  <2> DEFINE v == IF HashedChunks(cr.state) = cr.signed THEN "ok" ELSE "throws"
  <2>1. cr' = [cr EXCEPT !.verdict = v] /\ cr.phase = "decrypt" /\ cr.todo = <<>> /\ cr.verdict = "none"
    BY <1>3 DEF Verify
  <2>2. cr.signed = Plain /\ ChunksOf(cr, cr.other)
    BY <1>0, <2>1 DEF SignOK
  <2>3. HashedChunks(cr.state) = cr.other
    BY <2>1, <2>2, ChunksAll
  <2>4. v \in {"ok", "throws"} /\ (v = "ok" <=> cr.other = Plain)
    BY <2>2, <2>3
  <2> HIDE DEF v
  <2>5. /\ IsSession(cr') /\ cr'.use = cr.use /\ cr'.phase = cr.phase /\ cr'.verdict = v
        /\ cr'.enc = cr.enc /\ cr'.dec = cr.dec /\ cr'.other = cr.other /\ SameKeys(cr, cr')
    BY <1>0, <2>1 DEF IsSession, CrFields, SameKeys
  <2>6. SignOK(cr')
    BY <2>1, <2>4, <2>5 DEF SignOK
  <2> QED  BY <1>0, <1>a, <2>4, <2>5, <2>6, SignStep, Zenon DEF CrIInv
<1> QED  BY <1>1, <1>2, <1>3

LEMMA HashStepsKeep ==
  ASSUME CrIInv, (\E n \in 1..CrUnits : HashUpdate(n)) \/ Digest
  PROVE  CrIInv'
<1>0. /\ IsSession(cr) /\ KeysOK(cr) /\ PlainFieldsOK(cr) /\ HashOK(cr) /\ cr.use = "hash"
  BY DEF CrIInv, SessionOK, HashUpdate, Digest
<1> DEFINE Kept ==
             /\ IsSession(cr') /\ cr'.use = cr.use /\ cr'.phase = cr.phase
             /\ cr'.verdict = cr.verdict /\ cr'.enc = cr.enc /\ cr'.dec = cr.dec
             /\ SameKeys(cr, cr') /\ HashOK(cr')
<1>1. Kept
  <2>1. ASSUME NEW n, HashUpdate(n) PROVE Kept
    <3> DEFINE chunk == SubSeq(cr.todo, 1, n)
               rest == SubSeq(cr.todo, n + 1, Len(cr.todo))
               fed == cr.fed \o chunk
               state == cr.state \o chunk
    <3>1. cr' = [cr EXCEPT !.todo = rest, !.fed = fed, !.state = state, !.asked = FALSE]
      BY <2>1 DEF HashUpdate
    <3>2. fed = state
      BY <1>0 DEF HashOK
    <3> HIDE DEF rest, fed, state
    <3>3. /\ IsSession(cr') /\ cr'.use = cr.use /\ cr'.phase = cr.phase
          /\ cr'.verdict = cr.verdict /\ cr'.enc = cr.enc /\ cr'.dec = cr.dec
          /\ SameKeys(cr, cr') /\ cr'.fed = fed /\ cr'.state = state /\ cr'.asked = FALSE
      BY <1>0, <3>1 DEF IsSession, CrFields, SameKeys
    <3> QED  BY <3>2, <3>3 DEF HashOK
  <2>2. ASSUME Digest PROVE Kept
    <3>1. /\ IsSession(cr') /\ cr'.use = cr.use /\ cr'.phase = cr.phase
          /\ cr'.verdict = cr.verdict /\ cr'.enc = cr.enc /\ cr'.dec = cr.dec
          /\ SameKeys(cr, cr') /\ cr'.fed = cr.fed /\ cr'.state = cr.state /\ cr'.digest = cr.state
      BY <1>0, <2>2 DEF Digest, HashOut, IsSession, CrFields, SameKeys
    <3> QED  BY <1>0, <3>1 DEF HashOK
  <2> QED  BY <2>1, <2>2
<1>2. KeysOK(cr')
  BY <1>0, <1>1, KeysStay, Zenon
<1>3. PlainFieldsOK(cr')
  BY <1>0, <1>1 DEF PlainFieldsOK
<1> QED  BY <1>0, <1>1, <1>2, <1>3 DEF CrIInv, SessionOK, Ciphers

(* What is to be shown of a step of ECDH.  *)
SameOthers(s, t) ==
  /\ IsSession(t) /\ t.use = s.use /\ t.phase = s.phase /\ t.verdict = s.verdict
  /\ t.enc = s.enc /\ t.dec = s.dec

LEMMA KeyStep ==
  ASSUME NEW s, NEW t, s.use = "ecdh", PlainFieldsOK(s), SameOthers(s, t), KeysOK(t)
  PROVE  SessionOK(t)
BY DEF SessionOK, PlainFieldsOK, SameOthers, Ciphers

LEMMA KeyStepsKeep ==
  ASSUME CrIInv, NEW p \in Sides,
         \/ GenerateKeys(p) \/ SetPrivateKey(p) \/ ShowPublicKey(p)
         \/ \E q \in Sides : ComputeSecret(p, q)
  PROVE  CrIInv'
<1>0. IsSession(cr) /\ cr.use = "ecdh" /\ KeysOK(cr) /\ PlainFieldsOK(cr)
  BY DEF CrIInv, SessionOK, GenerateKeys, SetPrivateKey, ShowPublicKey, ComputeSecret
<1>1. CASE GenerateKeys(p) \/ SetPrivateKey(p)
  <2>1. PICK x \in {0, cr.made + 1} :
          /\ SameOthers(cr, cr') /\ cr'.made = cr.made + 1
          /\ cr'.priv = [cr.priv EXCEPT ![p] = cr.made + 1] /\ cr'.pub = [cr.pub EXCEPT ![p] = x]
          /\ cr'.shown = cr.shown /\ cr'.secret = [cr.secret EXCEPT ![p] = {}]
    <3> DEFINE m == cr.made + 1
               pr == [cr.priv EXCEPT ![p] = m]
               se == [cr.secret EXCEPT ![p] = {}]
    <3>1. PICK x \in {0, m} :
            cr' = [cr EXCEPT !.made = m, !.priv = pr, !.pub = [cr.pub EXCEPT ![p] = x], !.secret = se]
      BY <1>0, <1>1 DEF GenerateKeys, SetPrivateKey, WithPrivateKey
    <3> DEFINE pu == [cr.pub EXCEPT ![p] = x]
    <3>2. cr' = [cr EXCEPT !.made = m, !.priv = pr, !.pub = pu, !.secret = se]
      BY <3>1
    <3> HIDE DEF m, pr, pu, se
    <3>3. /\ SameOthers(cr, cr') /\ cr'.made = m /\ cr'.priv = pr /\ cr'.pub = pu
          /\ cr'.shown = cr.shown /\ cr'.secret = se
      BY <1>0, <3>2 DEF CrFields, IsSession, SameOthers
    <3> QED  BY <3>1, <3>3 DEF m, pr, pu, se
  <2>2. KeysOK(cr')
    <3>1. /\ cr.made \in 0..MaxKeys /\ cr.priv \in [Sides -> 0..MaxKeys] /\ cr.pub \in [Sides -> 0..MaxKeys]
          /\ cr.secret \in [Sides -> SUBSET (1..MaxKeys)]
      BY <1>0 DEF KeysOK
    <3>2. \A s \in Sides :
            /\ cr'.priv[s] = IF s = p THEN cr.made + 1 ELSE cr.priv[s]
            /\ cr'.pub[s] = IF s = p THEN x ELSE cr.pub[s]
            /\ cr'.secret[s] = IF s = p THEN {} ELSE cr.secret[s]
      BY <2>1, <3>1
    <3>3. /\ cr'.made \in 0..MaxKeys /\ cr'.priv \in [Sides -> 0..MaxKeys] /\ cr'.pub \in [Sides -> 0..MaxKeys]
          /\ cr'.shown \in [Sides -> 0..MaxKeys] /\ cr'.secret \in [Sides -> SUBSET (1..MaxKeys)]
      <4>1. cr.made < MaxKeys /\ MaxKeys \in Nat
        BY <1>1, CryptoAssumption DEF GenerateKeys, SetPrivateKey
      <4> DEFINE K == 0..MaxKeys
                 m == cr.made + 1
      <4>2. cr'.made \in K /\ m \in K /\ x \in K
        BY <2>1, <3>1, <4>1
      <4>3. cr'.priv = [cr.priv EXCEPT ![p] = m] /\ cr.shown \in [Sides -> K]
        BY <1>0, <2>1 DEF KeysOK
      <4> HIDE DEF K, m
      <4>4. cr'.priv \in [Sides -> K] /\ cr'.pub \in [Sides -> K] /\ cr'.shown \in [Sides -> K]
        BY <2>1, <3>1, <4>2, <4>3 DEF K
      <4>5. cr'.secret \in [Sides -> SUBSET (1..MaxKeys)]
        BY <2>1, <3>1
      <4> QED  BY <4>2, <4>4, <4>5 DEF K
    <3>4. \A s \in Sides : cr'.priv[s] =< cr'.made /\ cr'.pub[s] \in {0, cr'.priv[s]}
      <4>1. \A s \in Sides : cr.priv[s] =< cr.made /\ cr.pub[s] \in {0, cr.priv[s]}
        BY <1>0 DEF KeysOK
      <4>2. \A s \in Sides : cr.priv[s] \in Nat
        BY <3>1
      <4> QED  BY <2>1, <3>1, <3>2, <4>1, <4>2
    <3>5. \A s, t \in Sides : s # t /\ cr'.priv[s] # 0 => cr'.priv[s] # cr'.priv[t]
      <4>1. \A s \in Sides : cr.priv[s] \in Nat /\ cr.priv[s] =< cr.made
        BY <1>0, <3>1 DEF KeysOK
      <4>2. \A s \in Sides : cr.priv[s] # cr.made + 1
        BY <3>1, <4>1
      <4>3. \A s, t \in Sides : s # t /\ cr.priv[s] # 0 => cr.priv[s] # cr.priv[t]
        BY <1>0 DEF KeysOK
      <4> SUFFICES ASSUME NEW s \in Sides, NEW t \in Sides, s # t, cr'.priv[s] # 0
                   PROVE  cr'.priv[s] # cr'.priv[t]
        OBVIOUS
      <4> QED  BY <3>2, <4>2, <4>3
    <3>6. \A s \in Sides : cr'.secret[s] # {} => \E y \in cr'.secret[s] : cr'.secret[s] = {cr'.priv[s], y}
      BY <1>0, <3>2 DEF KeysOK
    <3> QED  BY <3>3, <3>4, <3>5, <3>6 DEF KeysOK
  <2> QED  BY <1>0, <2>1, <2>2, KeyStep, Zenon DEF CrIInv
<1>2. CASE ShowPublicKey(p)
  <2>0. /\ cr.made \in 0..MaxKeys /\ cr.priv \in [Sides -> 0..MaxKeys] /\ cr.pub \in [Sides -> 0..MaxKeys]
        /\ cr.shown \in [Sides -> 0..MaxKeys] /\ cr.secret \in [Sides -> SUBSET (1..MaxKeys)]
    BY <1>0 DEF KeysOK
  <2>a. \A s \in Sides : cr.priv[s] =< cr.made /\ cr.pub[s] \in {0, cr.priv[s]}
    BY <1>0 DEF KeysOK
  <2>b. \A s, t \in Sides : s # t /\ cr.priv[s] # 0 => cr.priv[s] # cr.priv[t]
    BY <1>0 DEF KeysOK
  <2>c. \A s \in Sides : cr.secret[s] # {} => \E y \in cr.secret[s] : cr.secret[s] = {cr.priv[s], y}
    BY <1>0 DEF KeysOK
  <2>1. /\ SameOthers(cr, cr') /\ cr'.made = cr.made
        /\ cr'.priv = cr.priv /\ cr'.pub = cr.pub /\ cr'.secret = cr.secret
        /\ cr'.shown = [cr.shown EXCEPT ![p] = cr.pub[p]]
    BY <1>0, <1>2 DEF ShowPublicKey, CrFields, IsSession, SameOthers
  <2>2. cr'.shown \in [Sides -> 0..MaxKeys]
    BY <1>0, <2>1 DEF KeysOK
  <2>d. \A s \in Sides : cr'.secret[s] # {} => \E y \in cr'.secret[s] : cr'.secret[s] = {cr'.priv[s], y}
    BY <2>1, <2>c
  <2>3. KeysOK(cr')
    BY <2>0, <2>1, <2>2, <2>a, <2>b, <2>d DEF KeysOK
  <2> QED  BY <1>0, <2>1, <2>3, KeyStep, Zenon DEF CrIInv
<1>3. ASSUME NEW q \in Sides, ComputeSecret(p, q) PROVE CrIInv'
  <2>0. /\ cr.made \in 0..MaxKeys /\ cr.priv \in [Sides -> 0..MaxKeys] /\ cr.pub \in [Sides -> 0..MaxKeys]
        /\ cr.shown \in [Sides -> 0..MaxKeys] /\ cr.secret \in [Sides -> SUBSET (1..MaxKeys)]
    BY <1>0 DEF KeysOK
  <2>a. \A s \in Sides : cr.priv[s] =< cr.made /\ cr.pub[s] \in {0, cr.priv[s]}
    BY <1>0 DEF KeysOK
  <2>b. \A s, t \in Sides : s # t /\ cr.priv[s] # 0 => cr.priv[s] # cr.priv[t]
    BY <1>0 DEF KeysOK
  <2>c. \A s \in Sides : cr.secret[s] # {} => \E y \in cr.secret[s] : cr.secret[s] = {cr.priv[s], y}
    BY <1>0 DEF KeysOK
  <2>1. /\ SameOthers(cr, cr') /\ cr'.made = cr.made
        /\ cr'.priv = cr.priv /\ cr'.pub = cr.pub /\ cr'.shown = cr.shown
        /\ cr'.secret = [cr.secret EXCEPT ![p] = {cr.priv[p], cr.shown[q]}]
    BY <1>0, <1>3 DEF ComputeSecret, CrFields, IsSession, SameOthers
  <2>2. KeysOK(cr')
    <3>1. cr.priv[p] \in Nat /\ cr.shown[q] \in Nat /\ cr.secret \in [Sides -> SUBSET (1..MaxKeys)]
      BY <2>0
    <3>2. \A s \in Sides :
            cr'.secret[s] = IF s = p THEN {cr.priv[p], cr.shown[q]} ELSE cr.secret[s]
      BY <2>1, <3>1
    <3>3. cr'.secret \in [Sides -> SUBSET (1..MaxKeys)]
      <4> DEFINE new == {cr.priv[p], cr.shown[q]}
      <4>1. cr.priv[p] \in 1..MaxKeys /\ cr.shown[q] \in 1..MaxKeys
        <5>1. cr.priv[p] # 0 /\ cr.shown[q] # 0
          BY <1>3 DEF ComputeSecret
        <5>2. cr.priv[p] \in 0..MaxKeys /\ cr.shown[q] \in 0..MaxKeys
          BY <2>0
        <5> QED  BY <5>1, <5>2, CryptoAssumption
      <4>2. new \in SUBSET (1..MaxKeys)
        BY <4>1
      <4>3. cr'.secret = [cr.secret EXCEPT ![p] = new]
        BY <2>1
      <4> HIDE DEF new
      <4> QED  BY <3>1, <4>2, <4>3
    <3>4. \A s \in Sides : cr'.secret[s] # {} => \E y \in cr'.secret[s] : cr'.secret[s] = {cr'.priv[s], y}
      <4> SUFFICES ASSUME NEW s \in Sides, cr'.secret[s] # {}
                   PROVE  \E y \in cr'.secret[s] : cr'.secret[s] = {cr.priv[s], y}
        BY <2>1
      <4>1. CASE s = p
        BY <4>1, <3>1, <3>2
      <4>2. CASE s # p
        BY <4>2, <3>2, <2>c
      <4> QED  BY <4>1, <4>2
    <3>5. /\ cr'.made \in 0..MaxKeys /\ cr'.priv \in [Sides -> 0..MaxKeys]
          /\ cr'.pub \in [Sides -> 0..MaxKeys] /\ cr'.shown \in [Sides -> 0..MaxKeys]
          /\ \A s \in Sides : cr'.priv[s] =< cr'.made /\ cr'.pub[s] \in {0, cr'.priv[s]}
          /\ \A s, t \in Sides : s # t /\ cr'.priv[s] # 0 => cr'.priv[s] # cr'.priv[t]
      <4>1. cr'.made = cr.made /\ cr'.priv = cr.priv /\ cr'.pub = cr.pub /\ cr'.shown = cr.shown
        BY <2>1
      <4> QED  BY <2>0, <2>a, <2>b, <4>1
    <3> QED  BY <3>3, <3>4, <3>5 DEF KeysOK
  <2> QED  BY <1>0, <2>1, <2>2, KeyStep, Zenon DEF CrIInv
<1> QED  BY <1>1, <1>2, <1>3


LEMMA CrIInvImplies == CrIInv => CryptoInv
<1> SUFFICES ASSUME CrIInv PROVE CryptoInv
  OBVIOUS
<1>0. SessionOK(cr) /\ KeysOK(cr) /\ PlainFieldsOK(cr)
  BY DEF CrIInv, SessionOK
<1>1. DigestIsOfAllFed
  BY <1>0 DEF SessionOK, HashOK, DigestIsOfAllFed
<1>2. SecretsAgree
  <2> SUFFICES ASSUME cr.use = "ecdh", NEW p \in Sides, NEW q \in Sides, p # q,
                      cr.secret[p] # {}, cr.secret[q] # {}, cr.pub[p] # 0, cr.pub[q] # 0,
                      cr.shown[q] = cr.pub[q], cr.shown[p] = cr.pub[p],
                      cr.shown[q] \in cr.secret[p], cr.shown[p] \in cr.secret[q]
               PROVE  cr.secret[p] = cr.secret[q]
    BY DEF SecretsAgree
  <2>2. PICK x \in cr.secret[p], y \in cr.secret[q] :
          cr.secret[p] = {cr.priv[p], x} /\ cr.secret[q] = {cr.priv[q], y}
    BY <1>0 DEF KeysOK
  <2>3. cr.pub[p] = cr.priv[p] /\ cr.pub[q] = cr.priv[q] /\ cr.priv[p] # cr.priv[q]
    BY <1>0 DEF KeysOK
  <2>4. x = cr.priv[q] /\ y = cr.priv[p]
    BY <2>2, <2>3
  <2> QED  BY <2>2, <2>4
<1>3. CrTypeOK
  BY <1>0 DEF CrTypeOK, KeysOK, PlainFieldsOK
<1>4. RoundTrips /\ ChangesAreNoticed
  <2>1. cr.use \in Ciphers /\ cr.verdict # "none" => OverOK(cr)
    BY <1>0 DEF SessionOK, CipherOK
  <2>2. RoundTrips
    BY <2>1 DEF RoundTrips, OverOK, SameAAD
  <2>3. ChangesAreNoticed
    BY <2>1 DEF ChangesAreNoticed, OverOK, SameAAD, Ciphers
  <2> QED  BY <2>2, <2>3
<1>5. SignatureIsOfTheData
  BY <1>0 DEF SessionOK, SignOK, SignatureIsOfTheData
<1> QED  BY <1>1, <1>2, <1>3, <1>4, <1>5 DEF CryptoInv

LEMMA CrNextKeeps == ASSUME CrIInv, CrNext PROVE CrIInv'
<1>1. CASE CrBegin
  <2>1. PICK use : cr' = NewSession(use)
    BY <1>1 DEF CrBegin
  <2> QED  BY <2>1, NewSessionOK DEF CrIInv
<1>2. ASSUME NEW n \in 1..CrUnits, Update(n) \/ HashUpdate(n) \/ SignUpdate(n) \/ VerifyUpdate(n)
      PROVE  CrIInv'
  BY <1>2, UpdateKeeps, HashStepsKeep, SignStepsKeep
<1>3. CASE SetAAD \/ EarlyGetAuthTag \/ SetAuthTag \/ FinalDecrypt
  BY <1>3, SetAADKeeps, AuthTagKeeps, FinalDecryptKeeps
<1>4. ASSUME NEW tamper \in {"nothing", "text", "tag"}, FinalEncrypt(tamper) PROVE CrIInv'
  BY <1>4, FinalEncryptKeeps
<1>5. CASE Digest \/ Verify \/ \E data \in {Plain, Reverse(Plain)} : SignData(data)
  BY <1>5, HashStepsKeep, SignStepsKeep
<1>6. ASSUME NEW p \in Sides,
             \/ GenerateKeys(p) \/ SetPrivateKey(p) \/ ShowPublicKey(p)
             \/ \E q \in Sides : ComputeSecret(p, q)
      PROVE  CrIInv'
  BY <1>6, KeyStepsKeep
<1> QED  BY <1>1, <1>2, <1>3, <1>4, <1>5, <1>6, Zenon DEF CrNext

(* What was encrypted decrypts to itself, however each side cuts its input;  *)
(* text, a tag or additional data that were changed on the way make final()  *)
(* throw; a digest is of all that was fed until it was read; a signature is  *)
(* accepted for the data that was signed and for no other; and two sides of  *)
(* an ECDH that each computed a secret from the key the other one shows have *)
(* the same one.  For every length of text and block and number of keys.     *)
THEOREM CryptoAgrees == Spec => []CryptoInv
<1>1. Init => CrIInv
  BY NewSessionOK DEF Init, CrInit, CrIInv
<1>2. CrIInv /\ [Next]_vars => CrIInv'
  <2> SUFFICES ASSUME CrIInv, [Next]_vars PROVE CrIInv'
    OBVIOUS
  <2>1. CrNext \/ UNCHANGED cr
    BY DEF Next, vars
  <2>2. CASE UNCHANGED cr
    BY <2>2 DEF CrIInv
  <2> QED  BY <2>1, <2>2, CrNextKeeps
<1> QED  BY <1>1, <1>2, CrIInvImplies, PTL DEF Spec


-----------------------------------------------------------------------------
(* TLS.  What drive and the engine hold between two steps.                   *)

TlsOps == {"handshake", "write", "flush", "read", "close"}

TlFields ==
  {"hs", "rec", "made", "app", "inapp", "closing", "told", "closed", "op", "at", "leftover",
   "need", "sends", "given", "got", "failed", "shut", "acked", "took", "wire", "socket",
   "source", "eof", "cut", "aborted"}

IsTl(e) == e = [f \in TlFields |-> e[f]]

(* The i-th unit that the peer sends in all.  *)
Sent(i) == IF i =< 2 THEN Hs ELSE i - 2

(* s holds what is sent from the k-th unit on.  *)
From(s, k) == \A i \in 1..Len(s) : s[i] = Sent(k + i)

(* s counts on from k.  *)
Counts(s, k) == \A i \in 1..Len(s) : s[i] = k + i

(* Records are numbered through: those that went out, then those on offer.   *)
RecordsOK(e) ==
  /\ e.rec \in Seq(Nat) /\ e.wire \in Seq(Nat) /\ e.made \in Nat /\ e.acked \in Nat
  /\ e.acked = Len(e.wire) /\ e.made = e.acked + Len(e.rec)
  /\ Counts(e.wire, 0) /\ Counts(e.rec, e.acked)

(* The plaintext that was read, g units, and the plaintext that waits, i     *)
(* units, are all that was taken in, until the engine closes.                *)
DataCount(hs, took, g, i, closing, closed) ==
  /\ g + i =< TlsData
  /\ closed => closing
  /\ closing => i = 0
  /\ ~closing => /\ took =< TlsData + 2
                 /\ hs = IF took < 2 THEN 2 - took ELSE 0
                 /\ g + i = IF took < 2 THEN 0 ELSE took - 2

(* It is the data from its beginning on.  *)
DataOK(e) ==
  /\ e.app = 0 /\ e.took \in Nat /\ e.got \in Seq(Nat) /\ e.inapp \in Seq(Nat)
  /\ DataCount(e.hs, e.took, Len(e.got), Len(e.inapp), e.closing, e.closed)
  /\ Counts(e.got, 0) /\ Counts(e.inapp, Len(e.got))

(* What is kept, what is in the stream and what the peer has still to send   *)
(* follow on what was taken.                                                 *)
InputFrom(took, kept, socket, source) ==
  /\ kept \in Seq(Nat) /\ socket \in Seq(Nat) /\ source \in Seq(Nat)
  /\ took + Len(kept) + Len(socket) + Len(source) = TlsData + 3
  /\ From(kept, took)
  /\ From(socket, took + Len(kept))
  /\ From(source, took + Len(kept) + Len(socket))

InputOK(e) == InputFrom(e.took, e.leftover, e.socket, e.source)

(* writeAll is owed what is not copied yet.  *)
OwedOK(e) ==
  /\ e.need \in 0..MaxSends /\ e.sends \in Nat /\ e.given \in Nat
  /\ e.op = "write" => e.sends + e.need = e.given
  /\ e.op \in {"new", "handshake", "flush", "read"} => e.sends = e.given
  /\ e.op = "idle" => e.failed \/ e.shut \/ e.sends = e.given
  /\ e.op = "close" => e.shut

(* Where the operation under way stands.  *)
StandsOK(e) ==
  /\ \/ e.op \in TlsOps /\ e.at \in {"run", "write", "read", "lost"}
     \/ e.op \in {"new", "idle"} /\ e.at = "over"
  /\ e.at = "write" => e.rec # <<>>
  /\ e.at = "read" => e.leftover = <<>>

TlsIInv(e) == IsTl(e) /\ RecordsOK(e) /\ DataOK(e) /\ InputOK(e) /\ OwedOK(e) /\ StandsOK(e)

(* The parts of a connection that a step may leave alone.  *)
SameRecords(e, f) == f.rec = e.rec /\ f.made = e.made /\ f.acked = e.acked /\ f.wire = e.wire
SameData(e, f) ==
  /\ f.app = e.app /\ f.hs = e.hs /\ f.took = e.took /\ f.got = e.got /\ f.inapp = e.inapp
  /\ f.closing = e.closing /\ f.closed = e.closed
SameInput(e, f) == f.leftover = e.leftover /\ f.socket = e.socket /\ f.source = e.source
SameCall(e, f) ==
  /\ f.op = e.op /\ f.at = e.at /\ f.need = e.need /\ f.sends = e.sends /\ f.given = e.given
  /\ f.failed = e.failed /\ f.shut = e.shut

LEMMA TlPartsStay ==
  ASSUME NEW e, NEW f
  PROVE  /\ SameRecords(e, f) /\ RecordsOK(e) => RecordsOK(f)
         /\ SameData(e, f) /\ DataOK(e) => DataOK(f)
         /\ SameInput(e, f) /\ f.took = e.took /\ InputOK(e) => InputOK(f)
         /\ SameCall(e, f) /\ OwedOK(e) => OwedOK(f)
<1>1. SameRecords(e, f) /\ RecordsOK(e) => RecordsOK(f)
  BY DEF SameRecords, RecordsOK
<1>2. SameData(e, f) /\ DataOK(e) => DataOK(f)
  BY DEF SameData, DataOK, DataCount
<1>3. SameInput(e, f) /\ f.took = e.took /\ InputOK(e) => InputOK(f)
  BY DEF SameInput, InputOK
<1>4. SameCall(e, f) /\ OwedOK(e) => OwedOK(f)
  BY DEF SameCall, OwedOK
<1> QED  BY <1>1, <1>2, <1>3, <1>4

(* Numbers that count on.  *)
LEMMA CountsAppend ==
  ASSUME NEW s \in Seq(Nat), NEW k \in Nat, Counts(s, k), NEW x, x = k + Len(s) + 1
  PROVE  /\ Append(s, x) \in Seq(Nat) /\ Len(Append(s, x)) = Len(s) + 1
         /\ Counts(Append(s, x), k)
<1> DEFINE t == Append(s, x)
<1>1. /\ x \in Nat /\ t \in Seq(Nat) /\ Len(t) = Len(s) + 1 /\ t[Len(s) + 1] = x /\ Len(s) \in Nat
      /\ \A i \in 1..Len(s) : t[i] = s[i]
  OBVIOUS
<1> HIDE DEF t
<1>2. ASSUME NEW i \in 1..Len(t) PROVE t[i] = k + i
  <2>1. CASE i = Len(s) + 1
    BY <1>1, <2>1
  <2>2. CASE i # Len(s) + 1
    <3>1. i \in 1..Len(s)
      BY <1>1, <2>2
    <3> QED  BY <1>1, <3>1 DEF Counts
  <2> QED  BY <2>1, <2>2
<1> QED  BY <1>1, <1>2 DEF Counts, t

LEMMA CountsTail ==
  ASSUME NEW s \in Seq(Nat), s # <<>>, NEW k \in Nat, Counts(s, k)
  PROVE  /\ Head(s) = k + 1 /\ Tail(s) \in Seq(Nat) /\ Len(Tail(s)) = Len(s) - 1
         /\ Counts(Tail(s), k + 1) /\ Len(s) \in Nat \ {0}
<1>1. /\ Tail(s) \in Seq(Nat) /\ Len(Tail(s)) = Len(s) - 1 /\ Head(s) = s[1]
      /\ Len(s) \in Nat \ {0} /\ \A i \in 1..(Len(s) - 1) : Tail(s)[i] = s[i + 1]
  OBVIOUS
<1> DEFINE t == Tail(s)
<1> HIDE DEF t
<1>2. ASSUME NEW i \in 1..Len(t) PROVE t[i] = (k + 1) + i
  <2>1. i \in 1..(Len(s) - 1) /\ i + 1 \in 1..Len(s)
    BY <1>1 DEF t
  <2>2. t[i] = s[i + 1] /\ s[i + 1] = k + (i + 1)
    BY <1>1, <2>1 DEF t, Counts
  <2> QED  BY <2>1, <2>2
<1>3. s[1] = k + 1
  BY <1>1 DEF Counts
<1> QED  BY <1>1, <1>2, <1>3 DEF Counts, t

LEMMA CountsJoin ==
  ASSUME NEW a \in Seq(Nat), NEW b \in Seq(Nat), Counts(a, 0), Counts(b, Len(a))
  PROVE  a \o b \in Seq(Nat) /\ Len(a \o b) = Len(a) + Len(b) /\ Counts(a \o b, 0)
<1> DEFINE t == a \o b
<1>1. /\ t \in Seq(Nat) /\ Len(t) = Len(a) + Len(b) /\ Len(a) \in Nat /\ Len(b) \in Nat
      /\ \A i \in 1..Len(a) : t[i] = a[i]
      /\ \A i \in 1..Len(b) : t[Len(a) + i] = b[i]
  OBVIOUS
<1> HIDE DEF t
<1>2. ASSUME NEW i \in 1..Len(t) PROVE t[i] = 0 + i
  <2>1. CASE i \in 1..Len(a)
    BY <1>1, <2>1 DEF Counts
  <2>2. CASE ~(i \in 1..Len(a))
    <3>1. i - Len(a) \in 1..Len(b) /\ Len(a) + (i - Len(a)) = i
      BY <1>1, <2>2
    <3>2. t[i] = b[i - Len(a)] /\ b[i - Len(a)] = Len(a) + (i - Len(a))
      BY <1>1, <3>1 DEF Counts
    <3> QED  BY <3>1, <3>2
  <2> QED  BY <2>1, <2>2
<1> QED  BY <1>1, <1>2 DEF Counts, t

LEMMA CountsIs ==
  ASSUME NEW s \in Seq(Nat), Counts(s, 0)
  PROVE  s = [i \in 1..Len(s) |-> i]
<1> DEFINE t == [i \in 1..Len(s) |-> i]
<1>1. t \in Seq(Nat) /\ Len(t) = Len(s)
  <2>1. t \in [1..Len(s) -> Nat] /\ Len(s) \in Nat
    OBVIOUS
  <2> HIDE DEF t
  <2> QED  BY <2>1
<1>2. \A i \in 1..Len(s) : s[i] = t[i]
  BY DEF Counts
<1> HIDE DEF t
<1>3. s = t
  BY <1>1, <1>2, SeqEqual
<1> QED  BY <1>3 DEF t

(* What is sent from somewhere on.  *)
LEMMA FromAppend ==
  ASSUME NEW s \in Seq(Nat), NEW k \in Nat, From(s, k), NEW x \in Nat, x = Sent(k + Len(s) + 1)
  PROVE  /\ Append(s, x) \in Seq(Nat) /\ Len(Append(s, x)) = Len(s) + 1
         /\ From(Append(s, x), k)
<1> DEFINE t == Append(s, x)
<1>1. /\ t \in Seq(Nat) /\ Len(t) = Len(s) + 1 /\ t[Len(s) + 1] = x /\ Len(s) \in Nat
      /\ \A i \in 1..Len(s) : t[i] = s[i]
  OBVIOUS
<1> HIDE DEF t
<1>2. ASSUME NEW i \in 1..Len(t) PROVE t[i] = Sent(k + i)
  <2>1. CASE i = Len(s) + 1
    <3>1. k + Len(s) + 1 = k + i
      BY <1>1, <2>1
    <3> QED  BY <1>1, <2>1, <3>1
  <2>2. CASE i # Len(s) + 1
    <3>1. i \in 1..Len(s)
      BY <1>1, <2>2
    <3> QED  BY <1>1, <3>1 DEF From
  <2> QED  BY <2>1, <2>2
<1> QED  BY <1>1, <1>2 DEF From, t

LEMMA FromCut ==
  ASSUME NEW s \in Seq(Nat), NEW k \in Nat, From(s, k), NEW n \in 0..Len(s)
  PROVE  /\ SubSeq(s, 1, n) \in Seq(Nat) /\ Len(SubSeq(s, 1, n)) = n /\ From(SubSeq(s, 1, n), k)
         /\ SubSeq(s, n + 1, Len(s)) \in Seq(Nat) /\ Len(SubSeq(s, n + 1, Len(s))) = Len(s) - n
         /\ From(SubSeq(s, n + 1, Len(s)), k + n)
<1> DEFINE p == SubSeq(s, 1, n)
           q == SubSeq(s, n + 1, Len(s))
<1>1. /\ p \in Seq(Nat) /\ Len(p) = n /\ (\A i \in 1..n : p[i] = s[i])
      /\ q \in Seq(Nat) /\ Len(q) = Len(s) - n /\ (\A i \in 1..(Len(s) - n) : q[i] = s[n + i])
  BY Cut
<1> HIDE DEF p, q
<1>2. ASSUME NEW i \in 1..Len(p) PROVE p[i] = Sent(k + i)
  <2>1. i \in 1..n /\ i \in 1..Len(s)
    BY <1>1
  <2>2. p[i] = s[i] /\ s[i] = Sent(k + i)
    BY <1>1, <2>1 DEF From
  <2> QED  BY <2>2
<1>3. ASSUME NEW i \in 1..Len(q) PROVE q[i] = Sent(k + n + i)
  <2>1. n + i \in 1..Len(s) /\ k + n + i = k + (n + i)
    BY <1>1
  <2>2. q[i] = s[n + i] /\ s[n + i] = Sent(k + (n + i))
    BY <1>1, <2>1 DEF From
  <2> QED  BY <2>1, <2>2
<1>4. From(p, k) /\ From(q, k + n)
  BY <1>2, <1>3 DEF From
<1> QED  BY <1>1, <1>4 DEF p, q

LEMMA FromTail ==
  ASSUME NEW s \in Seq(Nat), s # <<>>, NEW k \in Nat, From(s, k)
  PROVE  /\ Head(s) = Sent(k + 1) /\ Tail(s) \in Seq(Nat) /\ Len(Tail(s)) = Len(s) - 1
         /\ From(Tail(s), k + 1) /\ Len(s) \in Nat \ {0} /\ Head(s) \in Nat
<1>1. /\ Tail(s) \in Seq(Nat) /\ Len(Tail(s)) = Len(s) - 1 /\ Head(s) = s[1] /\ Head(s) \in Nat
      /\ Len(s) \in Nat \ {0} /\ \A i \in 1..(Len(s) - 1) : Tail(s)[i] = s[i + 1]
  OBVIOUS
<1> DEFINE t == Tail(s)
<1> HIDE DEF t
<1>2. ASSUME NEW i \in 1..Len(t) PROVE t[i] = Sent((k + 1) + i)
  <2>1. i \in 1..(Len(s) - 1) /\ i + 1 \in 1..Len(s) /\ k + (i + 1) = (k + 1) + i
    BY <1>1 DEF t
  <2>2. t[i] = s[i + 1] /\ s[i + 1] = Sent(k + (i + 1))
    BY <1>1, <2>1 DEF t, From
  <2> QED  BY <2>1, <2>2
<1>3. s[1] = Sent(k + 1)
  BY <1>1 DEF From
<1> QED  BY <1>1, <1>2, <1>3 DEF From, t

LEMMA EmptyInput ==
  /\ <<>> \in Seq(Nat) /\ Len(<<>>) = 0 /\ \A k \in Nat : Counts(<<>>, k) /\ From(<<>>, k)
BY DEF Counts, From

-----------------------------------------------------------------------------
(* The engine.                                                               *)

LEMMA OfferOK ==
  ASSUME NEW e, IsTl(e), RecordsOK(e), NEW f, f = Offer(e)
  PROVE  /\ IsTl(f) /\ RecordsOK(f) /\ f.rec # <<>> /\ f.told = e.told
         /\ SameData(e, f) /\ SameInput(e, f) /\ SameCall(e, f)
<1> DEFINE r == Append(e.rec, e.made + 1)
           m == e.made + 1
<1>1. /\ e.rec \in Seq(Nat) /\ e.made \in Nat /\ e.acked \in Nat /\ e.wire \in Seq(Nat)
      /\ e.made = e.acked + Len(e.rec) /\ Counts(e.rec, e.acked)
      /\ e.acked = Len(e.wire) /\ Counts(e.wire, 0)
  BY Zenon DEF RecordsOK
<1>a. Len(e.rec) \in Nat
  BY <1>1, LenIsNat, Zenon
<1>2. r \in Seq(Nat) /\ Len(r) = Len(e.rec) + 1 /\ Counts(r, e.acked)
  <2>1. e.made + 1 = e.acked + Len(e.rec) + 1
    BY <1>1, <1>a
  <2> QED  BY <1>1, <2>1, CountsAppend
<1>3. r # <<>>
  <2>1. Len(r) # 0
    <3> HIDE DEF r
    <3> QED  BY <1>a, <1>2
  <2> HIDE DEF r
  <2> QED  BY <1>2, <2>1
<1>5. m \in Nat /\ m = e.acked + Len(r)
  <2> DEFINE a == Len(e.rec)
             b == Len(r)
             k == e.acked
             n == e.made
  <2>1. a \in Nat /\ b = a + 1 /\ k \in Nat /\ n = k + a
    BY <1>1, <1>a, <1>2, Zenon
  <2> HIDE DEF a, b, k, n
  <2>2. n + 1 \in Nat /\ n + 1 = k + b
    BY <2>1
  <2> QED  BY <2>2 DEF b, k, n
<1>4. f = [e EXCEPT !.rec = r, !.made = m]
  BY DEF Offer
<1> HIDE DEF r, m
<1>6. IsTl(f) /\ f.told = e.told
  BY <1>4 DEF IsTl, TlFields
<1>7. f.rec = r /\ f.made = m /\ f.acked = e.acked /\ f.wire = e.wire
  BY <1>4 DEF IsTl, TlFields
<1>8. SameData(e, f) /\ SameInput(e, f) /\ SameCall(e, f)
  BY <1>4 DEF IsTl, TlFields, SameData, SameInput, SameCall
<1>9. RecordsOK(f)
  BY <1>1, <1>2, <1>5, <1>7 DEF RecordsOK
<1> QED  BY <1>3, <1>6, <1>7, <1>8, <1>9

(* The engine goes on with everything in order, and leaves alone what is not *)
(* its own.                                                                  *)
EngineStep(e, f) ==
  IsTl(f) /\ RecordsOK(f) /\ DataOK(f) /\ SameInput(e, f) /\ SameCall(e, f)

LEMMA EngineCloseOK ==
  ASSUME NEW e, IsTl(e), RecordsOK(e), DataOK(e), NEW f, f = EngineClose(e)
  PROVE  EngineStep(e, f) /\ f.took = e.took /\ f.closing /\ (e.rec # <<>> => f.rec # <<>>)
<1>1. CASE e.closed \/ e.closing
  <2>1. f = e /\ e.closing
    BY <1>1 DEF EngineClose, DataOK, DataCount
  <2>2. SameInput(e, e) /\ SameCall(e, e)
    BY DEF SameInput, SameCall
  <2> QED  BY <2>1, <2>2 DEF EngineStep
<1>2. CASE ~(e.closed \/ e.closing)
  <2> DEFINE o == Offer(e)
  <2>1. /\ IsTl(o) /\ RecordsOK(o) /\ o.rec # <<>>
        /\ SameData(e, o) /\ SameInput(e, o) /\ SameCall(e, o)
    BY OfferOK
  <2>2. f = [o EXCEPT !.closing = TRUE, !.inapp = <<>>, !.app = 0]
    BY <1>2 DEF EngineClose
  <2> HIDE DEF o
  <2>3. IsTl(f) /\ SameRecords(o, f)
    BY <2>1, <2>2 DEF IsTl, TlFields, SameRecords
  <2>4. /\ f.closing = TRUE /\ f.inapp = <<>> /\ f.app = 0 /\ f.took = o.took /\ f.got = o.got
        /\ f.rec = o.rec
    BY <2>1, <2>2 DEF IsTl, TlFields
  <2>5. SameInput(o, f) /\ SameCall(o, f)
    BY <2>1, <2>2 DEF IsTl, TlFields, SameInput, SameCall
  <2>6. SameInput(e, f) /\ SameCall(e, f)
    BY <2>1, <2>5 DEF SameInput, SameCall
  <2>7. RecordsOK(f)
    BY <2>1, <2>3, TlPartsStay
  <2>8. f.got = e.got /\ f.took = e.took
    BY <2>1, <2>4 DEF SameData
  <2>9. DataOK(f)
    <3>1. /\ e.took \in Nat /\ e.got \in Seq(Nat) /\ Counts(e.got, 0)
          /\ e.inapp \in Seq(Nat) /\ Len(e.got) + Len(e.inapp) =< TlsData
      BY Zenon DEF DataOK, DataCount
    <3>a. Len(e.got) \in Nat /\ Len(e.inapp) \in Nat
      BY <3>1, LenIsNat, Zenon
    <3>2. Len(e.got) + 0 =< TlsData
      <4> DEFINE a == Len(e.got)
                 b == Len(e.inapp)
      <4>1. a \in Nat /\ b \in Nat /\ a + b =< TlsData /\ TlsData \in Nat
        BY <3>1, <3>a, TlsAssumption
      <4> HIDE DEF a, b
      <4>2. a + 0 =< TlsData
        BY <4>1
      <4> QED  BY <4>2 DEF a
    <3>3. DataCount(f.hs, e.took, Len(e.got), 0, TRUE, f.closed)
      BY <3>2 DEF DataCount
    <3>4. Counts(<<>>, Len(e.got)) /\ <<>> \in Seq(Nat) /\ Len(<<>>) = 0
      BY <3>a, EmptyInput
    <3> QED  BY <2>4, <2>8, <3>1, <3>3, <3>4, Zenon DEF DataOK
  <2> QED  BY <2>1, <2>3, <2>4, <2>6, <2>7, <2>8, <2>9 DEF EngineStep
<1> QED  BY <1>1, <1>2

LEMMA EngineCloseGot == ASSUME NEW e, IsTl(e), RecordsOK(e) PROVE EngineClose(e).got = e.got
<1>1. CASE e.closed \/ e.closing
  BY <1>1 DEF EngineClose
<1>2. CASE ~(e.closed \/ e.closing)
  <2> DEFINE o == Offer(e)
             f == EngineClose(e)
  <2>1. IsTl(o) /\ o.got = e.got
    BY OfferOK DEF SameData
  <2>2. f = [o EXCEPT !.closing = TRUE, !.inapp = <<>>, !.app = 0]
    BY <1>2 DEF EngineClose
  <2> HIDE DEF o, f
  <2>3. f.got = o.got
    BY <2>1, <2>2 DEF IsTl, TlFields
  <2> QED  BY <2>1, <2>3 DEF f
<1> QED  BY <1>1, <1>2

(* One unit more, by its place in what is sent.  *)
LEMMA WhichUnit ==
  ASSUME NEW k \in Nat, k + 1 =< TlsData + 3, NEW x, x = Sent(k + 1)
  PROVE  /\ x \in Nat
         /\ x = Hs <=> k < 2
         /\ x = Notify <=> k = TlsData + 2
         /\ x # Hs => x = k - 1
BY TlsAssumption DEF Sent, Hs, Notify

LEMMA CountHs ==
  ASSUME NEW took \in Nat, NEW g \in Nat, NEW i \in Nat, NEW hs, NEW new, NEW closing, NEW closed,
         took < 2, new = IF hs = 2 THEN 1 ELSE 0, DataCount(hs, took, g, i, closing, closed)
  PROVE  DataCount(new, took + 1, g, i, closing, closed)
<1>1. CASE closing
  BY <1>1 DEF DataCount
<1>2. CASE ~closing
  <2>1. hs = 2 - took /\ g + i = 0 /\ took + 1 =< TlsData + 2
    BY <1>2, TlsAssumption DEF DataCount
  <2>2. took = 0 \/ took = 1
    OBVIOUS
  <2>3. new = IF took + 1 < 2 THEN 2 - (took + 1) ELSE 0
    BY <2>1, <2>2
  <2>4. g + i = IF took + 1 < 2 THEN 0 ELSE (took + 1) - 2
    BY <2>1, <2>2
  <2> QED  BY <1>2, <2>1, <2>3, <2>4 DEF DataCount
<1> QED  BY <1>1, <1>2

LEMMA CountData ==
  ASSUME NEW took \in Nat, NEW g \in Nat, NEW i \in Nat, NEW hs, NEW closing, NEW closed,
         ~closing, took >= 2, took =< TlsData + 1, DataCount(hs, took, g, i, closing, closed)
  PROVE  /\ DataCount(hs, took + 1, g, i + 1, closing, closed)
         /\ took - 1 = g + i + 1
<1>1. hs = 0 /\ g + i = took - 2 /\ ~closed
  BY DEF DataCount
<1>2. g + (i + 1) = took - 1 /\ g + (i + 1) =< TlsData /\ took + 1 =< TlsData + 2 /\ ~(took + 1 < 2)
      /\ (took + 1) - 2 = took - 1
  BY <1>1, TlsAssumption
<1>3. DataCount(hs, took + 1, g, i + 1, closing, closed)
  BY <1>1, <1>2 DEF DataCount
<1>4. took - 1 = g + i + 1
  BY <1>1
<1> QED  BY <1>3, <1>4

(* One unit, the one that comes next: the engine keeps up.  *)
LEMMA FedOK ==
  ASSUME NEW e, IsTl(e), RecordsOK(e), DataOK(e), NEW x, x = Sent(e.took + 1),
         e.took + 1 =< TlsData + 3, NEW f, f = Fed(e, x)
  PROVE  EngineStep(e, f) /\ f.took = e.took + 1
<1> DEFINE t == Take(e, x)
           k == e.took
           g == Len(e.got)
           i == Len(e.inapp)
           k1 == e.took + 1
<1>0. /\ e.app = 0 /\ k \in Nat /\ e.got \in Seq(Nat) /\ e.inapp \in Seq(Nat)
      /\ DataCount(e.hs, k, g, i, e.closing, e.closed)
      /\ Counts(e.got, 0) /\ Counts(e.inapp, g)
  BY Zenon DEF DataOK
<1>1. g \in Nat /\ i \in Nat
  BY <1>0, LenIsNat, Zenon
<1>2. /\ x \in Nat /\ (x = Hs <=> k < 2) /\ (x = Notify <=> k = TlsData + 2) /\ (x # Hs => x = k - 1)
  BY <1>0, WhichUnit, Zenon
<1>3. f = [t EXCEPT !.took = k1]
  BY DEF Fed
<1>a. k1 \in Nat /\ k1 = k + 1
  BY <1>0
(* It remains to look at what Take does.  *)
<1>4. ASSUME IsTl(t), RecordsOK(t), SameInput(e, t), SameCall(e, t), t.got = e.got, t.app = 0,
             t.inapp \in Seq(Nat), Counts(t.inapp, g),
             DataCount(t.hs, k1, g, Len(t.inapp), t.closing, t.closed)
      PROVE  EngineStep(e, f) /\ f.took = e.took + 1
  <2> HIDE DEF t, k1
  <2>1. IsTl(f) /\ f.took = k1 /\ SameRecords(t, f) /\ SameInput(t, f) /\ SameCall(t, f)
    BY <1>3, <1>4 DEF IsTl, TlFields, SameRecords, SameInput, SameCall
  <2>2. /\ f.hs = t.hs /\ f.got = t.got /\ f.app = t.app /\ f.inapp = t.inapp
        /\ f.closing = t.closing /\ f.closed = t.closed
    BY <1>3, <1>4 DEF IsTl, TlFields
  <2>3. SameInput(e, f) /\ SameCall(e, f)
    BY <1>4, <2>1 DEF SameInput, SameCall
  <2>4. RecordsOK(f)
    BY <1>4, <2>1, TlPartsStay
  <2>5. DataOK(f)
    <3>1. f.got = e.got
      BY <1>4, <2>2
    <3> QED  BY <1>0, <1>4, <1>a, <2>1, <2>2, <3>1, Zenon DEF DataOK
  <2> QED  BY <2>1, <2>3, <2>4, <2>5 DEF EngineStep, k1
<1>5. CASE x = Hs
  <2> DEFINE new == IF e.hs = 2 THEN 1 ELSE 0
             d == [e EXCEPT !.hs = new]
  <2>1. k < 2
    BY <1>2, <1>5
  <2>2. DataCount(new, k1, g, i, e.closing, e.closed)
    BY <1>0, <1>1, <2>1, CountHs
  <2>3. IsTl(d) /\ SameRecords(e, d) /\ SameInput(e, d) /\ SameCall(e, d)
    <3> HIDE DEF new
    <3> QED  BY DEF IsTl, TlFields, SameRecords, SameInput, SameCall
  <2>4. /\ d.hs = new /\ d.app = e.app /\ d.inapp = e.inapp /\ d.got = e.got
        /\ d.closing = e.closing /\ d.closed = e.closed
    <3> HIDE DEF new
    <3> QED  BY DEF IsTl, TlFields
  <2>5. RecordsOK(d)
    <3> HIDE DEF d
    <3> QED  BY <2>3, TlPartsStay
  <2>a. x # Notify
    BY <1>0, <1>2, <2>1, TlsAssumption
  <2>6. t = IF e.hs = 2 THEN Offer(d) ELSE d
    <3>1. CASE e.hs = 2
      <4>1. d = [e EXCEPT !.hs = 1]
        BY <3>1
      <4>2. t = Offer([e EXCEPT !.hs = 1])
        BY <1>5, <2>a, <3>1 DEF Take
      <4> HIDE DEF d, t
      <4> QED  BY <3>1, <4>1, <4>2
    <3>2. CASE e.hs # 2
      <4>1. d = [e EXCEPT !.hs = 0]
        BY <3>2
      <4>2. t = [e EXCEPT !.hs = 0]
        BY <1>5, <2>a, <3>2 DEF Take
      <4> HIDE DEF d, t
      <4> QED  BY <3>2, <4>1, <4>2
    <3> QED  BY <3>1, <3>2
  <2> HIDE DEF d, t, new
  <2>7. IsTl(t) /\ RecordsOK(t) /\ SameData(d, t) /\ SameInput(d, t) /\ SameCall(d, t)
    <3>1. CASE e.hs = 2
      <4>1. t = Offer(d)
        BY <2>6, <3>1
      <4> QED  BY <2>3, <2>5, <4>1, OfferOK
    <3>2. CASE e.hs # 2
      <4>1. t = d
        BY <2>6, <3>2
      <4>2. SameData(d, d) /\ SameInput(d, d) /\ SameCall(d, d)
        BY DEF SameData, SameInput, SameCall
      <4> QED  BY <2>3, <2>5, <4>1, <4>2
    <3> QED  BY <3>1, <3>2
  <2>8. SameInput(e, t) /\ SameCall(e, t)
    BY <2>3, <2>7 DEF SameInput, SameCall
  <2>9. /\ t.hs = new /\ t.app = 0 /\ t.inapp = e.inapp /\ t.got = e.got
        /\ t.closing = e.closing /\ t.closed = e.closed
    BY <1>0, <2>4, <2>7, Zenon DEF SameData
  <2>10. t.inapp \in Seq(Nat) /\ Counts(t.inapp, g) /\ DataCount(t.hs, k1, g, Len(t.inapp), t.closing, t.closed)
    BY <1>0, <2>2, <2>9, Zenon
  <2> QED  BY <1>4, <2>7, <2>8, <2>9, <2>10
<1>6. CASE x = Notify
  <2> DEFINE c == EngineClose(e)
             b == e.closing /\ e.rec = <<>>
  <2>1. t = [c EXCEPT !.told = TRUE, !.closed = b]
    <3>1. x # Hs
      BY <1>6, TlsAssumption DEF Hs, Notify
    <3> QED  BY <1>6, <3>1, Zenon DEF Take
  <2>2. EngineStep(e, c) /\ c.closing
    BY EngineCloseOK
  <2> HIDE DEF c, t, b
  <2>3. IsTl(c) /\ RecordsOK(c) /\ DataOK(c) /\ SameInput(e, c) /\ SameCall(e, c)
    BY <2>2 DEF EngineStep
  <2>4. IsTl(t) /\ SameRecords(c, t) /\ SameInput(c, t) /\ SameCall(c, t)
    BY <2>1, <2>3 DEF IsTl, TlFields, SameRecords, SameInput, SameCall
  <2>5. t.app = c.app /\ t.inapp = c.inapp /\ t.got = c.got /\ t.closing = c.closing
    BY <2>1, <2>3 DEF IsTl, TlFields
  <2>6. RecordsOK(t)
    BY <2>3, <2>4, TlPartsStay
  <2>7. SameInput(e, t) /\ SameCall(e, t)
    BY <2>3, <2>4 DEF SameInput, SameCall
  <2>8. t.got = e.got
    <3>1. c.got = e.got
      BY EngineCloseGot DEF c
    <3> QED  BY <2>5, <3>1
  <2>9. t.app = 0 /\ t.inapp \in Seq(Nat) /\ Counts(t.inapp, g)
    BY <2>3, <2>5, <2>8, Zenon DEF DataOK
  <2>10. DataCount(t.hs, k1, g, Len(t.inapp), t.closing, t.closed)
    <3>1. Len(t.inapp) = 0 /\ g + Len(t.inapp) =< TlsData /\ t.closing
      <4>1. DataCount(c.hs, c.took, Len(c.got), Len(c.inapp), c.closing, c.closed)
        BY <2>3, Zenon DEF DataOK
      <4>2. Len(c.inapp) = 0 /\ Len(c.got) + Len(c.inapp) =< TlsData
        BY <2>2, <4>1, Zenon DEF DataCount
      <4> QED  BY <2>2, <2>5, <2>8, <4>2, Zenon
    <3> QED  BY <3>1, Zenon DEF DataCount
  <2> QED  BY <1>4, <2>4, <2>6, <2>7, <2>8, <2>9, <2>10
<1>7. CASE x # Hs /\ x # Notify
  <2>1. CASE e.closing
    <3>1. t = e
      BY <1>7, <2>1 DEF Take
    <3>2. SameInput(e, e) /\ SameCall(e, e)
      BY DEF SameInput, SameCall
    <3>3. DataCount(e.hs, k1, g, i, e.closing, e.closed)
      BY <1>0, <2>1, Zenon DEF DataCount
    <3> HIDE DEF t, k1
    <3> QED  BY <1>0, <1>4, <3>1, <3>2, <3>3
  <2>2. CASE ~e.closing
    <3> DEFINE r == Append(e.inapp, x)
    <3>0. k >= 2 /\ k =< TlsData + 1 /\ x = k - 1
      <4>1. k \in Nat /\ ~(k < 2) /\ k # TlsData + 2 /\ k + 1 =< TlsData + 3 /\ TlsData \in Nat /\ x = k - 1
        BY <1>0, <1>2, <1>7, TlsAssumption
      <4> HIDE DEF k
      <4> QED  BY <4>1
    <3>1. t = [e EXCEPT !.inapp = r]
      BY <1>7, <2>2 DEF Take
    <3>2. DataCount(e.hs, k + 1, g, i + 1, e.closing, e.closed) /\ x = g + i + 1
      <4> HIDE DEF k, g, i
      <4>1. DataCount(e.hs, k + 1, g, i + 1, e.closing, e.closed) /\ k - 1 = g + i + 1
        BY <1>0, <1>1, <2>2, <3>0, CountData
      <4> QED  BY <3>0, <4>1
    <3>3. r \in Seq(Nat) /\ Len(r) = i + 1 /\ Counts(r, g)
      BY <1>0, <1>1, <3>2, CountsAppend, Zenon
    <3> HIDE DEF t, r
    <3>4. IsTl(t) /\ SameRecords(e, t) /\ SameInput(e, t) /\ SameCall(e, t)
      BY <3>1 DEF IsTl, TlFields, SameRecords, SameInput, SameCall
    <3>5. /\ t.hs = e.hs /\ t.app = e.app /\ t.inapp = r /\ t.closing = e.closing
          /\ t.closed = e.closed /\ t.got = e.got
      BY <3>1 DEF IsTl, TlFields
    <3>6. RecordsOK(t)
      BY <3>4, TlPartsStay
    <3>7. t.inapp \in Seq(Nat) /\ Counts(t.inapp, g) /\ DataCount(t.hs, k1, g, Len(t.inapp), t.closing, t.closed)
      BY <3>2, <3>3, <3>5, Zenon
    <3> QED  BY <1>0, <1>4, <3>4, <3>5, <3>6, <3>7
  <2> QED  BY <2>1, <2>2
<1> QED  BY <1>5, <1>6, <1>7

(* The engine after each unit of a chunk.  *)
FeedsFrom(g, e, chunk, N) ==
  /\ g = [n \in 0..N |-> g[n]]
  /\ g[0] = e /\ \A n \in 1..N : g[n] = Fed(g[n - 1], chunk[n])

LEMMA FeedsExist ==
  ASSUME NEW e, NEW chunk, NEW N \in Nat PROVE \E g : FeedsFrom(g, e, chunk, N)
<1> DEFINE S == {m \in 0..N : \E g : FeedsFrom(g, e, chunk, m)}
<1>1. 0 \in S
  <2> DEFINE g == [n \in 0..0 |-> e]
  <2>1. g = [n \in 0..0 |-> g[n]] /\ g[0] = e
    OBVIOUS
  <2>2. \A n \in 1..0 : g[n] = Fed(g[n - 1], chunk[n])
    OBVIOUS
  <2> HIDE DEF g
  <2>3. FeedsFrom(g, e, chunk, 0)
    BY <2>1, <2>2, Zenon DEF FeedsFrom
  <2> QED  BY <2>3
<1>2. ASSUME NEW m \in 0..(N - 1), m \in S PROVE m + 1 \in S
  <2>1. PICK g : FeedsFrom(g, e, chunk, m)
    BY <1>2
  <2> DEFINE last == Fed(g[m], chunk[m + 1])
             h == [n \in 0..(m + 1) |-> IF n = m + 1 THEN last ELSE g[n]]
  <2>2. m + 1 \in 0..N /\ m \in Nat /\ 0 \in 0..(m + 1) /\ m + 1 \in 0..(m + 1) /\ 0 # m + 1
    OBVIOUS
  <2>3. h[0] = g[0] /\ h[m + 1] = last /\ \A n \in 0..m : h[n] = g[n]
    <3> HIDE DEF last
    <3> QED  BY <2>2
  <2>4. h = [n \in 0..(m + 1) |-> h[n]]
    <3> HIDE DEF last
    <3> QED  OBVIOUS
  <2> HIDE DEF h
  <2>5. \A n \in 1..(m + 1) : h[n] = Fed(h[n - 1], chunk[n])
    <3> TAKE n \in 1..(m + 1)
    <3>1. CASE n = m + 1
      <4>1. n - 1 = m /\ m \in 0..m
        BY <2>2, <3>1
      <4>2. h[n - 1] = g[m] /\ h[n] = last /\ chunk[n] = chunk[m + 1]
        BY <2>3, <3>1, <4>1
      <4> QED  BY <4>2
    <3>2. CASE n # m + 1
      <4>1. n \in 1..m /\ n \in 0..m /\ n - 1 \in 0..m
        BY <2>2, <3>2
      <4>2. h[n] = g[n] /\ h[n - 1] = g[n - 1] /\ g[n] = Fed(g[n - 1], chunk[n])
        BY <2>1, <2>3, <4>1 DEF FeedsFrom
      <4> QED  BY <4>2
    <3> QED  BY <3>1, <3>2
  <2>6. h[0] = e
    BY <2>1, <2>3 DEF FeedsFrom
  <2>7. FeedsFrom(h, e, chunk, m + 1)
    BY <2>4, <2>5, <2>6, Zenon DEF FeedsFrom
  <2> QED  BY <2>2, <2>7
<1>3. 0..N \subseteq S
  <2> HIDE DEF S
  <2> QED  BY <1>1, <1>2, IntervalInduction
<1>4. N \in S
  BY <1>3
<1> QED  BY <1>4

(* It keeps up all the way.  *)
LEMMA FeedsOK ==
  ASSUME NEW e, IsTl(e), RecordsOK(e), DataOK(e), NEW chunk \in Seq(Nat), From(chunk, e.took),
         e.took + Len(chunk) =< TlsData + 3, NEW g, FeedsFrom(g, e, chunk, Len(chunk))
  PROVE  \A n \in 0..Len(chunk) : EngineStep(e, g[n]) /\ g[n].took = e.took + n
<1> DEFINE N == Len(chunk)
           k == e.took
           T == {n \in 0..N : EngineStep(e, g[n]) /\ g[n].took = k + n}
<1>0. N \in Nat /\ k \in Nat /\ k + N =< TlsData + 3 /\ TlsData \in Nat
  BY TlsAssumption DEF DataOK
<1>1. 0 \in T
  <2>1. g[0] = e /\ SameInput(e, e) /\ SameCall(e, e)
    BY DEF FeedsFrom, SameInput, SameCall
  <2>2. EngineStep(e, g[0])
    BY <2>1 DEF EngineStep
  <2>3. 0 \in 0..N /\ k = k + 0
    BY <1>0
  <2> HIDE DEF k, N
  <2> QED  BY <2>1, <2>2, <2>3 DEF k
<1>2. ASSUME NEW n \in 0..(N - 1), n \in T PROVE n + 1 \in T
  <2> DEFINE d == g[n]
             f == g[n + 1]
             x == chunk[n + 1]
  <2>1. EngineStep(e, d) /\ d.took = k + n
    BY <1>2
  <2>2. n + 1 \in 1..N /\ (n + 1) - 1 = n /\ n \in Nat /\ n + 1 \in 0..N
    BY <1>0
  <2>3. f = Fed(d, x)
    <3> HIDE DEF N
    <3>1. g[n + 1] = Fed(g[(n + 1) - 1], chunk[n + 1])
      BY <2>2, Zenon DEF FeedsFrom, N
    <3> QED  BY <2>2, <3>1
  <2>4. x = Sent(k + (n + 1))
    BY <2>2 DEF From
  <2> HIDE DEF d, f, x, k, N
  <2>5. d.took + 1 = k + (n + 1) /\ d.took + 1 =< TlsData + 3
    BY <1>0, <2>1, <2>2
  <2>6. EngineStep(d, f) /\ f.took = d.took + 1
    <3>1. IsTl(d) /\ RecordsOK(d) /\ DataOK(d)
      BY <2>1 DEF EngineStep
    <3>2. x = Sent(d.took + 1)
      BY <2>4, <2>5
    <3> QED  BY <2>3, <2>5, <3>1, <3>2, FedOK
  <2>7. EngineStep(e, f)
    BY <2>1, <2>6 DEF EngineStep, SameInput, SameCall
  <2>8. f.took = k + (n + 1)
    BY <2>5, <2>6
  <2> QED  BY <2>2, <2>7, <2>8 DEF f
<1>3. 0..N \subseteq T
  <2> HIDE DEF T, N
  <2> QED  BY <1>0, <1>1, <1>2, IntervalInduction
<1> QED  BY <1>3

LEMMA PushOK ==
  ASSUME NEW e, IsTl(e), RecordsOK(e), DataOK(e), NEW chunk \in Seq(Nat), From(chunk, e.took),
         e.took + Len(chunk) =< TlsData + 3, NEW p, p = Push(e, chunk)
  PROVE  p.n \in 0..Len(chunk) /\ EngineStep(e, p.e) /\ p.e.took = e.took + p.n
<1> DEFINE N == Len(chunk)
           engineAfter[n \in 0..Len(chunk)] ==
             IF n = 0 THEN e ELSE Fed(engineAfter[n - 1], chunk[n])
           Stop(n) == n = N \/ ~RECVREC(engineAfter[n])
           Taken(n) == (\A i \in 0..(n - 1) : RECVREC(engineAfter[i])) /\ Stop(n)
           taken == CHOOSE n \in 0..Len(chunk) :
                 /\ \A i \in 0..(n - 1) : RECVREC(engineAfter[i])
                 /\ n = Len(chunk) \/ ~RECVREC(engineAfter[n])
<1>0. N \in Nat
  OBVIOUS
<1>1. PICK g : FeedsFrom(g, e, chunk, N)
  BY <1>0, FeedsExist
<1>2. g = [n \in 0..N |-> IF n = 0 THEN e ELSE Fed(g[n - 1], chunk[n])]
  <2>1. \A n \in 0..N : g[n] = IF n = 0 THEN e ELSE Fed(g[n - 1], chunk[n])
    <3> TAKE n \in 0..N
    <3>1. CASE n = 0
      BY <1>1, <3>1 DEF FeedsFrom
    <3>2. CASE n # 0
      <4>1. n \in 1..N
        BY <1>0, <3>2
      <4> QED  BY <1>1, <3>2, <4>1 DEF FeedsFrom
    <3> QED  BY <3>1, <3>2
  <2>2. g = [n \in 0..N |-> g[n]]
    BY <1>1 DEF FeedsFrom
  <2> QED  BY <2>1, <2>2
<1>3. engineAfter = [n \in 0..N |-> IF n = 0 THEN e ELSE Fed(engineAfter[n - 1], chunk[n])]
  BY <1>2, Zenon DEF engineAfter
<1>4. p = [e |-> engineAfter[taken], n |-> taken]
  BY Zenon DEF Push, engineAfter, taken
<1>5. taken = CHOOSE n \in 0..N : Taken(n)
  BY Zenon DEF taken
<1> HIDE DEF engineAfter, taken
<1>6. FeedsFrom(engineAfter, e, chunk, N)
  <2>1. engineAfter = [n \in 0..N |-> engineAfter[n]]
    BY <1>3
  <2>2. 0 \in 0..N /\ engineAfter[0] = e
    BY <1>0, <1>3
  <2>3. \A n \in 1..N : engineAfter[n] = Fed(engineAfter[n - 1], chunk[n])
    <3> TAKE n \in 1..N
    <3>1. n \in 0..N /\ n # 0
      BY <1>0
    <3> QED  BY <1>3, <3>1
  <2> QED  BY <2>1, <2>2, <2>3, Zenon DEF FeedsFrom
<1>7. \E n \in 0..N : Taken(n)
  <2> DEFINE T == {n \in 0..N : Stop(n)}
  <2>1. T \subseteq Nat /\ N \in T
    BY <1>0
  <2>2. PICK m \in T : \A n \in T : m =< n
    <3> HIDE DEF T
    <3> QED  BY <2>1, LeastNumber
  <2>3. \A i \in 0..(m - 1) : RECVREC(engineAfter[i])
    <3> SUFFICES ASSUME NEW i \in 0..(m - 1), ~RECVREC(engineAfter[i]) PROVE FALSE
      OBVIOUS
    <3>1. i \in 0..N /\ ~(m =< i) /\ i \in Nat
      BY <1>0, <2>1, <2>2
    <3>2. i \in T
      BY <3>1
    <3> QED  BY <2>2, <3>1, <3>2
  <2> QED  BY <2>2, <2>3
<1>8. taken \in 0..N
  <2> HIDE DEF Taken, N
  <2> QED  BY <1>5, <1>7
<1>9. p.n = taken /\ p.e = engineAfter[taken]
  <2> HIDE DEF N
  <2> QED  BY <1>4
<1>10. EngineStep(e, engineAfter[taken]) /\ engineAfter[taken].took = e.took + taken
  BY <1>6, <1>8, FeedsOK
<1> QED  BY <1>8, <1>9, <1>10

(* The engine has its part of a chunk and the rest of it is kept.  *)
LEMMA PushedOK ==
  ASSUME NEW e, IsTl(e), RecordsOK(e), DataOK(e), NEW chunk,
         InputFrom(e.took, chunk, e.socket, e.source), NEW f, f = Pushed(e, chunk)
  PROVE  IsTl(f) /\ RecordsOK(f) /\ DataOK(f) /\ InputOK(f) /\ SameCall(e, f)
<1> DEFINE p == Push(e, chunk)
           d == p.e
           n == p.n
           k == e.took
           c == Len(chunk)
           so == Len(e.socket)
           sr == Len(e.source)
           rest == SubSeq(chunk, n + 1, Len(chunk))
           r == Len(rest)
<1>1. /\ chunk \in Seq(Nat) /\ e.socket \in Seq(Nat) /\ e.source \in Seq(Nat)
      /\ k + c + so + sr = TlsData + 3
      /\ From(chunk, k) /\ From(e.socket, k + c) /\ From(e.source, k + c + so)
  BY Zenon DEF InputFrom
<1>2. k \in Nat
  BY Zenon DEF DataOK
<1>3. c \in Nat /\ so \in Nat /\ sr \in Nat
  BY <1>1, LenIsNat, Zenon
<1>4. k + c =< TlsData + 3
  <2> HIDE DEF k, c, so, sr
  <2> QED  BY <1>1, <1>2, <1>3, TlsAssumption
<1>5. n \in 0..c /\ EngineStep(e, d) /\ d.took = k + n
  BY <1>1, <1>4, PushOK, Zenon
<1>6. f = [d EXCEPT !.leftover = rest]
  BY Zenon DEF Pushed
<1>7. rest \in Seq(Nat) /\ r = c - n /\ From(rest, k + n)
  <2>1. n \in 0..Len(chunk)
    BY <1>5
  <2> HIDE DEF n
  <2> QED  BY <1>1, <1>2, <2>1, FromCut, Zenon
<1> HIDE DEF d, n, rest
<1>8. IsTl(d) /\ RecordsOK(d) /\ DataOK(d) /\ SameInput(e, d) /\ SameCall(e, d)
  BY <1>5, Zenon DEF EngineStep
<1>9. IsTl(f) /\ SameRecords(d, f) /\ SameData(d, f) /\ SameCall(d, f)
  BY <1>6, <1>8 DEF IsTl, TlFields, SameRecords, SameData, SameCall
<1>10. f.leftover = rest /\ f.socket = d.socket /\ f.source = d.source /\ f.took = d.took
  BY <1>6, <1>8 DEF IsTl, TlFields
<1>11. SameCall(e, f)
  BY <1>8, <1>9 DEF SameCall
<1>12. f.socket = e.socket /\ f.source = e.source /\ f.took = k + n
  BY <1>5, <1>8, <1>10, Zenon DEF SameInput
<1>13. InputFrom(k + n, rest, e.socket, e.source)
  <2>1. (k + n) + r + so + sr = TlsData + 3 /\ (k + n) + r = k + c
    <3> HIDE DEF k, c, so, sr, r
    <3> QED  BY <1>1, <1>2, <1>3, <1>5, <1>7
  <2>2. From(e.socket, (k + n) + r) /\ From(e.source, (k + n) + r + so)
    BY <1>1, <2>1, Zenon
  <2> QED  BY <1>1, <1>7, <2>1, <2>2, Zenon DEF InputFrom
<1>14. InputOK(f)
  BY <1>10, <1>12, <1>13, Zenon DEF InputOK
<1> QED  BY <1>8, <1>9, <1>11, <1>14, TlPartsStay, Zenon

-----------------------------------------------------------------------------
(* drive.                                                                    *)

(* A step that only moves the call on.  *)
LEMMA CallMoves ==
  ASSUME NEW e, TlsIInv(e), NEW f, IsTl(f), SameRecords(e, f), SameData(e, f), SameInput(e, f),
         OwedOK(f), StandsOK(f)
  PROVE  TlsIInv(f)
<1>1. RecordsOK(f) /\ DataOK(f)
  BY TlPartsStay, Zenon DEF TlsIInv
<1>2. InputOK(f)
  BY TlPartsStay, Zenon DEF TlsIInv, SameData
<1> QED  BY <1>1, <1>2, Zenon DEF TlsIInv

LEMMA OverFields ==
  ASSUME NEW e, IsTl(e), NEW b, NEW f, f = Over(e, b)
  PROVE  /\ IsTl(f) /\ SameRecords(e, f) /\ SameData(e, f) /\ SameInput(e, f)
         /\ f.op = "idle" /\ f.at = "over" /\ f.failed = b /\ f.need = e.need
         /\ f.sends = e.sends /\ f.given = e.given /\ f.shut = e.shut
<1>1. f = [e EXCEPT !.op = "idle", !.at = "over", !.failed = b]
  BY Zenon DEF Over
<1>2. /\ IsTl(f) /\ SameRecords(e, f) /\ SameData(e, f) /\ SameInput(e, f)
  BY <1>1 DEF IsTl, TlFields, SameRecords, SameData, SameInput
<1>3. /\ f.op = "idle" /\ f.at = "over" /\ f.failed = b /\ f.need = e.need
      /\ f.sends = e.sends /\ f.given = e.given /\ f.shut = e.shut
  BY <1>1 DEF IsTl, TlFields
<1> QED  BY <1>2, <1>3, Zenon

(* The call is over: a write that did not throw has had its turn as flush.   *)
LEMMA CallOver ==
  ASSUME NEW e, IsTl(e), RecordsOK(e), DataOK(e), InputOK(e), OwedOK(e), NEW b,
         b = TRUE \/ e.op \in {"handshake", "flush", "read", "close"}, NEW f, f = Over(e, b)
  PROVE  TlsIInv(f)
<1>2. /\ IsTl(f) /\ SameRecords(e, f) /\ SameData(e, f) /\ SameInput(e, f)
  BY OverFields, Zenon
<1>3. /\ f.op = "idle" /\ f.at = "over" /\ f.failed = b /\ f.need = e.need
      /\ f.sends = e.sends /\ f.given = e.given /\ f.shut = e.shut
  BY OverFields
<1>4. OwedOK(f)
  <2>1. f.failed \/ f.shut \/ f.sends = f.given
    <3>1. CASE b = TRUE
      BY <1>3, <3>1, Zenon
    <3>2. CASE e.op = "close"
      BY <1>3, <3>2, Zenon DEF OwedOK
    <3>3. CASE e.op \in {"handshake", "flush", "read"}
      <4>1. e.sends = e.given
        BY <3>3 DEF OwedOK
      <4> QED  BY <1>3, <4>1, Zenon
    <3> QED  BY <3>1, <3>2, <3>3
  <2>2. f.need \in 0..MaxSends /\ f.sends \in Nat /\ f.given \in Nat
    BY <1>3, Zenon DEF OwedOK
  <2> QED  BY <1>3, <2>1, <2>2 DEF OwedOK
<1>5. StandsOK(f)
  BY <1>3 DEF StandsOK
<1>6. RecordsOK(f) /\ DataOK(f) /\ InputOK(f)
  BY <1>2, TlPartsStay, Zenon DEF SameData
<1> QED  BY <1>2, <1>4, <1>5, <1>6, Zenon DEF TlsIInv

(* read: what waited has been handed over.  *)
LEMMA ReadReturns ==
  ASSUME NEW e, TlsIInv(e), e.op = "read", NEW f,
         f = Over([e EXCEPT !.got = e.got \o e.inapp, !.inapp = <<>>], FALSE)
  PROVE  TlsIInv(f)
<1> DEFINE t == e.got \o e.inapp
           d == [e EXCEPT !.got = t, !.inapp = <<>>]
           a == Len(e.got)
           b == Len(e.inapp)
           c == Len(t)
<1>0. IsTl(e) /\ RecordsOK(e) /\ DataOK(e) /\ InputOK(e) /\ OwedOK(e)
  BY Zenon DEF TlsIInv
<1>1. /\ e.app = 0 /\ e.took \in Nat /\ e.got \in Seq(Nat) /\ e.inapp \in Seq(Nat)
      /\ DataCount(e.hs, e.took, a, b, e.closing, e.closed)
      /\ Counts(e.got, 0) /\ Counts(e.inapp, a)
  BY <1>0, Zenon DEF DataOK
<1>2. t \in Seq(Nat) /\ c = a + b /\ Counts(t, 0)
  BY <1>1, CountsJoin, Zenon
<1>3. a \in Nat /\ b \in Nat
  BY <1>1, LenIsNat, Zenon
<1>4. f = Over(d, FALSE)
  OBVIOUS
<1> HIDE DEF t
<1>5. IsTl(d) /\ SameRecords(e, d) /\ SameInput(e, d) /\ SameCall(e, d)
  BY <1>0 DEF IsTl, TlFields, SameRecords, SameInput, SameCall
<1>6. /\ d.got = t /\ d.inapp = <<>> /\ d.app = e.app /\ d.hs = e.hs /\ d.took = e.took
      /\ d.closing = e.closing /\ d.closed = e.closed /\ d.op = e.op
  BY <1>0 DEF IsTl, TlFields
<1> HIDE DEF d
<1>7. DataCount(e.hs, e.took, c, 0, e.closing, e.closed)
  <2>1. c + 0 = a + b
    <3> HIDE DEF a, b, c
    <3> QED  BY <1>2, <1>3
  <2> HIDE DEF a, b, c
  <2> QED  BY <1>1, <2>1, Zenon DEF DataCount
<1>8. DataOK(d)
  <2>1. <<>> \in Seq(Nat) /\ Len(<<>>) = 0 /\ c \in Nat
    BY <1>2, EmptyInput, LenIsNat, Zenon
  <2>2. Counts(<<>>, c)
    BY <2>1, EmptyInput, Zenon
  <2> QED  BY <1>1, <1>2, <1>6, <1>7, <2>1, <2>2, Zenon DEF DataOK
<1>9. RecordsOK(d) /\ InputOK(d) /\ OwedOK(d)
  BY <1>0, <1>5, <1>6, TlPartsStay, Zenon
<1>10. d.op \in {"handshake", "flush", "read", "close"}
  BY <1>6
<1> QED  BY <1>4, <1>5, <1>8, <1>9, <1>10, CallOver, Zenon

(* writeAll, when the engine takes plaintext: what is copied goes out in a   *)
(* record at once.                                                           *)
LEMMA WriteReturns ==
  ASSUME NEW e, TlsIInv(e), e.op = "write", e.at = "run", SENDAPP(e), ~e.closed,
         NEW f, f = Returned(e)
  PROVE  TlsIInv(f)
<1> DEFINE room == MaxCopies - e.app
           n == IF e.need < room THEN e.need ELSE room
           a == e.app + n
           k == e.need - n
           s == e.sends + n
           d == [e EXCEPT !.app = a, !.need = k, !.sends = s]
           g == Flush(d)
<1>0. IsTl(e) /\ RecordsOK(e) /\ DataOK(e) /\ InputOK(e) /\ OwedOK(e) /\ StandsOK(e)
  BY Zenon DEF TlsIInv
<1>1. e.app = 0 /\ e.rec = <<>>
  BY <1>0, Zenon DEF DataOK, SENDAPP
<1>2. /\ e.need \in 0..MaxSends /\ e.sends \in Nat /\ e.given \in Nat
      /\ e.sends + e.need = e.given
  BY <1>0, Zenon DEF OwedOK
<1>3. /\ n \in Nat /\ k \in 0..MaxSends /\ s \in Nat /\ s + k = e.given /\ a = n
  <2> DEFINE x == e.need
             y == e.sends
             z == e.given
  <2>1. e.app = 0 /\ x \in 0..MaxSends /\ y \in Nat /\ y + x = z /\ MaxSends \in Nat
        /\ MaxCopies \in Nat
    BY <1>1, <1>2, TlsAssumption
  <2>2. n = IF x < MaxCopies - 0 THEN x ELSE MaxCopies - 0
    BY <1>1
  <2>3. k = x - n /\ s = y + n /\ a = 0 + n
    BY <1>1
  <2> HIDE DEF x, y, z, n, k, s, a
  <2>4. n \in Nat /\ n =< x
    BY <2>1, <2>2
  <2>5. k \in 0..MaxSends /\ s \in Nat /\ s + k = z /\ a = n
    BY <2>1, <2>3, <2>4
  <2> QED  BY <2>4, <2>5 DEF z
<1>4. f = IF g.need > 0 THEN g ELSE [g EXCEPT !.op = "flush"]
  BY DEF Returned
<1> HIDE DEF a, k, s, n
<1>5. IsTl(d) /\ SameRecords(e, d) /\ SameInput(e, d)
  BY <1>0 DEF IsTl, TlFields, SameRecords, SameInput
<1>6. /\ d.app = a /\ d.need = k /\ d.sends = s /\ d.given = e.given /\ d.op = e.op /\ d.at = e.at
      /\ d.failed = e.failed /\ d.shut = e.shut
      /\ d.hs = e.hs /\ d.took = e.took /\ d.got = e.got /\ d.inapp = e.inapp
      /\ d.closing = e.closing /\ d.closed = e.closed
  BY <1>0 DEF IsTl, TlFields
<1> HIDE DEF d
<1>7. RecordsOK(d)
  BY <1>0, <1>5, TlPartsStay, Zenon
(* What the flush leaves.  *)
<1>8. /\ IsTl(g) /\ RecordsOK(g) /\ SameInput(d, g) /\ SameCall(d, g) /\ g.app = 0
      /\ g.hs = d.hs /\ g.took = d.took /\ g.got = d.got /\ g.inapp = d.inapp
      /\ g.closing = d.closing /\ g.closed = d.closed
  <2>1. CASE d.app > 0 /\ d.rec = <<>>
    <3> DEFINE o == Offer(d)
    <3>1. g = [o EXCEPT !.app = 0]
      BY <2>1, Zenon DEF Flush
    <3>2. IsTl(o) /\ RecordsOK(o) /\ SameData(d, o) /\ SameInput(d, o) /\ SameCall(d, o)
      BY <1>5, <1>7, OfferOK, Zenon
    <3> HIDE DEF o, g
    <3>3. IsTl(g) /\ SameRecords(o, g) /\ SameInput(o, g) /\ SameCall(o, g)
      BY <3>1, <3>2 DEF IsTl, TlFields, SameRecords, SameInput, SameCall
    <3>4. /\ g.app = 0 /\ g.hs = o.hs /\ g.took = o.took /\ g.got = o.got /\ g.inapp = o.inapp
          /\ g.closing = o.closing /\ g.closed = o.closed
      BY <3>1, <3>2 DEF IsTl, TlFields
    <3>5. RecordsOK(g)
      BY <3>2, <3>3, TlPartsStay, Zenon
    <3>6. SameInput(d, g) /\ SameCall(d, g)
      BY <3>2, <3>3 DEF SameInput, SameCall
    <3> QED  BY <3>2, <3>3, <3>4, <3>5, <3>6, Zenon DEF SameData
  <2>2. CASE ~(d.app > 0 /\ d.rec = <<>>)
    <3>1. g = d
      BY <2>2, Zenon DEF Flush
    <3>2. d.rec = <<>>
      BY <1>1, <1>5, Zenon DEF SameRecords
    <3>3. d.app = 0
      <4>1. d.app \in Nat /\ ~(d.app > 0)
        BY <1>3, <1>6, <2>2, <3>2
      <4> QED  BY <4>1
    <3>4. SameInput(d, d) /\ SameCall(d, d)
      BY DEF SameInput, SameCall
    <3> QED  BY <1>5, <1>7, <3>1, <3>3, <3>4, Zenon
  <2> QED  BY <2>1, <2>2
<1> HIDE DEF g
<1>9. /\ g.need = k /\ g.sends = s /\ g.given = e.given /\ g.op = "write" /\ g.at = "run"
  BY <1>6, <1>8, Zenon DEF SameCall
<1>10. DataOK(g)
  BY <1>0, <1>6, <1>8, Zenon DEF DataOK
<1>11. InputOK(g)
  BY <1>0, <1>5, <1>6, <1>8, Zenon DEF InputOK, SameInput
<1>12. OwedOK(g) /\ StandsOK(g)
  BY <1>2, <1>3, <1>9 DEF OwedOK, StandsOK, TlsOps
<1>13. TlsIInv(g)
  BY <1>8, <1>10, <1>11, <1>12, Zenon DEF TlsIInv
<1>14. CASE g.need > 0
  BY <1>4, <1>13, <1>14
<1>15. CASE ~(g.need > 0)
  <2>1. f = [g EXCEPT !.op = "flush"]
    BY <1>4, <1>15
  <2>2. IsTl(f) /\ SameRecords(g, f) /\ SameData(g, f) /\ SameInput(g, f)
    BY <1>8, <2>1 DEF IsTl, TlFields, SameRecords, SameData, SameInput
  <2>3. f.op = "flush" /\ f.at = g.at /\ f.need = g.need /\ f.sends = g.sends /\ f.given = g.given
    BY <1>8, <2>1 DEF IsTl, TlFields
  <2>4. k = 0 /\ s = e.given
    <3>1. k \in Nat /\ ~(k > 0)
      BY <1>3, <1>9, <1>15, TlsAssumption
    <3>2. k = 0
      BY <3>1
    <3>3. s \in Nat /\ s + 0 = e.given
      BY <1>3, <3>2
    <3> QED  BY <3>2, <3>3
  <2>5. OwedOK(f) /\ StandsOK(f)
    BY <1>2, <1>3, <1>9, <2>3, <2>4 DEF OwedOK, StandsOK, TlsOps
  <2> QED  BY <1>13, <2>2, <2>5, CallMoves, Zenon
<1> QED  BY <1>14, <1>15

LEMMA ReturnedOK ==
  ASSUME NEW e, TlsIInv(e), e.at = "run", Condition(e) \/ e.closed, NEW f, f = Returned(e)
  PROVE  TlsIInv(f)
<1>0. IsTl(e) /\ RecordsOK(e) /\ DataOK(e) /\ InputOK(e) /\ OwedOK(e) /\ StandsOK(e)
  BY Zenon DEF TlsIInv
<1>1. CASE e.op = "handshake"
  <2> DEFINE b == ~SENDAPP(e)
  <2>1. f = Over(e, b)
    BY <1>1 DEF Returned
  <2>2. e.op \in {"handshake", "flush", "read", "close"}
    BY <1>1
  <2> HIDE DEF b
  <2> QED  BY <1>0, <2>1, <2>2, CallOver, Zenon
<1>2. CASE e.op = "write" /\ e.closed
  <2>1. f = Over(e, TRUE)
    BY <1>2 DEF Returned
  <2> QED  BY <1>0, <2>1, CallOver, Zenon
<1>3. CASE e.op = "write" /\ ~e.closed
  <2>1. SENDAPP(e)
    BY <1>3 DEF Condition
  <2> QED  BY <1>3, <2>1, WriteReturns, Zenon
<1>4. CASE e.op = "read"
  <2>1. f = Over([e EXCEPT !.got = e.got \o e.inapp, !.inapp = <<>>], FALSE)
    BY <1>4 DEF Returned
  <2> QED  BY <1>4, <2>1, ReadReturns, Zenon
<1>5. CASE e.op \in {"flush", "close"}
  <2>1. f = Over(e, FALSE)
    BY <1>5 DEF Returned
  <2>2. e.op \in {"handshake", "flush", "read", "close"}
    BY <1>5
  <2> QED  BY <1>0, <2>1, <2>2, CallOver, Zenon
<1>6. e.op \in TlsOps
  BY <1>0 DEF StandsOK
<1> QED  BY <1>1, <1>2, <1>3, <1>4, <1>5, <1>6 DEF TlsOps

LEMMA TurnOK ==
  ASSUME NEW e, TlsIInv(e), e.at = "run", NEW f, f = Turn(e)
  PROVE  TlsIInv(f)
<1>0. IsTl(e) /\ RecordsOK(e) /\ DataOK(e) /\ InputOK(e) /\ OwedOK(e) /\ StandsOK(e)
  BY Zenon DEF TlsIInv
<1>a. e.op \in TlsOps
  BY <1>0 DEF StandsOK
<1>1. CASE Condition(e) \/ e.closed
  <2>1. f = Returned(e)
    BY <1>1, Zenon DEF Turn
  <2> QED  BY <1>1, <2>1, ReturnedOK, Zenon
<1>2. ASSUME NEW x, f = [e EXCEPT !.at = x], x \in {"write", "read"}, x = "write" => e.rec # <<>>,
             x = "read" => e.leftover = <<>>
      PROVE  TlsIInv(f)
  <2>1. IsTl(f) /\ SameRecords(e, f) /\ SameData(e, f) /\ SameInput(e, f)
    BY <1>0, <1>2 DEF IsTl, TlFields, SameRecords, SameData, SameInput
  <2>2. /\ f.at = x /\ f.op = e.op /\ f.need = e.need /\ f.sends = e.sends /\ f.given = e.given
        /\ f.failed = e.failed /\ f.shut = e.shut
    BY <1>0, <1>2 DEF IsTl, TlFields
  <2>3. OwedOK(f)
    BY <1>0, <2>2, Zenon DEF OwedOK
  <2>4. f.rec = e.rec /\ f.leftover = e.leftover
    BY <2>1, Zenon DEF SameRecords, SameInput
  <2>5. StandsOK(f)
    BY <1>2, <1>a, <2>2, <2>4 DEF StandsOK
  <2> QED  BY <2>1, <2>3, <2>5, CallMoves, Zenon
<1>3. CASE ~(Condition(e) \/ e.closed) /\ SENDREC(e)
  <2>1. f = [e EXCEPT !.at = "write"] /\ e.rec # <<>>
    BY <1>3, Zenon DEF Turn, SENDREC
  <2> QED  BY <1>2, <2>1
<1>4. CASE ~(Condition(e) \/ e.closed) /\ ~SENDREC(e) /\ RECVREC(e) /\ e.leftover # <<>>
  <2>1. f = Pushed(e, e.leftover)
    BY <1>4, Zenon DEF Turn
  <2>2. IsTl(f) /\ RecordsOK(f) /\ DataOK(f) /\ InputOK(f) /\ SameCall(e, f)
    BY <1>0, <2>1, PushedOK, Zenon DEF InputOK
  <2>3. OwedOK(f)
    BY <1>0, <2>2, TlPartsStay, Zenon
  <2>4. f.at = "run" /\ f.op = e.op
    BY <2>2, Zenon DEF SameCall
  <2>5. StandsOK(f)
    BY <1>a, <2>4 DEF StandsOK
  <2> QED  BY <2>2, <2>3, <2>5, Zenon DEF TlsIInv
<1>5. CASE ~(Condition(e) \/ e.closed) /\ ~SENDREC(e) /\ RECVREC(e) /\ e.leftover = <<>>
  <2>1. f = [e EXCEPT !.at = "read"]
    BY <1>5, Zenon DEF Turn
  <2> QED  BY <1>2, <1>5, <2>1
<1>6. CASE ~(Condition(e) \/ e.closed) /\ ~SENDREC(e) /\ ~RECVREC(e)
  <2>1. f = e
    BY <1>6, Zenon DEF Turn
  <2> QED  BY <2>1
<1> QED  BY <1>1, <1>3, <1>4, <1>5, <1>6

(* The operation goes on with its next turn.  *)
LEMMA RunsOn ==
  ASSUME NEW e, IsTl(e), RecordsOK(e), DataOK(e), InputOK(e), OwedOK(e), e.op \in TlsOps,
         NEW f, f = [e EXCEPT !.at = "run"]
  PROVE  TlsIInv(f)
<1>1. IsTl(f) /\ SameRecords(e, f) /\ SameData(e, f) /\ SameInput(e, f)
  BY DEF IsTl, TlFields, SameRecords, SameData, SameInput
<1>2. /\ f.at = "run" /\ f.op = e.op /\ f.need = e.need /\ f.sends = e.sends /\ f.given = e.given
      /\ f.failed = e.failed /\ f.shut = e.shut
  BY DEF IsTl, TlFields
<1>3. OwedOK(f)
  BY <1>2, Zenon DEF OwedOK
<1>4. StandsOK(f)
  BY <1>2 DEF StandsOK
<1>5. RecordsOK(f) /\ DataOK(f) /\ InputOK(f)
  BY <1>1, TlPartsStay, Zenon DEF SameData
<1> QED  BY <1>1, <1>3, <1>4, <1>5, Zenon DEF TlsIInv

(* The record on offer has gone out.  *)
LEMMA AckedOK ==
  ASSUME NEW e, IsTl(e), RecordsOK(e), DataOK(e), e.rec # <<>>, NEW f,
         f = [Acked(e) EXCEPT !.wire = Append(e.wire, Head(e.rec))]
  PROVE  EngineStep(e, f) /\ f.took = e.took
<1> DEFINE r == Tail(e.rec)
           w == Append(e.wire, Head(e.rec))
           k == e.acked + 1
           c == e.closed \/ (e.closing /\ e.told /\ Len(e.rec) = 1)
           A == Acked(e)
<1>1. /\ e.rec \in Seq(Nat) /\ e.wire \in Seq(Nat) /\ e.made \in Nat /\ e.acked \in Nat
      /\ e.acked = Len(e.wire) /\ e.made = e.acked + Len(e.rec)
      /\ Counts(e.wire, 0) /\ Counts(e.rec, e.acked)
  BY Zenon DEF RecordsOK
<1>2. /\ Head(e.rec) = e.acked + 1 /\ r \in Seq(Nat) /\ Len(r) = Len(e.rec) - 1
      /\ Counts(r, k) /\ Len(e.rec) \in Nat \ {0}
  BY <1>1, CountsTail, Zenon
<1>3. w \in Seq(Nat) /\ Len(w) = Len(e.wire) + 1 /\ Counts(w, 0)
  <2>1. Head(e.rec) = 0 + Len(e.wire) + 1 /\ 0 \in Nat
    BY <1>1, <1>2
  <2> QED  BY <1>1, <2>1, CountsAppend, Zenon
<1>4. k \in Nat /\ k = Len(w) /\ e.made = k + Len(r)
  <2> DEFINE x == e.acked
             y == Len(e.rec)
             u == Len(w)
             v == Len(r)
             m == e.made
  <2>1. x \in Nat /\ y \in Nat \ {0} /\ u = x + 1 /\ v = y - 1 /\ m = x + y /\ k = x + 1
    BY <1>1, <1>2, <1>3, Zenon
  <2> HIDE DEF x, y, u, v, m, k
  <2>2. k \in Nat /\ k = u /\ m = k + v
    BY <2>1
  <2> QED  BY <2>2 DEF u, v, m
<1>5. A = [e EXCEPT !.rec = r, !.acked = k, !.closed = c]
  BY Zenon DEF Acked
<1>6. f = [A EXCEPT !.wire = w]
  OBVIOUS
<1>7. c => e.closing
  BY Zenon DEF DataOK, DataCount
<1> HIDE DEF r, w, k, c, A
<1>8. IsTl(A) /\ SameInput(e, A) /\ SameCall(e, A)
  BY <1>5 DEF IsTl, TlFields, SameInput, SameCall
<1>9. /\ A.rec = r /\ A.acked = k /\ A.made = e.made /\ A.closed = c /\ A.app = e.app /\ A.hs = e.hs
      /\ A.took = e.took /\ A.got = e.got /\ A.inapp = e.inapp /\ A.closing = e.closing
  BY <1>5 DEF IsTl, TlFields
<1>10. IsTl(f) /\ SameInput(A, f) /\ SameCall(A, f)
  BY <1>6, <1>8 DEF IsTl, TlFields, SameInput, SameCall
<1>11. f.rec = A.rec /\ f.acked = A.acked /\ f.made = A.made /\ f.wire = w /\ SameData(A, f)
  BY <1>6, <1>8 DEF IsTl, TlFields, SameData
<1>12. RecordsOK(f)
  <2>1. f.rec = r /\ f.acked = k /\ f.made = e.made /\ f.wire = w
    BY <1>9, <1>11, Zenon
  <2> QED  BY <1>1, <1>2, <1>3, <1>4, <2>1, Zenon DEF RecordsOK
<1>13. DataOK(f) /\ f.took = e.took
  <2>1. /\ f.app = e.app /\ f.hs = e.hs /\ f.took = e.took /\ f.got = e.got /\ f.inapp = e.inapp
        /\ f.closing = e.closing /\ f.closed = c
    BY <1>9, <1>11, Zenon DEF SameData
  <2>2. DataCount(e.hs, e.took, Len(e.got), Len(e.inapp), e.closing, c)
    <3>1. DataCount(e.hs, e.took, Len(e.got), Len(e.inapp), e.closing, e.closed)
      BY Zenon DEF DataOK
    <3> QED  BY <1>7, <3>1, Zenon DEF DataCount
  <2> QED  BY <2>1, <2>2, Zenon DEF DataOK
<1>14. SameInput(e, f) /\ SameCall(e, f)
  BY <1>8, <1>10 DEF SameInput, SameCall
<1> QED  BY <1>10, <1>12, <1>13, <1>14, Zenon DEF EngineStep

(* What the engine did leaves the rest of the connection in order.  *)
LEMMA EngineStays ==
  ASSUME NEW e, TlsIInv(e), NEW f, EngineStep(e, f), f.took = e.took
  PROVE  IsTl(f) /\ RecordsOK(f) /\ DataOK(f) /\ InputOK(f) /\ OwedOK(f) /\ f.op = e.op /\ f.at = e.at
<1>1. InputOK(e) /\ OwedOK(e)
  BY Zenon DEF TlsIInv
<1>2. IsTl(f) /\ RecordsOK(f) /\ DataOK(f) /\ SameInput(e, f) /\ SameCall(e, f)
  BY Zenon DEF EngineStep
<1>3. InputOK(f) /\ OwedOK(f)
  BY <1>1, <1>2, TlPartsStay, Zenon
<1> QED  BY <1>2, <1>3, Zenon DEF SameCall

(* Where the stream is waited for, a call is under way.  *)
LEMMA WaitsInCall ==
  ASSUME NEW e, TlsIInv(e), e.at \in {"run", "write", "read"}
  PROVE  e.op \in TlsOps
BY DEF TlsIInv, StandsOK

LEMMA WriteDoneOK ==
  ASSUME NEW e, TlsIInv(e), e.at = "write", e.rec # <<>>, NEW f,
         f = [Acked(e) EXCEPT !.wire = Append(e.wire, Head(e.rec)), !.at = "run"]
  PROVE  TlsIInv(f)
<1> DEFINE w == Append(e.wire, Head(e.rec))
           A == Acked(e)
           d == [Acked(e) EXCEPT !.wire = w]
<1>1. EngineStep(e, d) /\ d.took = e.took
  BY AckedOK, Zenon DEF TlsIInv
<1>2. f = [d EXCEPT !.at = "run"]
  <2>1. f = [A EXCEPT !.wire = w, !.at = "run"] /\ d = [A EXCEPT !.wire = w]
    OBVIOUS
  <2> HIDE DEF w, A, d
  <2> QED  BY <2>1
<1> HIDE DEF d
<1>3. IsTl(d) /\ RecordsOK(d) /\ DataOK(d) /\ InputOK(d) /\ OwedOK(d) /\ d.op = e.op
  BY <1>1, EngineStays, Zenon
<1>4. d.op \in TlsOps
  BY <1>3, WaitsInCall
<1> QED  BY <1>2, <1>3, <1>4, RunsOn, Zenon

LEMMA ReadDeliversOK ==
  ASSUME NEW e, TlsIInv(e), e.at = "read", NEW n \in 1..Len(e.socket), NEW f,
         f = [Pushed([e EXCEPT !.socket = SubSeq(e.socket, n + 1, Len(e.socket))],
                     SubSeq(e.socket, 1, n)) EXCEPT !.at = "run"]
  PROVE  TlsIInv(f)
<1> DEFINE chunk == SubSeq(e.socket, 1, n)
           rest == SubSeq(e.socket, n + 1, Len(e.socket))
           d == [e EXCEPT !.socket = rest]
           g == Pushed(d, chunk)
           k == e.took
           so == Len(e.socket)
           sr == Len(e.source)
<1>0. IsTl(e) /\ RecordsOK(e) /\ DataOK(e) /\ InputOK(e) /\ OwedOK(e) /\ StandsOK(e)
  BY Zenon DEF TlsIInv
<1>1. e.leftover = <<>>
  BY <1>0 DEF StandsOK
<1>2. Len(<<>>) = 0
  OBVIOUS
<1>3. /\ e.socket \in Seq(Nat) /\ e.source \in Seq(Nat)
      /\ k + 0 + so + sr = TlsData + 3
      /\ From(e.socket, k + 0) /\ From(e.source, k + 0 + so)
  BY <1>0, <1>1, <1>2, Zenon DEF InputOK, InputFrom
<1>4. k \in Nat /\ so \in Nat /\ sr \in Nat
  BY <1>0, <1>3, LenIsNat, Zenon DEF DataOK
<1>5. n \in 0..so /\ n \in Nat /\ k + 0 = k
  <2> HIDE DEF k
  <2> QED  BY <1>4
<1>6. From(e.socket, k) /\ k + so + sr = TlsData + 3 /\ From(e.source, k + so)
  BY <1>3, <1>5, Zenon
<1>7. /\ chunk \in Seq(Nat) /\ Len(chunk) = n /\ From(chunk, k)
      /\ rest \in Seq(Nat) /\ Len(rest) = so - n /\ From(rest, k + n)
  BY <1>3, <1>4, <1>5, <1>6, FromCut, Zenon
<1>8. InputFrom(k, chunk, rest, e.source)
  <2> DEFINE x == Len(chunk)
             y == Len(rest)
  <2>1. x = n /\ y = so - n
    BY <1>7, Zenon
  <2>2. k + x + y + sr = TlsData + 3 /\ k + x + y = k + so
    <3> HIDE DEF x, y, k, so, sr
    <3> QED  BY <1>4, <1>5, <1>6, <2>1
  <2>3. From(rest, k + x) /\ From(e.source, k + x + y)
    BY <1>6, <1>7, <2>1, <2>2, Zenon
  <2> QED  BY <1>3, <1>7, <2>2, <2>3, Zenon DEF InputFrom
<1> HIDE DEF rest, chunk
<1>9. /\ IsTl(d) /\ SameRecords(e, d) /\ SameData(e, d) /\ SameCall(e, d)
      /\ d.socket = rest /\ d.source = e.source /\ d.took = e.took
  BY <1>0 DEF IsTl, TlFields, SameRecords, SameData, SameCall
<1>10. f = [g EXCEPT !.at = "run"]
  BY DEF rest, chunk
<1> HIDE DEF d
<1>11. RecordsOK(d) /\ DataOK(d) /\ OwedOK(d)
  BY <1>0, <1>9, TlPartsStay, Zenon
<1>12. InputFrom(d.took, chunk, d.socket, d.source)
  BY <1>8, <1>9, Zenon
<1>13. IsTl(g) /\ RecordsOK(g) /\ DataOK(g) /\ InputOK(g) /\ SameCall(d, g)
  BY <1>9, <1>11, <1>12, PushedOK, Zenon
<1> HIDE DEF g
<1>14. OwedOK(g)
  BY <1>11, <1>13, TlPartsStay, Zenon
<1>15. g.op \in TlsOps
  <2>1. e.op \in TlsOps
    BY WaitsInCall
  <2>2. g.op = e.op
    BY <1>9, <1>13, Zenon DEF SameCall
  <2> QED  BY <2>1, <2>2
<1> QED  BY <1>10, <1>13, <1>14, <1>15, RunsOn, Zenon

LEMMA ReadEofOK ==
  ASSUME NEW e, TlsIInv(e), e.at = "read", NEW f, f = [EngineClose(e) EXCEPT !.at = "run"]
  PROVE  TlsIInv(f)
<1> DEFINE d == EngineClose(e)
<1>1. EngineStep(e, d) /\ d.took = e.took
  BY EngineCloseOK, Zenon DEF TlsIInv
<1>2. f = [d EXCEPT !.at = "run"]
  OBVIOUS
<1> HIDE DEF d
<1>3. IsTl(d) /\ RecordsOK(d) /\ DataOK(d) /\ InputOK(d) /\ OwedOK(d) /\ d.op = e.op
  BY <1>1, EngineStays, Zenon
<1>4. d.op \in TlsOps
  BY <1>3, WaitsInCall
<1> QED  BY <1>2, <1>3, <1>4, RunsOn, Zenon

(* A write that is given up has gone out; a read has left everything.  *)
LEMMA AbortOK ==
  ASSUME NEW e, TlsIInv(e), e.at \in {"read", "write", "lost"}, NEW f,
         f = [GivenUp(e) EXCEPT !.aborted = TRUE]
  PROVE  TlsIInv(f)
<1> DEFINE d == IF e.at = "write" THEN [Acked(e) EXCEPT !.wire = Append(e.wire, Head(e.rec))]
                ELSE e
           g == Over(d, TRUE)
<1>1. IsTl(d) /\ RecordsOK(d) /\ DataOK(d) /\ InputOK(d) /\ OwedOK(d)
  <2>1. CASE e.at # "write"
    <3>1. d = e
      BY <2>1
    <3> HIDE DEF d
    <3> QED  BY <3>1, Zenon DEF TlsIInv
  <2>2. CASE e.at = "write"
    <3>1. e.rec # <<>>
      BY <2>2 DEF TlsIInv, StandsOK
    <3>2. d = [Acked(e) EXCEPT !.wire = Append(e.wire, Head(e.rec))]
      BY <2>2, Zenon
    <3> HIDE DEF d
    <3>3. EngineStep(e, d) /\ d.took = e.took
      BY <3>1, <3>2, AckedOK, Zenon DEF TlsIInv
    <3> QED  BY <3>3, EngineStays, Zenon
  <2> QED  BY <2>1, <2>2
<1>2. f = [g EXCEPT !.aborted = TRUE]
  BY Zenon DEF GivenUp
<1> HIDE DEF d
<1>3. TlsIInv(g)
  BY <1>1, CallOver, Zenon
<1> HIDE DEF g
<1>4. IsTl(g)
  BY <1>3, Zenon DEF TlsIInv
<1>5. IsTl(f) /\ SameRecords(g, f) /\ SameData(g, f) /\ SameInput(g, f) /\ SameCall(g, f)
  BY <1>2, <1>4 DEF IsTl, TlFields, SameRecords, SameData, SameInput, SameCall
<1>6. OwedOK(f)
  BY <1>3, <1>5, TlPartsStay, Zenon DEF TlsIInv
<1>7. StandsOK(f)
  BY <1>3, <1>5, Zenon DEF TlsIInv, StandsOK, SameCall, SameRecords, SameInput
<1> QED  BY <1>3, <1>5, <1>6, <1>7, CallMoves, Zenon

-----------------------------------------------------------------------------
(* A read that the stream has forgotten.  *)
LEMMA StaleAbortOK ==
  ASSUME NEW e, TlsIInv(e), e.at = "read", NEW f, f = [e EXCEPT !.at = "lost"]
  PROVE  TlsIInv(f)
<1>0. IsTl(e) /\ RecordsOK(e) /\ DataOK(e) /\ InputOK(e) /\ OwedOK(e) /\ StandsOK(e)
  BY Zenon DEF TlsIInv
<1>1. /\ IsTl(f) /\ SameRecords(e, f) /\ SameData(e, f) /\ SameInput(e, f)
      /\ f.op = e.op /\ f.at = "lost" /\ f.need = e.need /\ f.sends = e.sends
      /\ f.given = e.given /\ f.failed = e.failed /\ f.shut = e.shut
  BY <1>0 DEF IsTl, TlFields, SameRecords, SameData, SameInput
<1>2. OwedOK(f)
  BY <1>0, <1>1 DEF OwedOK
<1>3. StandsOK(f)
  BY <1>0, <1>1, WaitsInCall DEF StandsOK
<1> QED  BY <1>0, <1>1, <1>2, <1>3, CallMoves, Zenon

(* The program and the peer.                                                 *)

LEMMA CallHandshakeOK ==
  ASSUME NEW e, TlsIInv(e), e.op = "new", NEW f, f = [e EXCEPT !.op = "handshake", !.at = "run"]
  PROVE  TlsIInv(f)
<1>0. IsTl(e) /\ OwedOK(e)
  BY Zenon DEF TlsIInv
<1>1. IsTl(f) /\ SameRecords(e, f) /\ SameData(e, f) /\ SameInput(e, f)
  BY <1>0 DEF IsTl, TlFields, SameRecords, SameData, SameInput
<1>2. /\ f.op = "handshake" /\ f.at = "run" /\ f.need = e.need /\ f.sends = e.sends
      /\ f.given = e.given
  BY <1>0 DEF IsTl, TlFields
<1>3. OwedOK(f) /\ StandsOK(f)
  BY <1>0, <1>2 DEF OwedOK, StandsOK, TlsOps
<1> QED  BY <1>1, <1>3, CallMoves, Zenon

LEMMA CallWriteOK ==
  ASSUME NEW e, TlsIInv(e), e.op = "idle", ~e.failed, ~e.shut, NEW n \in 1..MaxSends, NEW f,
         f = [e EXCEPT !.op = "write", !.at = "run", !.need = n, !.given = e.given + n]
  PROVE  TlsIInv(f)
<1> DEFINE g == e.given + n
<1>0. IsTl(e) /\ OwedOK(e)
  BY Zenon DEF TlsIInv
<1>a. e.sends = e.given /\ e.sends \in Nat /\ n \in Nat /\ n \in 0..MaxSends
  BY <1>0, TlsAssumption DEF OwedOK
<1>b. g \in Nat /\ e.sends + n = g
  BY <1>a
<1>c. f = [e EXCEPT !.op = "write", !.at = "run", !.need = n, !.given = g]
  OBVIOUS
<1> HIDE DEF g
<1>d. IsTl(f)
  BY <1>0, <1>c DEF IsTl, TlFields
<1>e. SameRecords(e, f) /\ SameInput(e, f)
  BY <1>0, <1>c DEF IsTl, TlFields, SameRecords, SameInput
<1>f. SameData(e, f)
  BY <1>0, <1>c DEF IsTl, TlFields, SameData
<1>1. IsTl(f) /\ SameRecords(e, f) /\ SameData(e, f) /\ SameInput(e, f)
  BY <1>d, <1>e, <1>f
<1>2. /\ f.op = "write" /\ f.at = "run" /\ f.need = n /\ f.sends = e.sends /\ f.given = g
  BY <1>0, <1>c DEF IsTl, TlFields
<1>3. OwedOK(f) /\ StandsOK(f)
  BY <1>a, <1>b, <1>2 DEF OwedOK, StandsOK, TlsOps
<1> QED  BY <1>1, <1>3, CallMoves, Zenon

LEMMA CallReadOK ==
  ASSUME NEW e, TlsIInv(e), e.op = "idle", ~e.failed, ~e.shut, NEW f,
         f = [e EXCEPT !.op = "read", !.at = "run"]
  PROVE  TlsIInv(f)
<1>0. IsTl(e) /\ OwedOK(e)
  BY Zenon DEF TlsIInv
<1>1. IsTl(f) /\ SameRecords(e, f) /\ SameData(e, f) /\ SameInput(e, f)
  BY <1>0 DEF IsTl, TlFields, SameRecords, SameData, SameInput
<1>2. /\ f.op = "read" /\ f.at = "run" /\ f.need = e.need /\ f.sends = e.sends
      /\ f.given = e.given
  BY <1>0 DEF IsTl, TlFields
<1>3. OwedOK(f) /\ StandsOK(f)
  BY <1>0, <1>2 DEF OwedOK, StandsOK, TlsOps
<1> QED  BY <1>1, <1>3, CallMoves, Zenon

LEMMA CallCloseOK ==
  ASSUME NEW e, TlsIInv(e), NEW f,
         f = [EngineClose(e) EXCEPT !.op = "close", !.at = "run", !.shut = TRUE]
  PROVE  TlsIInv(f)
<1> DEFINE d == EngineClose(e)
<1>1. EngineStep(e, d) /\ d.took = e.took
  BY EngineCloseOK, Zenon DEF TlsIInv
<1>2. f = [d EXCEPT !.op = "close", !.at = "run", !.shut = TRUE]
  OBVIOUS
<1> HIDE DEF d
<1>3. IsTl(d) /\ RecordsOK(d) /\ DataOK(d) /\ InputOK(d) /\ OwedOK(d)
  BY <1>1, EngineStays, Zenon
<1>4. IsTl(f) /\ SameRecords(d, f) /\ SameData(d, f) /\ SameInput(d, f)
  BY <1>2, <1>3 DEF IsTl, TlFields, SameRecords, SameData, SameInput
<1>5. /\ f.op = "close" /\ f.at = "run" /\ f.shut = TRUE /\ f.need = d.need /\ f.sends = d.sends
      /\ f.given = d.given
  BY <1>2, <1>3 DEF IsTl, TlFields
<1>6. OwedOK(f) /\ StandsOK(f)
  BY <1>3, <1>5 DEF OwedOK, StandsOK, TlsOps
<1>7. RecordsOK(f) /\ DataOK(f) /\ InputOK(f)
  BY <1>3, <1>4, TlPartsStay, Zenon DEF SameData
<1> QED  BY <1>4, <1>6, <1>7, Zenon DEF TlsIInv

LEMMA PeerSendsOK ==
  ASSUME NEW e, TlsIInv(e), e.source # <<>>, NEW b, NEW f,
         f = [e EXCEPT !.socket = Append(e.socket, Head(e.source)), !.source = Tail(e.source),
                       !.eof = b]
  PROVE  TlsIInv(f)
<1> DEFINE s == Append(e.socket, Head(e.source))
           t == Tail(e.source)
           k == e.took
           l == Len(e.leftover)
           so == Len(e.socket)
           sr == Len(e.source)
<1>0. IsTl(e) /\ RecordsOK(e) /\ DataOK(e) /\ InputOK(e) /\ OwedOK(e) /\ StandsOK(e)
  BY Zenon DEF TlsIInv
<1>1. /\ e.leftover \in Seq(Nat) /\ e.socket \in Seq(Nat) /\ e.source \in Seq(Nat)
      /\ k + l + so + sr = TlsData + 3
      /\ From(e.leftover, k) /\ From(e.socket, k + l) /\ From(e.source, k + l + so)
  BY <1>0, Zenon DEF InputOK, InputFrom
<1>2. k \in Nat /\ l \in Nat /\ so \in Nat /\ sr \in Nat
  BY <1>0, <1>1, LenIsNat, Zenon DEF DataOK
<1>3. k + l \in Nat /\ k + l + so \in Nat
  <2> HIDE DEF k, l, so
  <2> QED  BY <1>2
<1>4. /\ Head(e.source) = Sent(k + l + so + 1) /\ t \in Seq(Nat) /\ Len(t) = sr - 1
      /\ From(t, k + l + so + 1) /\ Head(e.source) \in Nat /\ sr \in Nat \ {0}
  BY <1>1, <1>3, FromTail, Zenon
<1>5. s \in Seq(Nat) /\ Len(s) = so + 1 /\ From(s, k + l)
  BY <1>1, <1>3, <1>4, FromAppend, Zenon
<1>6. InputFrom(k, e.leftover, s, t)
  <2> DEFINE x == Len(s)
             y == Len(t)
  <2>1. x = so + 1 /\ y = sr - 1 /\ sr \in Nat \ {0}
    BY <1>4, <1>5, Zenon
  <2>a. k + l + so + sr = TlsData + 3
    BY <1>1, Zenon
  <2>2. k + l + x + y = TlsData + 3 /\ k + l + x = k + l + so + 1
    <3> HIDE DEF k, l, so, sr, x, y
    <3> QED  BY <1>2, <2>1, <2>a
  <2>3. From(t, k + l + x)
    BY <1>4, <2>2, Zenon
  <2> QED  BY <1>1, <1>4, <1>5, <2>2, <2>3, Zenon DEF InputFrom
<1>7. f = [e EXCEPT !.socket = s, !.source = t, !.eof = b]
  OBVIOUS
<1> HIDE DEF s, t
<1>8. IsTl(f) /\ SameRecords(e, f) /\ SameData(e, f) /\ SameCall(e, f)
  BY <1>0, <1>7 DEF IsTl, TlFields, SameRecords, SameData, SameCall
<1>9. f.socket = s /\ f.source = t /\ f.took = e.took /\ f.leftover = e.leftover
  BY <1>0, <1>7 DEF IsTl, TlFields
<1>10. RecordsOK(f) /\ DataOK(f) /\ OwedOK(f)
  BY <1>0, <1>8, TlPartsStay, Zenon
<1>11. InputOK(f)
  BY <1>6, <1>9, Zenon DEF InputOK
<1>12. StandsOK(f)
  BY <1>0, <1>8, <1>9, Zenon DEF StandsOK, SameCall, SameRecords
<1> QED  BY <1>8, <1>10, <1>11, <1>12, Zenon DEF TlsIInv

LEMMA PeerCutsOK ==
  ASSUME NEW e, TlsIInv(e), NEW f, f = [e EXCEPT !.eof = TRUE, !.cut = TRUE]
  PROVE  TlsIInv(f)
<1>0. IsTl(e) /\ RecordsOK(e) /\ DataOK(e) /\ InputOK(e) /\ OwedOK(e) /\ StandsOK(e)
  BY Zenon DEF TlsIInv
<1>1. IsTl(f) /\ SameRecords(e, f) /\ SameData(e, f) /\ SameInput(e, f) /\ SameCall(e, f)
  BY <1>0 DEF IsTl, TlFields, SameRecords, SameData, SameInput, SameCall
<1>2. OwedOK(f)
  BY <1>0, <1>1, TlPartsStay, Zenon
<1>3. StandsOK(f)
  BY <1>0, <1>1, Zenon DEF StandsOK, SameCall, SameRecords, SameInput
<1> QED  BY <1>1, <1>2, <1>3, CallMoves, Zenon

(* Every step keeps the connection in order.  *)
LEMMA TlsStep ==
  ASSUME TlsIInv(tl), TlsNext PROVE TlsIInv(tl')
<1>1. CASE Drive
  BY <1>1, TurnOK, Zenon DEF Drive
<1>2. CASE WriteDone
  BY <1>2, WriteDoneOK, Zenon DEF WriteDone
<1>3. CASE WriteFails
  <2>1. tl' = Over(tl, TRUE)
    BY <1>3, Zenon DEF WriteFails
  <2> QED  BY <2>1, CallOver, Zenon DEF TlsIInv
<1>4. CASE ReadDelivers
  BY <1>4, ReadDeliversOK, Zenon DEF ReadDelivers
<1>5. CASE ReadEof
  BY <1>5, ReadEofOK, Zenon DEF ReadEof
<1>6. CASE Abort
  BY <1>6, AbortOK, Zenon DEF Abort
<1>s. CASE StaleAbort
  BY <1>s, StaleAbortOK, Zenon DEF StaleAbort
<1>7. CASE CallHandshake
  BY <1>7, CallHandshakeOK, Zenon DEF CallHandshake
<1>8. CASE CallRead
  BY <1>8, CallReadOK, Zenon DEF CallRead
<1>9. CASE CallClose
  BY <1>9, CallCloseOK, Zenon DEF CallClose
<1>10. ASSUME NEW n \in 1..MaxSends, CallWrite(n) PROVE TlsIInv(tl')
  BY <1>10, CallWriteOK, Zenon DEF CallWrite
<1>11. CASE PeerSends
  BY <1>11, PeerSendsOK, Zenon DEF PeerSends
<1>12. CASE PeerCuts
  BY <1>12, PeerCutsOK, Zenon DEF PeerCuts
<1> QED  BY <1>1, <1>2, <1>3, <1>4, <1>5, <1>6, <1>7, <1>8, <1>9, <1>10, <1>11, <1>12, <1>s DEF TlsNext

(* All that the peer sends, from the first unit on.  *)
AllSent == <<Hs, Hs>> \o Append(Incoming, Notify)

LEMMA AllSentIs ==
  /\ Incoming \in Seq(Nat) /\ Len(Incoming) = TlsData /\ \A i \in 1..TlsData : Incoming[i] = i
  /\ AllSent \in Seq(Nat) /\ Len(AllSent) = TlsData + 3 /\ From(AllSent, 0)
<1> DEFINE u == Append(Incoming, Notify)
           h == <<Hs, Hs>>
<1>0. TlsData \in Nat
  BY TlsAssumption
<1>1. Incoming \in Seq(Nat) /\ Len(Incoming) = TlsData /\ \A i \in 1..TlsData : Incoming[i] = i
  <2>1. Incoming \in [1..TlsData -> Nat] /\ \A i \in 1..TlsData : Incoming[i] = i
    BY <1>0 DEF Incoming
  <2> QED  BY <1>0, <2>1, SeqOfFunction
<1>2. Notify \in Nat /\ Notify = TlsData + 1
  BY <1>0 DEF Notify
<1>3. /\ u \in Seq(Nat) /\ Len(u) = TlsData + 1 /\ u[TlsData + 1] = TlsData + 1
      /\ \A i \in 1..TlsData : u[i] = i
  <2>1. u \in Seq(Nat) /\ Len(u) = TlsData + 1 /\ u[TlsData + 1] = Notify
        /\ \A i \in 1..TlsData : u[i] = Incoming[i]
    BY <1>0, <1>1, <1>2
  <2> QED  BY <1>1, <1>2, <2>1
<1>4. h \in Seq(Nat) /\ Len(h) = 2 /\ h[1] = 0 /\ h[2] = 0
  BY DEF Hs
<1>5. AllSent = h \o u
  BY DEF AllSent
<1> HIDE DEF u, h
<1>6. /\ AllSent \in Seq(Nat) /\ Len(AllSent) = 2 + (TlsData + 1)
      /\ \A i \in 1..2 : AllSent[i] = h[i]
      /\ \A i \in 1..(TlsData + 1) : AllSent[2 + i] = u[i]
  <2>1. u \in Seq(Nat) /\ Len(u) = TlsData + 1 /\ h \in Seq(Nat) /\ Len(h) = 2
    BY <1>3, <1>4, Zenon
  <2>2. /\ AllSent \in Seq(Nat) /\ Len(AllSent) = Len(h) + Len(u)
        /\ \A i \in 1..Len(h) : AllSent[i] = h[i]
        /\ \A i \in 1..Len(u) : AllSent[Len(h) + i] = u[i]
    <3>1. u \in Seq(Nat)
      BY <2>1, Zenon
    <3>2. h \in Seq(Nat)
      BY <2>1, Zenon
    <3>3. JoinAt(h, u, AllSent)
      BY <1>5, <3>1, <3>2, JoinedAt
    <3> QED  BY <3>3, Zenon DEF JoinAt
  <2> QED  BY <2>1, <2>2, Zenon
<1>7. Len(AllSent) = TlsData + 3
  BY <1>0, <1>6
<1>8. ASSUME NEW i \in 1..(TlsData + 3) PROVE AllSent[i] = Sent(0 + i)
  <2>1. CASE i =< 2
    <3>1. i \in 1..2 /\ 0 + i = i /\ (i = 1 \/ i = 2)
      BY <1>0, <2>1
    <3>2. AllSent[i] = 0
      BY <1>4, <1>6, <3>1
    <3> QED  BY <2>1, <3>1, <3>2 DEF Sent, Hs
  <2>2. CASE ~(i =< 2)
    <3>1. i - 2 \in 1..(TlsData + 1) /\ 2 + (i - 2) = i /\ 0 + i = i
      BY <1>0, <2>2
    <3>2. AllSent[i] = u[i - 2]
      BY <1>6, <3>1
    <3>3. u[i - 2] = i - 2
      <4>1. CASE i - 2 = TlsData + 1
        BY <1>3, <4>1
      <4>2. CASE i - 2 # TlsData + 1
        <5>1. i - 2 \in 1..TlsData
          BY <1>0, <3>1, <4>2
        <5> QED  BY <1>3, <5>1
      <4> QED  BY <4>1, <4>2
    <3> QED  BY <2>2, <3>1, <3>2, <3>3 DEF Sent
  <2> QED  BY <2>1, <2>2
<1> QED  BY <1>1, <1>6, <1>7, <1>8 DEF From

LEMMA TlsBegins == TlsInit => TlsIInv(tl)
<1> SUFFICES ASSUME TlsInit PROVE TlsIInv(tl)
  OBVIOUS
<1> DEFINE src == <<Hs, Hs>> \o Append(Incoming, Notify)
<1>1. src \in Seq(Nat) /\ Len(src) = TlsData + 3 /\ From(src, 0)
  BY AllSentIs, Zenon DEF AllSent
<1>2. tl = [hs |-> 2, rec |-> <<1>>, made |-> 1, app |-> 0, inapp |-> <<>>, closing |-> FALSE,
            told |-> FALSE, closed |-> FALSE,
            op |-> "new", at |-> "over", leftover |-> <<>>, need |-> 0, sends |-> 0, given |-> 0,
            got |-> <<>>, failed |-> FALSE, shut |-> FALSE, acked |-> 0, took |-> 0,
            wire |-> <<>>, socket |-> <<>>, source |-> src,
            eof |-> FALSE, cut |-> FALSE, aborted |-> FALSE]
  BY DEF TlsInit
<1> HIDE DEF src
<1>3. IsTl(tl)
  BY <1>2 DEF IsTl, TlFields
<1>4. /\ tl.hs = 2 /\ tl.rec = <<1>> /\ tl.made = 1 /\ tl.app = 0 /\ tl.inapp = <<>>
      /\ tl.closing = FALSE /\ tl.closed = FALSE /\ tl.op = "new" /\ tl.at = "over"
      /\ tl.leftover = <<>> /\ tl.need = 0 /\ tl.sends = 0 /\ tl.given = 0 /\ tl.got = <<>>
      /\ tl.acked = 0 /\ tl.took = 0 /\ tl.wire = <<>> /\ tl.socket = <<>> /\ tl.source = src
  BY <1>2
<1>5. /\ <<>> \in Seq(Nat) /\ Len(<<>>) = 0 /\ Counts(<<>>, 0) /\ From(<<>>, 0)
      /\ <<1>> \in Seq(Nat) /\ Len(<<1>>) = 1 /\ Counts(<<1>>, 0)
  BY EmptyInput DEF Counts
<1>6. RecordsOK(tl)
  BY <1>4, <1>5 DEF RecordsOK
<1>7. DataOK(tl)
  <2>1. DataCount(2, 0, 0, 0, FALSE, FALSE)
    BY TlsAssumption DEF DataCount
  <2>2. DataCount(tl.hs, tl.took, Len(tl.got), Len(tl.inapp), tl.closing, tl.closed)
    BY <1>4, <1>5, <2>1, Zenon
  <2>3. tl.took \in Nat /\ Counts(tl.got, 0) /\ Counts(tl.inapp, Len(tl.got))
    <3>1. 0 \in Nat
      OBVIOUS
    <3> QED  BY <1>4, <1>5, <3>1, Zenon
  <2> QED  BY <1>4, <1>5, <2>2, <2>3, Zenon DEF DataOK
<1>8. InputOK(tl)
  <2>1. InputFrom(0, <<>>, <<>>, src)
    <3>1. 0 + 0 = 0 /\ 0 + 0 + 0 = 0 /\ 0 + 0 + 0 + (TlsData + 3) = TlsData + 3
      BY TlsAssumption
    <3> QED  BY <1>1, <1>5, <3>1, Zenon DEF InputFrom
  <2> QED  BY <1>4, <2>1, Zenon DEF InputOK
<1>9. OwedOK(tl) /\ StandsOK(tl)
  BY <1>4, TlsAssumption DEF OwedOK, StandsOK
<1> QED  BY <1>3, <1>6, <1>7, <1>8, <1>9, Zenon DEF TlsIInv

LEMMA FromJoin ==
  ASSUME NEW a \in Seq(Nat), NEW b \in Seq(Nat), NEW k \in Nat, From(a, k), From(b, k + Len(a))
  PROVE  a \o b \in Seq(Nat) /\ Len(a \o b) = Len(a) + Len(b) /\ From(a \o b, k)
<1> DEFINE t == a \o b
<1>1. /\ t \in Seq(Nat) /\ Len(t) = Len(a) + Len(b) /\ Len(a) \in Nat /\ Len(b) \in Nat
      /\ \A i \in 1..Len(a) : t[i] = a[i]
      /\ \A i \in 1..Len(b) : t[Len(a) + i] = b[i]
  OBVIOUS
<1> HIDE DEF t
<1>2. ASSUME NEW i \in 1..Len(t) PROVE t[i] = Sent(k + i)
  <2>1. CASE i \in 1..Len(a)
    BY <1>1, <2>1 DEF From
  <2>2. CASE ~(i \in 1..Len(a))
    <3>1. i - Len(a) \in 1..Len(b) /\ Len(a) + (i - Len(a)) = i /\ k + Len(a) + (i - Len(a)) = k + i
      BY <1>1, <2>2
    <3>2. t[i] = b[i - Len(a)] /\ b[i - Len(a)] = Sent(k + Len(a) + (i - Len(a)))
      BY <1>1, <3>1 DEF From
    <3> QED  BY <3>1, <3>2
  <2> QED  BY <2>1, <2>2
<1> QED  BY <1>1, <1>2 DEF From, t

LEMMA InputFollows ==
  ASSUME NEW e, TlsIInv(e), NEW rest, rest = e.leftover \o e.socket \o e.source
  PROVE  IsSuffix(rest, AllSent) /\ e.took + Len(rest) = Len(AllSent)
<1> DEFINE k == e.took
           l == Len(e.leftover)
           so == Len(e.socket)
           sr == Len(e.source)
           p == e.leftover \o e.socket
           m == Len(p)
           n == Len(rest)
<1>1. /\ e.leftover \in Seq(Nat) /\ e.socket \in Seq(Nat) /\ e.source \in Seq(Nat)
      /\ k + l + so + sr = TlsData + 3
      /\ From(e.leftover, k) /\ From(e.socket, k + l) /\ From(e.source, k + l + so)
  BY Zenon DEF TlsIInv, InputOK, InputFrom
<1>2. k \in Nat /\ l \in Nat /\ so \in Nat /\ sr \in Nat
  BY <1>1, LenIsNat, Zenon DEF TlsIInv, DataOK
<1>3. p \in Seq(Nat) /\ m = l + so /\ From(p, k)
  BY <1>1, <1>2, FromJoin, Zenon
<1>4. From(e.source, k + m)
  <2>1. k + m = k + l + so
    <3> HIDE DEF k, l, so, m
    <3> QED  BY <1>2, <1>3
  <2> QED  BY <1>1, <2>1, Zenon
<1>5. rest \in Seq(Nat) /\ n = m + sr /\ From(rest, k)
  <2> HIDE DEF p
  <2>1. rest = p \o e.source
    BY DEF p
  <2>2. p \o e.source \in Seq(Nat) /\ Len(p \o e.source) = m + sr /\ From(p \o e.source, k)
    BY <1>1, <1>2, <1>3, <1>4, FromJoin, Zenon
  <2> QED  BY <2>1, <2>2, Zenon
<1>6. k + n = TlsData + 3
  <2> HIDE DEF k, l, so, sr, m, n
  <2> QED  BY <1>1, <1>2, <1>3, <1>5
<1>7. AllSent \in Seq(Nat) /\ Len(AllSent) = k + n /\ From(AllSent, 0)
  BY <1>6, AllSentIs, Zenon
<1>8. ASSUME NEW i \in 1..n PROVE rest[i] = AllSent[k + i]
  <2>0. n \in Nat /\ k \in Nat
    BY <1>2, <1>5, LenIsNat, Zenon
  <2>1. k + i \in 1..(k + n) /\ 0 + (k + i) = k + i
    <3> HIDE DEF k, n
    <3> QED  BY <2>0
  <2>2. rest[i] = Sent(k + i)
    BY <1>5, Zenon DEF From
  <2>3. AllSent[k + i] = Sent(0 + (k + i))
    BY <1>7, <2>1, Zenon DEF From
  <2> QED  BY <2>1, <2>2, <2>3, Zenon
<1>9. \A i \in 1..Len(rest) : rest[i] = AllSent[k + i]
  BY <1>8
<1>10. IsSuffix(rest, AllSent)
  BY <1>2, <1>5, <1>7, <1>9, SuffixIs, Zenon
<1> QED  BY <1>7, <1>10, Zenon

LEMMA ReadsFollow ==
  ASSUME NEW e, TlsIInv(e) PROVE IsPrefix(e.got \o e.inapp, Incoming)
<1> DEFINE t == e.got \o e.inapp
           a == Len(e.got)
           b == Len(e.inapp)
           n == Len(t)
<1>1. /\ e.got \in Seq(Nat) /\ e.inapp \in Seq(Nat) /\ a + b =< TlsData
      /\ Counts(e.got, 0) /\ Counts(e.inapp, a)
  BY Zenon DEF TlsIInv, DataOK, DataCount
<1>2. t \in Seq(Nat) /\ n = a + b /\ Counts(t, 0)
  BY <1>1, CountsJoin, Zenon
<1>3. n \in Nat /\ TlsData \in Nat /\ n =< TlsData
  BY <1>1, <1>2, LenIsNat, TlsAssumption, Zenon
<1>4. Incoming \in Seq(Nat) /\ Len(Incoming) = TlsData /\ \A i \in 1..TlsData : Incoming[i] = i
  BY AllSentIs, Zenon
<1> HIDE DEF t
<1>5. ASSUME NEW i \in 1..n PROVE t[i] = Incoming[i]
  <2>1. i \in 1..TlsData /\ 0 + i = i
    <3> HIDE DEF n
    <3> QED  BY <1>3
  <2>2. t[i] = 0 + i
    BY <1>2, Zenon DEF Counts
  <2> QED  BY <1>4, <2>1, <2>2, Zenon
<1>6. Len(t) =< Len(Incoming) /\ \A i \in 1..Len(t) : t[i] = Incoming[i]
  BY <1>3, <1>4, <1>5, Zenon
<1>7. IsPrefix(t, Incoming)
  BY <1>2, <1>4, <1>6, PrefixIs, Zenon
<1> QED  BY <1>7 DEF t

LEMMA AlwaysWork ==
  ASSUME NEW e, TlsIInv(e), e.at = "run"
  PROVE  Condition(e) \/ e.closed \/ SENDREC(e) \/ RECVREC(e)
<1> SUFFICES ASSUME ~e.closed, ~SENDREC(e), ~RECVREC(e) PROVE Condition(e)
  OBVIOUS
<1>1. e.rec = <<>> /\ e.inapp # <<>>
  BY Zenon DEF SENDREC, RECVREC
<1>2. e.app = 0 /\ e.inapp \in Seq(Nat) /\ e.got \in Seq(Nat) /\ e.took \in Nat
      /\ DataCount(e.hs, e.took, Len(e.got), Len(e.inapp), e.closing, e.closed)
  BY Zenon DEF TlsIInv, DataOK
<1>3. Len(e.inapp) # 0
  BY <1>1, <1>2
<1>4. ~e.closing
  BY <1>2, <1>3, Zenon DEF DataCount
<1>5. e.hs = 0
  <2> DEFINE k == e.took
             g == Len(e.got)
             i == Len(e.inapp)
  <2>1. g \in Nat /\ i \in Nat /\ i # 0 /\ k \in Nat
    BY <1>2, <1>3, LenIsNat, Zenon
  <2>2. (e.hs = IF k < 2 THEN 2 - k ELSE 0) /\ (g + i = IF k < 2 THEN 0 ELSE k - 2)
    BY <1>2, <1>4, Zenon DEF DataCount
  <2> HIDE DEF k, g, i
  <2> QED  BY <2>1, <2>2
<1>6. SENDAPP(e)
  BY <1>1, <1>2, <1>4, <1>5, TlsAssumption DEF SENDAPP
<1>7. RECVAPP(e) /\ ~SENDREC(e)
  BY <1>1, Zenon DEF RECVAPP
<1>8. e.op \in TlsOps
  BY WaitsInCall
<1> QED  BY <1>6, <1>7, <1>8 DEF Condition, TlsOps

LEMMA TlsIInvImplies == TlsIInv(tl) => TlsInv
<1> SUFFICES ASSUME TlsIInv(tl) PROVE TlsInv
  OBVIOUS
<1>0. RecordsOK(tl) /\ DataOK(tl) /\ OwedOK(tl) /\ StandsOK(tl)
  BY Zenon DEF TlsIInv
<1>1. TlsTypeOK
  <2>1. tl.app \in 0..MaxCopies /\ tl.need \in 0..MaxSends
    BY <1>0, TlsAssumption DEF DataOK, OwedOK
  <2> QED  BY <1>0, <2>1 DEF TlsTypeOK, StandsOK, TlsOps
<1>2. RecordsGoOutOnce
  BY <1>0, CountsIs, Zenon DEF RecordsGoOutOnce, RecordsOK
<1>3. InputIsComplete
  BY InputFollows, Zenon DEF InputIsComplete, AllSent
<1>4. ReadsInOrder
  BY ReadsFollow, Zenon DEF ReadsInOrder
<1>5. WritesAll
  BY <1>0 DEF WritesAll, OwedOK, DataOK
<1>6. DriveMakesProgress
  BY AlwaysWork, Zenon DEF DriveMakesProgress
<1> QED  BY <1>1, <1>2, <1>3, <1>4, <1>5, <1>6, Zenon DEF TlsInv

(* drive moves every record once and in order in both directions: what the   *)
(* engine made goes out numbered through, all that arrived was taken, is     *)
(* kept or is still in the stream, the program reads the peer's data from    *)
(* its beginning on, writeAll has copied all that it was given when it waits *)
(* for its last record, and no turn of the loop is without work.  For every  *)
(* number of units, every length of a chunk and every sequence of calls,     *)
(* aborts, failed writes and ends of the stream.                             *)
THEOREM TlsMovesEverything == Spec => []TlsInv
<1>1. Init => TlsIInv(tl)
  BY TlsBegins DEF Init
<1>2. TlsIInv(tl) /\ [Next]_vars => TlsIInv(tl)'
  <2> SUFFICES ASSUME TlsIInv(tl), [Next]_vars PROVE TlsIInv(tl')
    OBVIOUS
  <2>1. TlsNext \/ tl' = tl
    BY DEF Next, vars
  <2>2. CASE tl' = tl
    BY <2>2
  <2> QED  BY <2>1, <2>2, TlsStep
<1> QED  BY <1>1, <1>2, TlsIInvImplies, PTL DEF Spec
=============================================================================
