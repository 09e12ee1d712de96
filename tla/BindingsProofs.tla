--------------------------- MODULE BindingsProofs ---------------------------
(***************************************************************************)
(* Safety of the bindings that wrap a resource of their own, for any number *)
(* of files, requests, descriptors, messages, runs, connections and         *)
(* statements.  Each binding has an inductive invariant and a lemma for     *)
(* every action; the theorems at the end put them together for the          *)
(* composed specification, in which a behaviour uses one binding.           *)
(***************************************************************************)
EXTENDS Bindings, TLAPS, FiniteSetTheorems, SequenceTheorems

-----------------------------------------------------------------------------
(* SandboxedWorker.                                                          *)

Threads == {"none", "start", "script", "loop", "handler", "exited"}

SbxRecord ==
  [ctor : {"none", "running", "object", "returned"},
   obj : {"none", "failed", "alive", "dead"}, handler : BOOLEAN, args : BOOLEAN,
   thread : Threads, port : BOOLEAN, onmessage : BOOLEAN, timeout : BOOLEAN,
   expired : BOOLEAN, posted : [Pipes -> Nat]]

PipeRecord == [live : BOOLEAN, ref_count : Nat, msg_queue : Seq(Nat), waker : Nat]

(* A pipe with n holders.  *)
PipeOK(q, n) ==
  /\ q \in PipeRecord
  /\ q.ref_count = n
  /\ q.live <=> n # 0
  /\ n = 0 => q = NoPipe
  /\ q.waker = IF q.msg_queue = <<>> THEN 0 ELSE 1

(* The holders of a pipe, counted.  *)
One(b) == IF b THEN 1 ELSE 0
HolderCount(p) ==
  One(sbx.ctor \in {"running", "object"}) + One(sbx.args) + One(sbx.obj = "alive")
    + One(sbx.handler /\ p = "recv") + One(sbx.port /\ p = "send")

PipesInv ==
  /\ mpipe \in [Pipes -> PipeRecord]
  /\ \A p \in Pipes : PipeOK(mpipe[p], HolderCount(p))

(* How far the two threads are decides who can hold what.  *)
StageInv ==
  /\ sbx.thread = "start" => sbx.args /\ ~sbx.port
  /\ sbx.thread \in {"script", "loop", "handler"} => sbx.args /\ sbx.port
  /\ sbx.thread \in {"none", "exited"} => ~sbx.args /\ ~sbx.port
  /\ sbx.ctor = "none" => sbx.thread = "none"
  /\ sbx.ctor \in {"none", "running"} => sbx.obj = "none"
  /\ sbx.handler => sbx.obj = "alive" /\ sbx.ctor = "returned"

SbIInv == sbx \in SbxRecord /\ StageInv /\ PipesInv

LEMMA TailFacts ==
  ASSUME NEW S, NEW s \in Seq(S), s # <<>>
  PROVE  /\ Tail(s) \in Seq(S) /\ Len(Tail(s)) = Len(s) - 1
         /\ Len(s) \in Nat /\ Len(s) >= 1
         /\ Tail(s) = <<>> <=> Len(s) = 1
<1> DEFINE t == Tail(s)
<1>1. t \in Seq(S) /\ Len(t) = Len(s) - 1
  BY HeadTailProperties
<1>2. Len(s) \in Nat /\ Len(s) >= 1
  BY EmptySeq
<1> HIDE DEF t
<1>3. t = <<>> <=> Len(t) = 0
  BY <1>1, EmptySeq
<1>4. t = <<>> <=> Len(s) = 1
  BY <1>1, <1>2, <1>3
<1> QED BY <1>1, <1>2, <1>4 DEF t

(* sandbox_dup_message_pipe and sandbox_free_message_pipe keep the count, and *)
(* what is done to the queue keeps the byte of the waker.                    *)
LEMMA PipeOperations ==
  ASSUME NEW q, NEW n \in Nat, PipeOK(q, n)
  PROVE  /\ n # 0 => PipeOK(DupPipe(q), n + 1)
         /\ n # 0 => PipeOK(FreePipe(q), n - 1)
         /\ n # 0 => \A m \in Nat : PipeOK(Posted(q, m), n)
         /\ q.msg_queue # <<>> => PipeOK(Taken(q), n)
<1>1. q \in PipeRecord /\ q.ref_count = n /\ (q.live <=> n # 0)
      /\ q.waker = IF q.msg_queue = <<>> THEN 0 ELSE 1
  BY DEF PipeOK
<1>2. ASSUME n # 0 PROVE PipeOK(DupPipe(q), n + 1)
  BY <1>1, <1>2 DEF PipeOK, DupPipe, PipeRecord
<1>3. ASSUME n # 0 PROVE PipeOK(FreePipe(q), n - 1)
  BY <1>1, <1>3 DEF PipeOK, FreePipe, PipeRecord, NoPipe
<1>4. ASSUME n # 0, NEW m \in Nat PROVE PipeOK(Posted(q, m), n)
  <2>1. Append(q.msg_queue, m) \in Seq(Nat) /\ Append(q.msg_queue, m) # <<>>
    BY <1>1 DEF PipeRecord
  <2> DEFINE e == Append(q.msg_queue, m)
             r == Posted(q, m)
  <2>2. e \in Seq(Nat) /\ e # <<>>
    BY <2>1
  <2> DEFINE w == IF q.msg_queue = <<>> THEN q.waker + 1 ELSE q.waker
  <2>6. w = 1
    BY <1>1
  <2>3. r = [q EXCEPT !.waker = w, !.msg_queue = e]
    BY DEF Posted
  <2> HIDE DEF e, r, w
  <2>4. /\ r \in PipeRecord /\ r.waker = 1 /\ r.msg_queue = e
        /\ r.ref_count = q.ref_count /\ r.live = q.live
    BY <1>1, <2>2, <2>3, <2>6 DEF PipeRecord
  <2>5. PipeOK(r, n)
    BY <1>1, <1>4, <2>2, <2>4 DEF PipeOK
  <2> QED BY <2>5 DEF r
<1>5. ASSUME q.msg_queue # <<>> PROVE PipeOK(Taken(q), n)
  <2>1. q.msg_queue \in Seq(Nat)
    BY <1>1 DEF PipeRecord
  <2>2. Tail(q.msg_queue) \in Seq(Nat) /\ (Tail(q.msg_queue) = <<>> <=> Len(q.msg_queue) = 1)
    BY <1>5, <2>1, TailFacts
  <2>3. n # 0
    BY <1>5 DEF PipeOK, NoPipe
  <2> QED BY <1>1, <1>5, <2>2, <2>3 DEF PipeOK, Taken, PipeRecord
<1> QED BY <1>2, <1>3, <1>4, <1>5

LEMMA SbInitIInv == SbInit => SbIInv
<1> SUFFICES ASSUME SbInit PROVE SbIInv
  OBVIOUS
<1>1. sbx \in SbxRecord /\ StageInv
  BY DEF SbInit, NoSandbox, SbxRecord, StageInv, Threads
<1>2. \A p \in Pipes : HolderCount(p) = 0
  BY DEF SbInit, NoSandbox, HolderCount, One
<1>3. <<>> \in Seq(Nat)
  OBVIOUS
<1>4. PipeOK(NoPipe, 0)
  BY <1>3 DEF PipeOK, NoPipe, PipeRecord
<1>5. mpipe = [p \in Pipes |-> NoPipe]
  BY DEF SbInit
<1> QED BY <1>1, <1>2, <1>4, <1>5 DEF SbIInv, PipesInv, PipeOK

(* A step is described by the new fields and, pipe by pipe, by an operation   *)
(* that answers the change of the holders.                                   *)
LEMMA PipeByPipe ==
  ASSUME sbx' \in SbxRecord, StageInv',
         mpipe' = [p \in Pipes |-> mpipe'[p]],
         PipeOK(mpipe'["send"], HolderCount("send")'),
         PipeOK(mpipe'["recv"], HolderCount("recv")')
  PROVE  SbIInv'
<1>1. \A p \in Pipes : PipeOK(mpipe'[p], HolderCount(p)')
  BY DEF Pipes
<1>2. mpipe' \in [Pipes -> PipeRecord]
  BY <1>1 DEF PipeOK
<1> QED BY <1>1, <1>2 DEF SbIInv, PipesInv

LEMMA HolderCountType == sbx \in SbxRecord => \A p \in Pipes : HolderCount(p) \in 0..5
BY DEF HolderCount, One, SbxRecord

LEMMA SbFacts ==
  ASSUME SbIInv
  PROVE  /\ sbx \in SbxRecord /\ StageInv
         /\ mpipe \in [Pipes -> PipeRecord]
         /\ "send" \in Pipes /\ "recv" \in Pipes
         /\ HolderCount("send") \in Nat /\ HolderCount("recv") \in Nat
         /\ PipeOK(mpipe["send"], HolderCount("send"))
         /\ PipeOK(mpipe["recv"], HolderCount("recv"))
<1>1. "send" \in Pipes /\ "recv" \in Pipes
  BY DEF Pipes
<1> QED BY <1>1, HolderCountType DEF SbIInv, PipesInv

(* Steps that touch neither a pipe nor a reference.  *)
LEMMA SbQuietKeeps ==
  ASSUME SbIInv, UNCHANGED mpipe, sbx' \in SbxRecord, StageInv',
         sbx'.args = sbx.args, sbx'.handler = sbx.handler, sbx'.port = sbx.port,
         sbx'.obj = "alive" <=> sbx.obj = "alive",
         sbx'.ctor \in {"running", "object"} <=> sbx.ctor \in {"running", "object"}
  PROVE  SbIInv'
<1>1. \A p \in Pipes : HolderCount(p)' = HolderCount(p)
  BY DEF HolderCount, One
<1>2. mpipe' = [p \in Pipes |-> mpipe'[p]]
  BY SbFacts
<1> QED BY <1>1, <1>2, PipeByPipe, SbFacts

LEMMA SbThreadKeeps ==
  SbIInv /\ (SbExpire \/ SbInterrupt \/ SbJsReturns \/ SbChildOnMessage) => SbIInv'
<1> SUFFICES ASSUME SbIInv, SbExpire \/ SbInterrupt \/ SbJsReturns \/ SbChildOnMessage
             PROVE  SbIInv'
  OBVIOUS
<1>1. sbx \in SbxRecord /\ StageInv
  BY SbFacts
<1>2. UNCHANGED mpipe
  BY DEF SbExpire, SbInterrupt, SbJsReturns, SbChildOnMessage
<1>3. CASE SbExpire
  <2>1. sbx' = [sbx EXCEPT !.expired = TRUE]
    BY <1>3 DEF SbExpire
  <2> QED BY <1>1, <1>2, <2>1, SbQuietKeeps DEF SbxRecord, StageInv
<1>4. CASE SbInterrupt \/ SbJsReturns
  <2>1. sbx' = [sbx EXCEPT !.thread = "loop"] /\ sbx.thread \in {"script", "handler"}
    BY <1>4 DEF SbInterrupt, SbJsReturns, InJs
  <2> QED BY <1>1, <1>2, <2>1, SbQuietKeeps DEF SbxRecord, StageInv, Threads
<1>5. CASE SbChildOnMessage
  <2>1. PICK b \in BOOLEAN : sbx' = [sbx EXCEPT !.onmessage = b]
    BY <1>5 DEF SbChildOnMessage
  <2> QED BY <1>1, <1>2, <2>1, SbQuietKeeps DEF SbxRecord, StageInv
<1> QED BY <1>3, <1>4, <1>5

LEMMA SbCtorKeeps == SbIInv /\ SbCtor => SbIInv'
<1> SUFFICES ASSUME SbIInv, SbCtor PROVE SbIInv'
  OBVIOUS
<1>1. sbx \in SbxRecord /\ StageInv /\ sbx.ctor = "none"
  BY SbFacts DEF SbCtor
<1>2. ~sbx.args /\ ~sbx.port /\ ~sbx.handler /\ sbx.obj = "none"
  BY <1>1 DEF StageInv
<1>3. ASSUME NEW t \in BOOLEAN,
             sbx' = [sbx EXCEPT !.ctor = "running", !.args = TRUE, !.thread = "start", !.timeout = t],
             mpipe' = [p \in Pipes |-> DupPipe(NewPipe)]
      PROVE  SbIInv'
  <2>1. sbx' \in SbxRecord /\ StageInv'
    BY <1>1, <1>2, <1>3 DEF SbxRecord, StageInv, Threads
  <2>2. \A p \in Pipes : HolderCount(p)' = 2
    BY <1>1, <1>2, <1>3 DEF HolderCount, One, SbxRecord
  <2>3. PipeOK(NewPipe, 1)
    <3>1. <<>> \in Seq(Nat)
      OBVIOUS
    <3>2. NoPipe \in PipeRecord /\ NoPipe.msg_queue = <<>> /\ NoPipe.waker = 0
      BY <3>1 DEF NoPipe, PipeRecord
    <3>3. NewPipe = [NoPipe EXCEPT !.live = TRUE, !.ref_count = 1]
      BY DEF NewPipe
    <3> HIDE DEF NoPipe, NewPipe
    <3>4. /\ NewPipe \in PipeRecord /\ NewPipe.live = TRUE /\ NewPipe.ref_count = 1
          /\ NewPipe.msg_queue = <<>> /\ NewPipe.waker = 0
      BY <3>2, <3>3 DEF PipeRecord
    <3> QED BY <3>4 DEF PipeOK
  <2>4. PipeOK(DupPipe(NewPipe), 2)
    BY <2>3, PipeOperations
  <2> QED BY <1>3, <2>1, <2>2, <2>4, PipeByPipe, SbFacts
<1>4. ASSUME sbx' = [sbx EXCEPT !.ctor = "returned"], UNCHANGED mpipe
      PROVE  SbIInv'
  BY <1>1, <1>2, <1>4, SbQuietKeeps DEF SbxRecord, StageInv
<1> QED BY <1>3, <1>4 DEF SbCtor

LEMMA SbCtorInternalKeeps == SbIInv /\ SbCtorInternal => SbIInv'
<1> SUFFICES ASSUME SbIInv, SbCtorInternal PROVE SbIInv'
  OBVIOUS
<1>1. sbx \in SbxRecord /\ StageInv /\ sbx.ctor = "running" /\ sbx.obj = "none" /\ ~sbx.handler
  BY SbFacts DEF SbCtorInternal, StageInv
<1>2. ASSUME sbx' = [sbx EXCEPT !.ctor = "object", !.obj = "alive"], mpipe' = Both(DupPipe)
      PROVE  SbIInv'
  <2>1. sbx' \in SbxRecord /\ StageInv'
    BY <1>1, <1>2 DEF SbxRecord, StageInv
  <2>2. \A p \in Pipes : HolderCount(p)' = HolderCount(p) + 1 /\ HolderCount(p) # 0
    BY <1>1, <1>2 DEF HolderCount, One, SbxRecord
  <2>3. mpipe' = [p \in Pipes |-> DupPipe(mpipe[p])]
    BY <1>2 DEF Both
  <2>4. \A p \in Pipes : mpipe'[p] = DupPipe(mpipe[p])
    BY <2>3
  <2>5. mpipe' = [p \in Pipes |-> mpipe'[p]]
    BY <2>3
  <2> QED BY <2>1, <2>2, <2>4, <2>5, PipeByPipe, PipeOperations, SbFacts
<1>3. ASSUME sbx' = [sbx EXCEPT !.ctor = "object", !.obj = "failed"], UNCHANGED mpipe
      PROVE  SbIInv'
  BY <1>1, <1>3, SbQuietKeeps DEF SbxRecord, StageInv
<1> QED BY <1>2, <1>3 DEF SbCtorInternal

LEMMA SbCtorReturnKeeps == SbIInv /\ SbCtorReturn => SbIInv'
<1> SUFFICES ASSUME SbIInv, SbCtorReturn PROVE SbIInv'
  OBVIOUS
<1>1. sbx \in SbxRecord /\ StageInv /\ sbx.ctor = "object" /\ ~sbx.handler
  BY SbFacts DEF SbCtorReturn, StageInv
<1>2. sbx' = [sbx EXCEPT !.ctor = "returned"] /\ mpipe' = [p \in Pipes |-> FreePipe(mpipe[p])]
  BY DEF SbCtorReturn, Both
<1>3. sbx' \in SbxRecord /\ StageInv'
  BY <1>1, <1>2 DEF SbxRecord, StageInv
<1>4. \A p \in Pipes : HolderCount(p)' = HolderCount(p) - 1 /\ HolderCount(p) # 0
  BY <1>1, <1>2 DEF HolderCount, One, SbxRecord
<1>5. mpipe' = [p \in Pipes |-> mpipe'[p]] /\ \A p \in Pipes : mpipe'[p] = FreePipe(mpipe[p])
  BY <1>2
<1> QED BY <1>3, <1>4, <1>5, PipeByPipe, PipeOperations, SbFacts

(* Steps that change one pipe: a message is posted or taken, a port comes or  *)
(* goes.                                                                     *)
LEMMA OnePipe ==
  ASSUME SbIInv, NEW p \in Pipes, NEW q, mpipe' = [mpipe EXCEPT ![p] = q],
         sbx' \in SbxRecord, StageInv',
         PipeOK(q, HolderCount(p)'),
         \A r \in Pipes : r # p => HolderCount(r)' = HolderCount(r)
  PROVE  SbIInv'
<1>1. mpipe \in [Pipes -> PipeRecord] /\ \A r \in Pipes : PipeOK(mpipe[r], HolderCount(r))
  BY DEF SbIInv, PipesInv
<1>2. \A r \in Pipes : PipeOK(mpipe'[r], HolderCount(r)')
  BY <1>1
<1>3. mpipe' \in [Pipes -> PipeRecord]
  BY <1>1 DEF PipeOK
<1> QED BY <1>2, <1>3 DEF SbIInv, PipesInv

LEMMA SbPostKeeps == SbIInv /\ (SbPost \/ SbChildPost) => SbIInv'
<1> SUFFICES ASSUME SbIInv, SbPost \/ SbChildPost PROVE SbIInv'
  OBVIOUS
<1>1. sbx \in SbxRecord /\ StageInv /\ "send" \in Pipes /\ "recv" \in Pipes
      /\ sbx.posted \in [Pipes -> Nat]
  BY SbFacts DEF SbxRecord
<1>2. PICK p \in Pipes : /\ sbx' = [sbx EXCEPT !.posted[p] = @ + 1]
                         /\ mpipe' = [mpipe EXCEPT ![p] = Posted(@, sbx.posted[p] + 1)]
                         /\ sbx.obj = "alive" \/ sbx.thread \in {"script", "handler"}
  <2>1. CASE SbPost
    BY <1>1, <2>1 DEF SbPost
  <2>2. CASE SbChildPost
    BY <1>1, <2>2 DEF SbChildPost, InJs
  <2> QED BY <2>1, <2>2
<1>3. sbx' \in SbxRecord
  BY <1>1, <1>2 DEF SbxRecord
<1>4. /\ StageInv'
      /\ \A r \in Pipes : HolderCount(r)' = HolderCount(r)
  BY <1>1, <1>2 DEF SbxRecord, StageInv, HolderCount
<1>5. HolderCount(p) # 0 /\ HolderCount(p) \in Nat
  BY <1>1, <1>2 DEF StageInv, HolderCount, One, SbxRecord
<1>6. PipeOK(mpipe[p], HolderCount(p)) /\ mpipe \in [Pipes -> PipeRecord]
  BY DEF SbIInv, PipesInv
<1>7. sbx.posted[p] + 1 \in Nat
  BY <1>1
<1>8. mpipe' = [mpipe EXCEPT ![p] = Posted(mpipe[p], sbx.posted[p] + 1)]
  BY <1>2, <1>6
<1> QED BY <1>3, <1>4, <1>5, <1>6, <1>7, <1>8, PipeOperations, OnePipe

LEMMA SbPollKeeps == SbIInv /\ (SbParentPoll \/ SbPoll) => SbIInv'
<1> SUFFICES ASSUME SbIInv, SbParentPoll \/ SbPoll PROVE SbIInv'
  OBVIOUS
<1>1. sbx \in SbxRecord /\ StageInv /\ "send" \in Pipes /\ "recv" \in Pipes
      /\ mpipe \in [Pipes -> PipeRecord]
  BY SbFacts
<1>2. PICK p \in Pipes : /\ mpipe' = [mpipe EXCEPT ![p] = Taken(mpipe[p])]
                         /\ mpipe[p].msg_queue # <<>>
                         /\ \/ sbx' = sbx
                            \/ sbx.thread = "loop" /\ sbx' = [sbx EXCEPT !.thread = "handler"]
  <2>1. CASE SbParentPoll
    BY <1>1, <2>1 DEF SbParentPoll
  <2>2. CASE SbPoll
    BY <1>1, <2>2 DEF SbPoll
  <2> QED BY <2>1, <2>2
<1>3. /\ sbx' \in SbxRecord /\ StageInv'
      /\ \A r \in Pipes : HolderCount(r)' = HolderCount(r)
  BY <1>1, <1>2 DEF SbxRecord, StageInv, HolderCount, Threads
<1>4. PipeOK(mpipe[p], HolderCount(p)) /\ HolderCount(p) \in Nat
  BY <1>1, HolderCountType DEF SbIInv, PipesInv
<1> QED BY <1>2, <1>3, <1>4, PipeOperations, OnePipe

LEMMA SbOnMessageKeeps == SbIInv /\ (SbSetOnMessage \/ SbClearOnMessage) => SbIInv'
<1> SUFFICES ASSUME SbIInv, SbSetOnMessage \/ SbClearOnMessage PROVE SbIInv'
  OBVIOUS
<1>1. sbx \in SbxRecord /\ StageInv /\ "recv" \in Pipes /\ mpipe \in [Pipes -> PipeRecord]
      /\ PipeOK(mpipe["recv"], HolderCount("recv")) /\ HolderCount("recv") \in Nat
  BY SbFacts
<1>2. CASE SbSetOnMessage
  <2>1. /\ sbx' = [sbx EXCEPT !.handler = TRUE] /\ ~sbx.handler
        /\ sbx.obj = "alive" /\ sbx.ctor = "returned"
        /\ mpipe' = [mpipe EXCEPT !["recv"] = DupPipe(mpipe["recv"])]
    BY <1>1, <1>2 DEF SbSetOnMessage
  <2>2. sbx' \in SbxRecord /\ StageInv'
    BY <1>1, <2>1 DEF SbxRecord, StageInv
  <2>3. \A r \in Pipes : r # "recv" => HolderCount(r)' = HolderCount(r)
    BY <1>1, <2>1 DEF SbxRecord, HolderCount
  <2>4. HolderCount("recv")' = HolderCount("recv") + 1 /\ HolderCount("recv") # 0
    BY <1>1, <2>1 DEF SbxRecord, HolderCount, One
  <2>5. PipeOK(DupPipe(mpipe["recv"]), HolderCount("recv")')
    BY <1>1, <2>4, PipeOperations
  <2> QED BY <1>1, <2>1, <2>2, <2>3, <2>5, OnePipe
<1>3. CASE SbClearOnMessage
  <2>1. /\ sbx' = [sbx EXCEPT !.handler = FALSE] /\ sbx.handler /\ sbx.obj = "alive"
        /\ mpipe' = [mpipe EXCEPT !["recv"] = FreePipe(mpipe["recv"])]
    BY <1>1, <1>3 DEF SbClearOnMessage
  <2>2. sbx' \in SbxRecord /\ StageInv'
    BY <1>1, <2>1 DEF SbxRecord, StageInv
  <2>3. \A r \in Pipes : r # "recv" => HolderCount(r)' = HolderCount(r)
    BY <1>1, <2>1 DEF SbxRecord, HolderCount
  <2>4. HolderCount("recv")' = HolderCount("recv") - 1 /\ HolderCount("recv") # 0
    BY <1>1, <2>1 DEF SbxRecord, HolderCount, One
  <2>5. PipeOK(FreePipe(mpipe["recv"]), HolderCount("recv")')
    BY <1>1, <2>4, PipeOperations
  <2> QED BY <1>1, <2>1, <2>2, <2>3, <2>5, OnePipe
<1> QED BY <1>2, <1>3

LEMMA SbFinalizerKeeps == SbIInv /\ SbFinalizer => SbIInv'
<1> SUFFICES ASSUME SbIInv, SbFinalizer PROVE SbIInv'
  OBVIOUS
<1>1. sbx \in SbxRecord /\ StageInv /\ mpipe \in [Pipes -> PipeRecord] /\ Pipes = {"send", "recv"}
      /\ PipeOK(mpipe["recv"], HolderCount("recv")) /\ HolderCount("recv") \in Nat
      /\ PipeOK(mpipe["send"], HolderCount("send")) /\ HolderCount("send") \in Nat
  BY SbFacts DEF Pipes
<1>2. /\ sbx' = [sbx EXCEPT !.obj = "dead", !.handler = FALSE]
      /\ sbx.obj = "alive" /\ sbx.ctor = "returned"
      /\ mpipe'["send"] = FreePipe(mpipe["send"])
      /\ mpipe'["recv"] = IF sbx.handler THEN FreePipe(FreePipe(mpipe["recv"]))
                                         ELSE FreePipe(mpipe["recv"])
      /\ mpipe' = [p \in Pipes |-> mpipe'[p]]
  BY <1>1 DEF SbFinalizer
<1>3. sbx' \in SbxRecord /\ StageInv'
  BY <1>1, <1>2 DEF SbxRecord, StageInv
<1>4. /\ HolderCount("send") # 0 /\ HolderCount("send")' = HolderCount("send") - 1
      /\ HolderCount("recv") # 0
      /\ ~sbx.handler => HolderCount("recv")' = HolderCount("recv") - 1
      /\ sbx.handler => /\ HolderCount("recv") - 1 # 0
                       /\ HolderCount("recv")' = (HolderCount("recv") - 1) - 1
  BY <1>1, <1>2 DEF SbxRecord, HolderCount, One
<1>5. PipeOK(mpipe'["send"], HolderCount("send")')
  BY <1>1, <1>2, <1>4, PipeOperations
<1>6. PipeOK(mpipe'["recv"], HolderCount("recv")')
  <2>1. PipeOK(FreePipe(mpipe["recv"]), HolderCount("recv") - 1) /\ HolderCount("recv") - 1 \in Nat
    <3>1. HolderCount("recv") - 1 \in Nat
      BY <1>1, <1>4
    <3> QED BY <3>1, <1>1, <1>4, PipeOperations
  <2>2. sbx.handler => PipeOK(FreePipe(FreePipe(mpipe["recv"])), (HolderCount("recv") - 1) - 1)
    BY <2>1, <1>4, PipeOperations
  <2> QED BY <1>2, <1>4, <2>1, <2>2
<1> QED BY <1>2, <1>3, <1>5, <1>6, PipeByPipe

LEMMA SbThreadSetupKeeps == SbIInv /\ SbThreadSetup => SbIInv'
<1> SUFFICES ASSUME SbIInv, SbThreadSetup PROVE SbIInv'
  OBVIOUS
<1>1. sbx \in SbxRecord /\ StageInv /\ mpipe \in [Pipes -> PipeRecord] /\ Pipes = {"send", "recv"}
      /\ PipeOK(mpipe["recv"], HolderCount("recv")) /\ HolderCount("recv") \in Nat
      /\ PipeOK(mpipe["send"], HolderCount("send")) /\ HolderCount("send") \in Nat
  BY SbFacts DEF Pipes
<1>2. sbx.thread = "start" /\ sbx.args /\ ~sbx.port
  BY <1>1 DEF SbThreadSetup, StageInv
<1>3. CASE SbThreadExits
  <2>1. /\ sbx' = [sbx EXCEPT !.thread = "exited", !.port = FALSE, !.args = FALSE]
        /\ mpipe'["send"] = FreePipe(mpipe["send"]) /\ mpipe'["recv"] = FreePipe(mpipe["recv"])
        /\ mpipe' = [p \in Pipes |-> mpipe'[p]]
    BY <1>1, <1>2, <1>3 DEF SbThreadExits
  <2>2. sbx' \in SbxRecord /\ StageInv'
    BY <1>1, <1>2, <2>1 DEF SbxRecord, StageInv, Threads
  <2>3. /\ HolderCount("send") # 0 /\ HolderCount("send")' = HolderCount("send") - 1
        /\ HolderCount("recv") # 0 /\ HolderCount("recv")' = HolderCount("recv") - 1
    BY <1>1, <1>2, <2>1 DEF SbxRecord, HolderCount, One
  <2> QED BY <1>1, <2>1, <2>2, <2>3, PipeOperations, PipeByPipe
<1>4. ASSUME sbx' = [sbx EXCEPT !.thread = "script", !.port = TRUE],
             mpipe' = [mpipe EXCEPT !["send"] = DupPipe(@)]
      PROVE  SbIInv'
  <2>1. "send" \in Pipes /\ mpipe' = [mpipe EXCEPT !["send"] = DupPipe(mpipe["send"])]
    BY <1>1, <1>4
  <2>2. sbx' \in SbxRecord /\ StageInv'
    BY <1>1, <1>2, <1>4 DEF SbxRecord, StageInv, Threads
  <2>3. HolderCount("send") # 0 /\ HolderCount("send")' = HolderCount("send") + 1
    BY <1>1, <1>2, <1>4 DEF SbxRecord, HolderCount, One
  <2>4. \A r \in Pipes : r # "send" => HolderCount(r)' = HolderCount(r)
    BY <1>1, <1>4 DEF SbxRecord, HolderCount
  <2>5. PipeOK(DupPipe(mpipe["send"]), HolderCount("send")')
    BY <1>1, <2>3, PipeOperations
  <2> QED BY <1>1, <2>1, <2>2, <2>4, <2>5, OnePipe
<1> QED BY <1>3, <1>4 DEF SbThreadSetup

LEMMA SbNextKeeps == SbIInv /\ [SbNext]_sbVars => SbIInv'
<1> SUFFICES ASSUME SbIInv, [SbNext]_sbVars PROVE SbIInv'
  OBVIOUS
<1>1. CASE UNCHANGED sbVars
  BY <1>1 DEF sbVars, SbIInv, StageInv, PipesInv, HolderCount
<1>2. CASE SbNext
  BY <1>2, SbCtorKeeps, SbCtorInternalKeeps, SbCtorReturnKeeps, SbPostKeeps, SbOnMessageKeeps,
     SbPollKeeps, SbFinalizerKeeps, SbThreadSetupKeeps, SbThreadKeeps
  DEF SbNext
<1> QED BY <1>1, <1>2

(* One more holder or none.  *)
LEMMA AddIf ==
  ASSUME NEW S, IsFiniteSet(S), NEW h, h \notin S, NEW b \in BOOLEAN,
         NEW T, T = S \union (IF b THEN {h} ELSE {})
  PROVE  IsFiniteSet(T) /\ Cardinality(T) = Cardinality(S) + One(b)
<1>1. Cardinality(S) \in Nat
  BY FS_CardinalityType
<1>2. CASE b
  BY <1>2, FS_AddElement DEF One
<1>3. CASE ~b
  BY <1>1, <1>3 DEF One
<1> QED BY <1>2, <1>3

LEMMA HoldersCounted ==
  ASSUME sbx \in SbxRecord, NEW p \in Pipes
  PROVE  Cardinality(Holders(p)) = HolderCount(p) /\ (Holders(p) = {} <=> HolderCount(p) = 0)
<1> DEFINE b1 == sbx.ctor \in {"running", "object"}
           b2 == sbx.args
           b3 == sbx.obj = "alive"
           b4 == sbx.handler /\ p = "recv"
           b5 == sbx.port /\ p = "send"
           S1 == {} \union (IF b1 THEN {"ctor"} ELSE {})
           S2 == S1 \union (IF b2 THEN {"args"} ELSE {})
           S3 == S2 \union (IF b3 THEN {"object"} ELSE {})
           S4 == S3 \union (IF b4 THEN {"handler"} ELSE {})
           S5 == S4 \union (IF b5 THEN {"port"} ELSE {})
<1>0. b1 \in BOOLEAN /\ b2 \in BOOLEAN /\ b3 \in BOOLEAN /\ b4 \in BOOLEAN /\ b5 \in BOOLEAN
  BY DEF SbxRecord
<1>1. IsFiniteSet({}) /\ Cardinality({}) = 0
  BY FS_EmptySet
<1>2. IsFiniteSet(S1) /\ Cardinality(S1) = 0 + One(b1)
  <2>1. "ctor" \notin {}
    OBVIOUS
  <2> HIDE DEF b1
  <2> QED BY <1>0, <1>1, <2>1, AddIf
<1>3. IsFiniteSet(S2) /\ Cardinality(S2) = 0 + One(b1) + One(b2)
  <2>1. "args" \notin S1
    OBVIOUS
  <2> HIDE DEF b2, S1
  <2> QED BY <1>0, <1>2, <2>1, AddIf
<1>4. IsFiniteSet(S3) /\ Cardinality(S3) = 0 + One(b1) + One(b2) + One(b3)
  <2>1. "object" \notin S2
    OBVIOUS
  <2> HIDE DEF b3, S2
  <2> QED BY <1>0, <1>3, <2>1, AddIf
<1>5. IsFiniteSet(S4) /\ Cardinality(S4) = 0 + One(b1) + One(b2) + One(b3) + One(b4)
  <2>1. "handler" \notin S3
    OBVIOUS
  <2> HIDE DEF b4, S3
  <2> QED BY <1>0, <1>4, <2>1, AddIf
<1>6. IsFiniteSet(S5) /\ Cardinality(S5) = 0 + One(b1) + One(b2) + One(b3) + One(b4) + One(b5)
  <2>1. "port" \notin S4
    OBVIOUS
  <2> HIDE DEF b5, S4
  <2> QED BY <1>0, <1>5, <2>1, AddIf
<1>7. Holders(p) = S5
  BY DEF Holders
<1>8. 0 + One(b1) + One(b2) + One(b3) + One(b4) + One(b5) = HolderCount(p)
  BY DEF One, HolderCount
<1>9. Holders(p) = {} <=> HolderCount(p) = 0
  <2>1. HolderCount(p) = 0 <=> ~b1 /\ ~b2 /\ ~b3 /\ ~b4 /\ ~b5
    BY <1>0 DEF HolderCount, One
  <2>2. Holders(p) = {} <=> ~b1 /\ ~b2 /\ ~b3 /\ ~b4 /\ ~b5
    BY <1>7
  <2> QED BY <2>1, <2>2
<1> QED BY <1>6, <1>7, <1>8, <1>9

LEMMA SbIInvImplies == SbIInv => SandboxInv
<1> SUFFICES ASSUME SbIInv PROVE SandboxInv
  OBVIOUS
<1>1. sbx \in SbxRecord /\ \A p \in Pipes : PipeOK(mpipe[p], HolderCount(p))
  BY DEF SbIInv, PipesInv
<1>2. \A p \in Pipes : HolderCount(p) \in 0..5
  BY <1>1, HolderCountType
<1>3. SbTypeOK
  BY <1>1, <1>2 DEF SbTypeOK, PipeOK, PipeRecord, SbxRecord, Threads
<1>4. PipeLivesForItsHolders
  BY <1>1, HoldersCounted DEF PipeLivesForItsHolders, PipeOK
<1>5. WakerTellsQueue
  BY <1>1 DEF WakerTellsQueue, PipeOK
<1> QED BY <1>3, <1>4, <1>5 DEF SandboxInv

-----------------------------------------------------------------------------
(* ReadStream.                                                               *)

RsRecord ==
  [fd : BOOLEAN, pos : Nat, last : Nat, ended : BOOLEAN, destroyed : BOOLEAN,
   paused : BOOLEAN, started : Nat, emitting : Runs \union {Idle}, opened : Nat,
   closed : Nat, data : Seq(Nat), ends : Nat, closes : Nat]

LoopRecord == [pc : {"idle", "opening", "opened", "reading", "emitted"}, at : Nat]

(* #ended and #destroyed remember the events, however many loops there are.  *)
OnceOK(s) ==
  /\ s \in RsRecord
  /\ s.ends = One(s.ended)
  /\ s.closes = One(s.destroyed)

(* What a loop may leave alone.  *)
SameProgress(s, t) ==
  t.pos = s.pos /\ t.data = s.data /\ t.started = s.started /\ t.emitting = s.emitting

(* With one call of #run: the position counts what was emitted, and the read *)
(* in flight is for the position.                                            *)
OneRunInv ==
  rs.started =< 1 =>
    /\ rs.pos = Len(rs.data)
    /\ Consecutive(rs.data)
    /\ \A l \in Runs : l # rs.started => loops[l].pc = "idle"
    /\ \A l \in Runs : loops[l].pc = "reading" => loops[l].at = rs.pos

RsIInv == OnceOK(rs) /\ loops \in [Runs -> LoopRecord] /\ OneRunInv

LEMMA RsInitIInv == RsInit => RsIInv
<1> SUFFICES ASSUME RsInit PROVE RsIInv
  OBVIOUS
<1>1. <<>> \in Seq(Nat) /\ Len(<<>>) = 0
  OBVIOUS
<1>2. /\ rs \in RsRecord /\ rs.ends = 0 /\ ~rs.ended /\ rs.closes = 0 /\ ~rs.destroyed
      /\ rs.pos = 0 /\ rs.data = <<>> /\ rs.started = 0
  BY <1>1 DEF RsInit, RsRecord
<1>3. loops \in [Runs -> LoopRecord] /\ \A l \in Runs : loops[l].pc = "idle"
  BY DEF RsInit, NoLoop, LoopRecord
<1> QED BY <1>1, <1>2, <1>3 DEF RsIInv, OnceOK, One, OneRunInv, Consecutive

(* destroy() and #finish(), from any of the loops.  *)
LEMMA DestroyedOnce ==
  ASSUME NEW s, OnceOK(s)
  PROVE  OnceOK(Destroyed(s)) /\ SameProgress(s, Destroyed(s))
<1>1. CASE s.destroyed
  BY <1>1 DEF Destroyed, SameProgress
<1>2. CASE ~s.destroyed
  <2> DEFINE c == IF s.fd THEN s.closed + 1 ELSE s.closed
             t == Destroyed(s)
  <2>1. s \in RsRecord /\ s.closes = 0 /\ s.ends = One(s.ended) /\ c \in Nat
    BY <1>2 DEF OnceOK, One, RsRecord
  <2>5. s.closes + 1 = 1
    BY <2>1
  <2>2. t = [s EXCEPT !.destroyed = TRUE, !.fd = FALSE, !.closed = c, !.closes = 1]
    BY <1>2, <2>5 DEF Destroyed
  <2> HIDE DEF c, t
  <2>3. /\ t \in RsRecord /\ t.closes = 1 /\ t.destroyed = TRUE
        /\ t.ended = s.ended /\ t.ends = s.ends /\ SameProgress(s, t)
    BY <2>1, <2>2 DEF RsRecord, SameProgress
  <2>4. OnceOK(t) /\ SameProgress(s, t)
    BY <2>1, <2>3 DEF OnceOK, One
  <2> QED BY <2>4 DEF t
<1>3. s.destroyed \in BOOLEAN
  BY DEF OnceOK, RsRecord
<1> QED BY <1>1, <1>2, <1>3

LEMMA FinishedOnce ==
  ASSUME NEW s, OnceOK(s)
  PROVE  OnceOK(RsFinished(s)) /\ SameProgress(s, RsFinished(s))
<1>1. CASE s.ended
  BY <1>1 DEF RsFinished, SameProgress
<1>2. CASE ~s.ended
  <2> DEFINE t == [s EXCEPT !.ended = TRUE, !.ends = s.ends + 1]
  <2>1. s \in RsRecord /\ s.ends = 0 /\ s.closes = One(s.destroyed)
    BY <1>2 DEF OnceOK, One
  <2>3. RsFinished(s) = Destroyed(t)
    BY <1>2 DEF RsFinished
  <2>5. t = [s EXCEPT !.ended = TRUE, !.ends = 1]
    BY <2>1
  <2> HIDE DEF t
  <2>2. /\ t \in RsRecord /\ t.ends = 1 /\ t.ended = TRUE
        /\ t.destroyed = s.destroyed /\ t.closes = s.closes /\ SameProgress(s, t)
    BY <2>1, <2>5 DEF RsRecord, SameProgress
  <2>4. OnceOK(t)
    BY <2>1, <2>2 DEF OnceOK, One
  <2> QED BY <2>2, <2>3, <2>4, DestroyedOnce DEF SameProgress
<1> QED BY <1>1, <1>2

LEMMA LoopFieldsOnce ==
  ASSUME NEW s, OnceOK(s)
  PROVE  OnceOK(LoopFields(s)) /\ SameProgress(s, LoopFields(s))
BY FinishedOnce DEF LoopFields, SameProgress

(* Where a loop goes at its condition.  *)
LEMMA LoopOnFacts ==
  ASSUME NEW s, OnceOK(s), NEW l \in Runs, NEW ls \in [Runs -> LoopRecord]
  PROVE  /\ LoopOn(s, l, ls) \in [Runs -> LoopRecord]
         /\ \A k \in Runs : k # l => LoopOn(s, l, ls)[k] = ls[k]
         /\ LoopOn(s, l, ls)[l].pc = "reading" => LoopOn(s, l, ls)[l].at = s.pos
<1>1. NoLoop \in LoopRecord /\ NoLoop.pc = "idle"
  BY DEF NoLoop, LoopRecord
<1>2. s.pos \in Nat
  BY DEF OnceOK, RsRecord
<1>3. [pc |-> "reading", at |-> s.pos] \in LoopRecord
  BY <1>2 DEF LoopRecord
<1>4. CASE Looping(s) /\ s.pos < s.last
  <2>1. LoopOn(s, l, ls) = [ls EXCEPT ![l] = [pc |-> "reading", at |-> s.pos]]
    BY <1>4 DEF LoopOn
  <2> QED BY <1>3, <2>1
<1>5. CASE ~(Looping(s) /\ s.pos < s.last)
  <2>1. LoopOn(s, l, ls) = [ls EXCEPT ![l] = NoLoop]
    BY <1>5 DEF LoopOn
  <2> QED BY <1>1, <2>1
<1> QED BY <1>4, <1>5

(* A step after which loop l is elsewhere and the stream has made no progress. *)
LEMMA RsQuietKeeps ==
  ASSUME RsIInv, NEW l \in Runs, OnceOK(rs'),
         rs'.pos = rs.pos, rs'.data = rs.data, rs'.started = rs.started,
         loops' \in [Runs -> LoopRecord],
         \A k \in Runs : k # l => loops'[k] = loops[k],
         loops[l].pc = "idle" => loops'[l].pc = "idle",
         loops'[l].pc = "reading" => loops'[l].at = rs.pos \/ loops'[l] = loops[l]
  PROVE  RsIInv'
BY DEF RsIInv, OneRunInv

LEMMA RsFacts ==
  ASSUME RsIInv
  PROVE  OnceOK(rs) /\ rs \in RsRecord /\ loops \in [Runs -> LoopRecord]
BY DEF RsIInv, OnceOK

LEMMA OpenDoneKeeps ==
  ASSUME RsIInv, NEW l \in Runs, OpenDone(l)
  PROVE  RsIInv'
<1>1. rs \in RsRecord /\ loops \in [Runs -> LoopRecord] /\ loops[l].pc = "opening"
  BY RsFacts DEF OpenDone
<1>2. ASSUME rs' = [rs EXCEPT !.fd = TRUE, !.opened = rs.opened + 1, !.emitting = l],
             loops' = [loops EXCEPT ![l].pc = "opened"]
      PROVE  RsIInv'
  <2> DEFINE o == rs.opened + 1
  <2>4. o \in Nat /\ l \in Runs \union {Idle}
    BY <1>1 DEF RsRecord
  <2>5. rs' = [rs EXCEPT !.fd = TRUE, !.opened = o, !.emitting = l]
    BY <1>2
  <2> HIDE DEF o
  <2>1. /\ rs' \in RsRecord /\ rs'.pos = rs.pos /\ rs'.data = rs.data /\ rs'.started = rs.started
        /\ rs'.ended = rs.ended /\ rs'.ends = rs.ends /\ rs'.closes = rs.closes
        /\ rs'.destroyed = rs.destroyed
    BY <1>1, <2>4, <2>5 DEF RsRecord
  <2>2. OnceOK(rs')
    BY <2>1, RsFacts DEF OnceOK
  <2>3. loops' \in [Runs -> LoopRecord] /\ loops'[l].pc = "opened"
        /\ \A k \in Runs : k # l => loops'[k] = loops[k]
    BY <1>1, <1>2 DEF LoopRecord
  <2> QED BY <1>1, <2>1, <2>2, <2>3, RsQuietKeeps
<1>3. ASSUME UNCHANGED rs, loops' = [loops EXCEPT ![l] = NoLoop]
      PROVE  RsIInv'
  <2>1. loops' \in [Runs -> LoopRecord] /\ loops'[l].pc = "idle"
        /\ \A k \in Runs : k # l => loops'[k] = loops[k]
    BY <1>1, <1>3 DEF LoopRecord, NoLoop
  <2> QED BY <1>1, <1>3, <2>1, RsQuietKeeps, RsFacts
<1> QED BY <1>2, <1>3 DEF OpenDone

(* The listeners of 'open' or of 'data' have returned, and the loop goes on   *)
(* with the fields as they left them.                                        *)
LEMMA GoesOnKeeps ==
  ASSUME RsIInv, NEW l \in Runs, NEW s, s \in RsRecord, loops[l].pc # "idle",
         s.pos = rs.pos, s.data = rs.data, s.started = rs.started,
         s.ended = rs.ended, s.ends = rs.ends, s.closes = rs.closes, s.destroyed = rs.destroyed,
         rs' = LoopFields(s), loops' = LoopOn(s, l, loops)
  PROVE  RsIInv'
<1>1. OnceOK(s)
  BY RsFacts DEF OnceOK
<1>2. OnceOK(rs') /\ rs'.pos = rs.pos /\ rs'.data = rs.data /\ rs'.started = rs.started
  BY <1>1, LoopFieldsOnce DEF SameProgress
<1> QED BY <1>1, <1>2, LoopOnFacts, RsQuietKeeps, RsFacts

LEMMA EmitReturnsKeeps ==
  ASSUME RsIInv, NEW l \in Runs, Opened(l) \/ DataEmitted(l)
  PROVE  RsIInv'
<1>1. rs \in RsRecord
  BY RsFacts
<1>2. CASE Opened(l)
  <2> DEFINE s == [rs EXCEPT !.emitting = Idle,
                             !.paused = IF rs.destroyed THEN rs.paused ELSE FALSE]
  <2>1. loops[l].pc # "idle" /\ rs' = LoopFields(s) /\ loops' = LoopOn(s, l, loops)
    BY <1>2 DEF Opened
  <2>2. /\ s \in RsRecord /\ s.pos = rs.pos /\ s.data = rs.data /\ s.started = rs.started
        /\ s.ended = rs.ended /\ s.ends = rs.ends /\ s.closes = rs.closes
        /\ s.destroyed = rs.destroyed
    BY <1>1 DEF RsRecord
  <2> HIDE DEF s
  <2> QED BY <2>1, <2>2, GoesOnKeeps
<1>3. CASE DataEmitted(l)
  <2> DEFINE s == [rs EXCEPT !.emitting = Idle]
  <2>1. loops[l].pc # "idle" /\ rs' = LoopFields(s) /\ loops' = LoopOn(s, l, loops)
    BY <1>3 DEF DataEmitted
  <2>2. /\ s \in RsRecord /\ s.pos = rs.pos /\ s.data = rs.data /\ s.started = rs.started
        /\ s.ended = rs.ended /\ s.ends = rs.ends /\ s.closes = rs.closes
        /\ s.destroyed = rs.destroyed
    BY <1>1 DEF RsRecord
  <2> HIDE DEF s
  <2> QED BY <2>1, <2>2, GoesOnKeeps
<1> QED BY <1>2, <1>3

LEMMA ReadDoneKeeps ==
  ASSUME RsIInv, NEW l \in Runs, ReadDone(l)
  PROVE  RsIInv'
<1>1. rs \in RsRecord /\ OnceOK(rs) /\ loops \in [Runs -> LoopRecord] /\ loops[l].pc = "reading"
  BY RsFacts DEF ReadDone
<1>2. ASSUME rs' = [rs EXCEPT !.pos = rs.pos + 1, !.data = Append(rs.data, loops[l].at),
                              !.emitting = l],
             loops' = [loops EXCEPT ![l].pc = "emitted"]
      PROVE  RsIInv'
  <2> DEFINE d == Append(rs.data, loops[l].at)
  <2>1. rs.data \in Seq(Nat) /\ rs.pos \in Nat /\ loops[l] \in LoopRecord /\ rs.started \in Nat
    BY <1>1 DEF RsRecord
  <2>2. loops[l].at \in Nat
    BY <2>1 DEF LoopRecord
  <2>3. /\ d \in Seq(Nat) /\ Len(d) = Len(rs.data) + 1 /\ Len(rs.data) \in Nat
        /\ d[Len(d)] = loops[l].at /\ \A i \in 1..Len(rs.data) : d[i] = rs.data[i]
    BY <2>1, <2>2
  <2> DEFINE n == rs.pos + 1
  <2>8. n \in Nat /\ l \in Runs \union {Idle}
    BY <2>1
  <2>9. rs' = [rs EXCEPT !.pos = n, !.data = d, !.emitting = l]
    BY <1>2
  <2> HIDE DEF d, n
  <2>4. /\ rs' \in RsRecord /\ rs'.pos = n /\ rs'.data = d /\ rs'.started = rs.started
        /\ rs'.ended = rs.ended /\ rs'.ends = rs.ends /\ rs'.closes = rs.closes
        /\ rs'.destroyed = rs.destroyed
    BY <1>1, <2>3, <2>8, <2>9 DEF RsRecord
  <2>5. OnceOK(rs')
    BY <1>1, <2>4 DEF OnceOK
  <2>6. loops' \in [Runs -> LoopRecord] /\ loops'[l].pc = "emitted"
        /\ \A k \in Runs : k # l => loops'[k] = loops[k]
    BY <1>1, <1>2 DEF LoopRecord
  <2>7. OneRunInv'
    <3> SUFFICES ASSUME rs.started =< 1
                 PROVE  /\ rs'.pos = Len(d) /\ Consecutive(d)
                        /\ \A k \in Runs : k # rs.started => loops'[k].pc = "idle"
                        /\ \A k \in Runs : loops'[k].pc # "reading"
      BY <2>4 DEF OneRunInv
    <3>1. /\ rs.pos = Len(rs.data) /\ Consecutive(rs.data) /\ l = rs.started
          /\ loops[l].at = rs.pos /\ \A k \in Runs : k # rs.started => loops[k].pc = "idle"
      BY <1>1 DEF RsIInv, OneRunInv
    <3>2. Consecutive(d)
      <4> SUFFICES ASSUME NEW i \in 1..Len(d) PROVE d[i] = i - 1
        BY DEF Consecutive
      <4>1. CASE i = Len(d)
        BY <2>3, <3>1, <4>1
      <4>2. CASE i # Len(d)
        <5>1. i \in 1..Len(rs.data)
          BY <2>3, <4>2
        <5> QED BY <2>3, <3>1, <5>1 DEF Consecutive
      <4> QED BY <4>1, <4>2
    <3>3. rs'.pos = Len(d)
      BY <2>3, <2>4, <3>1 DEF n
    <3> QED BY <2>6, <3>1, <3>2, <3>3
  <2> QED BY <2>5, <2>6, <2>7 DEF RsIInv
<1>3. ASSUME rs' \in {RsFinished(rs), Destroyed(rs)}, loops' = [loops EXCEPT ![l] = NoLoop]
      PROVE  RsIInv'
  <2>1. OnceOK(rs') /\ rs'.pos = rs.pos /\ rs'.data = rs.data /\ rs'.started = rs.started
    BY <1>1, <1>3, FinishedOnce, DestroyedOnce DEF SameProgress
  <2>2. loops' \in [Runs -> LoopRecord] /\ loops'[l].pc = "idle"
        /\ \A k \in Runs : k # l => loops'[k] = loops[k]
    BY <1>1, <1>3 DEF LoopRecord, NoLoop
  <2> QED BY <1>1, <2>1, <2>2, RsQuietKeeps
<1> QED BY <1>2, <1>3 DEF ReadDone

LEMMA RsNewKeeps == RsIInv /\ RsNew => RsIInv'
<1> SUFFICES ASSUME RsIInv, rs.started = 0, NEW last \in 0..(RsChunks + 1),
                    rs' = [rs EXCEPT !.last = last, !.started = 1],
                    loops' = [loops EXCEPT ![1].pc = "opening"]
             PROVE  RsIInv'
  BY DEF RsNew
<1>1. rs \in RsRecord /\ OnceOK(rs) /\ loops \in [Runs -> LoopRecord] /\ last \in Nat /\ 1 \in Runs
  BY RsFacts, RsAssumption DEF Runs
<1>2. /\ rs' \in RsRecord /\ rs'.pos = rs.pos /\ rs'.data = rs.data /\ rs'.started = 1
      /\ rs'.ended = rs.ended /\ rs'.ends = rs.ends /\ rs'.closes = rs.closes
      /\ rs'.destroyed = rs.destroyed
  BY <1>1 DEF RsRecord
<1>3. loops' \in [Runs -> LoopRecord] /\ loops'[1].pc = "opening"
      /\ \A k \in Runs : k # 1 => loops'[k] = loops[k]
  BY <1>1 DEF LoopRecord
<1>4. OnceOK(rs')
  BY <1>1, <1>2 DEF OnceOK
<1>5. \A k \in Runs : loops[k].pc = "idle"
  <2>1. 0 \notin Runs
    BY DEF Runs
  <2> QED BY <2>1 DEF RsIInv, OneRunInv
<1>6. OneRunInv'
  BY <1>2, <1>3, <1>5 DEF RsIInv, OneRunInv
<1> QED BY <1>3, <1>4, <1>6 DEF RsIInv

LEMMA ResumeKeeps == RsIInv /\ Resume => RsIInv'
<1> SUFFICES ASSUME RsIInv, Resume PROVE RsIInv'
  OBVIOUS
<1>1. /\ rs \in RsRecord /\ OnceOK(rs) /\ loops \in [Runs -> LoopRecord] /\ MaxRuns \in Nat
      /\ rs.started \in 1..(MaxRuns - 1) /\ 1 \in Runs
  BY RsFacts, RsAssumption DEF Runs, Resume
<1>2. CASE rs.ended \/ rs.destroyed
  <2>1. rs' = [rs EXCEPT !.paused = FALSE] /\ loops' = loops
    BY <1>2 DEF Resume
  <2>2. /\ rs' \in RsRecord /\ rs'.pos = rs.pos /\ rs'.data = rs.data /\ rs'.started = rs.started
        /\ rs'.ended = rs.ended /\ rs'.ends = rs.ends /\ rs'.closes = rs.closes
        /\ rs'.destroyed = rs.destroyed
    BY <1>1, <2>1 DEF RsRecord
  <2>3. OnceOK(rs')
    BY <1>1, <2>2 DEF OnceOK
  <2> QED BY <1>1, <2>1, <2>2, <2>3, RsQuietKeeps
<1>3. CASE ~(rs.ended \/ rs.destroyed)
  <2> DEFINE l == rs.started + 1
             s == [rs EXCEPT !.paused = FALSE, !.started = l]
  <2>1. /\ rs' = IF rs.fd THEN LoopFields(s) ELSE s
        /\ loops' = IF rs.fd THEN LoopOn(s, l, loops) ELSE [loops EXCEPT ![l].pc = "opening"]
    BY <1>3 DEF Resume
  <2>2. l \in Runs /\ l \in Nat /\ l > 1
    BY <1>1 DEF Runs
  <2>3. /\ s \in RsRecord /\ s.started = l /\ s.ended = rs.ended /\ s.ends = rs.ends
        /\ s.closes = rs.closes /\ s.destroyed = rs.destroyed
    BY <1>1, <2>2 DEF RsRecord
  <2> HIDE DEF s, l
  <2>4. OnceOK(s)
    BY <1>1, <2>3 DEF OnceOK
  <2>5. OnceOK(rs') /\ rs'.started = l
    BY <2>1, <2>3, <2>4, LoopFieldsOnce DEF SameProgress
  <2>6. loops' \in [Runs -> LoopRecord]
    <3>1. [loops EXCEPT ![l].pc = "opening"] \in [Runs -> LoopRecord]
      BY <1>1, <2>2 DEF LoopRecord
    <3> QED BY <3>1, <1>1, <2>1, <2>2, <2>4, LoopOnFacts
  <2>7. OneRunInv'
    BY <2>2, <2>5 DEF OneRunInv
  <2> QED BY <2>5, <2>6, <2>7 DEF RsIInv
<1> QED BY <1>2, <1>3

LEMMA PauseKeeps == RsIInv /\ (Pause \/ RsDestroy) => RsIInv'
<1> SUFFICES ASSUME RsIInv, Pause \/ RsDestroy PROVE RsIInv'
  OBVIOUS
<1>1. /\ rs \in RsRecord /\ OnceOK(rs) /\ loops \in [Runs -> LoopRecord]
      /\ 1 \in Runs /\ loops' = loops
  BY RsFacts, RsAssumption DEF Runs, Pause, RsDestroy
<1>2. CASE Pause
  <2>1. rs' = [rs EXCEPT !.paused = TRUE]
    BY <1>2 DEF Pause
  <2>2. /\ rs' \in RsRecord /\ rs'.pos = rs.pos /\ rs'.data = rs.data /\ rs'.started = rs.started
        /\ rs'.ended = rs.ended /\ rs'.ends = rs.ends /\ rs'.closes = rs.closes
        /\ rs'.destroyed = rs.destroyed
    BY <1>1, <2>1 DEF RsRecord
  <2>3. OnceOK(rs')
    BY <1>1, <2>2 DEF OnceOK
  <2> QED BY <1>1, <2>2, <2>3, RsQuietKeeps
<1>3. CASE RsDestroy
  <2>1. OnceOK(rs') /\ rs'.pos = rs.pos /\ rs'.data = rs.data /\ rs'.started = rs.started
    BY <1>1, <1>3, DestroyedOnce DEF RsDestroy, SameProgress
  <2> QED BY <1>1, <2>1, RsQuietKeeps
<1> QED BY <1>2, <1>3

LEMMA RsNextKeeps == RsIInv /\ [RsNext]_rsVars => RsIInv'
<1> SUFFICES ASSUME RsIInv, [RsNext]_rsVars PROVE RsIInv'
  OBVIOUS
<1>1. CASE UNCHANGED rsVars
  BY <1>1 DEF rsVars, RsIInv, OneRunInv
<1>2. CASE RsNext
  BY <1>2, OpenDoneKeeps, EmitReturnsKeeps, ReadDoneKeeps, RsNewKeeps, ResumeKeeps, PauseKeeps
  DEF RsNext
<1> QED BY <1>1, <1>2

LEMMA RsIInvImplies == RsIInv => ReadStreamInv
<1> SUFFICES ASSUME RsIInv PROVE ReadStreamInv
  OBVIOUS
<1>1. rs \in RsRecord /\ OnceOK(rs) /\ loops \in [Runs -> LoopRecord]
  BY RsFacts
<1>2. RsTypeOK
  BY <1>1 DEF RsTypeOK, RsRecord, LoopRecord
<1>3. OneRunReadsInOrder
  BY DEF OneRunReadsInOrder, RsIInv, OneRunInv
<1>4. EndAndCloseOnce
  BY <1>1 DEF EndAndCloseOnce, OnceOK, One
<1> QED BY <1>2, <1>3, <1>4 DEF ReadStreamInv

-----------------------------------------------------------------------------
(* FsRequests.                                                               *)

FileRecord ==
  [obj : {"none", "alive", "dead"}, fd : Numbers \union {ClosedFd},
   serial : Serials, touched : Serials]

ReqRecord ==
  [op : {"none", "open", "close", "fd", "host"} \union PathOps,
   state : {"free", "queued", "done"}, fd : Numbers \union {ClosedFd}, serial : Serials,
   file : Files \union {"none"}, result : Nat,
   promise : {"none", "pending", "settled"}, intact : BOOLEAN]

(* Who holds a number for a file: an object, or a request on its way to       *)
(* close(2) or back from open(2).                                            *)
KeepsFd(f) == f.obj = "alive" /\ f.fd # ClosedFd
CarriesFd(q) ==
  /\ q.serial # 0
  /\ \/ q.op = "close" /\ q.state = "queued"
     \/ q.op = "open" /\ q.state = "done" /\ q.result # 0

(* A close on its way with a bare number.  *)
ByNumber(q) == q.op = "close" /\ q.state = "queued" /\ q.serial = 0

(* A file and a request struct.  *)
FileOK(f) ==
  /\ f \in FileRecord
  /\ f.touched \in {0, f.serial} \/ f.serial \in astray

ReqOK(q) ==
  /\ q \in ReqRecord
  /\ q.state # "free" => q.promise = "pending"
  /\ q.state = "free" => q.op = "none"
  /\ q.op \in {"close", "fd"} => q.fd \in Numbers
  /\ q.op = "fd" /\ q.intact => q.file \in Files
  /\ q.state = "queued" => q.result = 0
  /\ q.op = "open" /\ q.result # 0 => q.fd \in Numbers /\ q.serial # 0
  /\ q.op = "fd" /\ q.intact => q.result \in {0, q.serial} \/ q.serial \in astray
  /\ q.op \in PathOps => q.result \in {0, 1}

(* A request on its way with the number of a file that has not been given up. *)
OnItsWay(q) == q.op = "fd" /\ q.state = "queued" /\ q.intact

(* What has the number n for the file id: it is open under n, or it was       *)
(* closed behind its owner's back.                                           *)
HeldUnder(n, id) == id # 0 /\ id =< opens /\ (fdTable[n] = id \/ id \in astray)
HeldNext(n, id) == id # 0 /\ id =< opens' /\ (fdTable'[n] = id \/ id \in astray')

FilesInv ==
  /\ files \in [Files -> FileRecord]
  /\ \A f \in Files : /\ FileOK(files[f])
                      /\ KeepsFd(files[f]) => HeldUnder(files[f].fd, files[f].serial)
ReqsInv ==
  /\ reqs \in [Requests -> ReqRecord]
  /\ \A r \in Requests : /\ ReqOK(reqs[r])
                         /\ CarriesFd(reqs[r]) => HeldUnder(reqs[r].fd, reqs[r].serial)

(* The kernel knows an open file by its serial number.  *)
SerialsInv ==
  /\ opens \in 0..MaxOpens
  /\ fdTable \in [Numbers -> Serials]
  /\ astray \subseteq Serials /\ leaked \subseteq Serials
  /\ \A n \in Numbers : fdTable[n] =< opens
  /\ \A id \in leaked : id =< opens
  /\ \A m, n \in Numbers : fdTable[m] = fdTable[n] /\ fdTable[m] # 0 => m = n

(* No file has two holders, a leaked one has none, and any other open one     *)
(* has one, with its number.                                                 *)
HoldersInv ==
  /\ \A f, g \in Files :
       KeepsFd(files[f]) /\ KeepsFd(files[g]) /\ files[f].serial = files[g].serial => f = g
  /\ \A r, s \in Requests :
       CarriesFd(reqs[r]) /\ CarriesFd(reqs[s]) /\ reqs[r].serial = reqs[s].serial => r = s
  /\ \A f \in Files, r \in Requests :
       KeepsFd(files[f]) /\ CarriesFd(reqs[r]) => files[f].serial # reqs[r].serial
  /\ \A f \in Files : KeepsFd(files[f]) => files[f].serial \notin leaked
  /\ \A r \in Requests : CarriesFd(reqs[r]) => reqs[r].serial \notin leaked
  /\ \A n \in Numbers : fdTable[n] # 0 =>
       \/ fdTable[n] \in leaked
       \/ \E f \in Files :
            KeepsFd(files[f]) /\ files[f].fd = n /\ files[f].serial = fdTable[n]
       \/ \E r \in Requests :
            CarriesFd(reqs[r]) /\ reqs[r].fd = n /\ reqs[r].serial = fdTable[n]

(* A request whose file has not been given up carries the number the object   *)
(* still has.                                                                *)
IntactInv ==
  \A r \in Requests : OnItsWay(reqs[r]) =>
    /\ KeepsFd(files[reqs[r].file])
    /\ files[reqs[r].file].fd = reqs[r].fd /\ files[reqs[r].file].serial = reqs[r].serial

(* Only a close by number starts it.  *)
NumberedInv ==
  /\ numbered \in BOOLEAN
  /\ ~numbered => astray = {}
  /\ \A r \in Requests : ByNumber(reqs[r]) => numbered

DescInv == FilesInv /\ ReqsInv /\ SerialsInv /\ HoldersInv /\ IntactInv /\ NumberedInv
PathInv == made \in BOOLEAN /\ told \in Int /\ PathReportsTruth

FsIInv == DescInv /\ PathInv

LEMMA NumberFacts ==
  /\ MaxOpens \in Nat /\ ClosedFd \notin Numbers
  /\ \A n \in Numbers : n \in Nat
  /\ \A n \in Serials : n \in Nat
  /\ 0 \in Serials
BY FsAssumption DEF ClosedFd, Numbers, Serials

LEMMA NoReqOK == ReqOK(NoReq) /\ ~CarriesFd(NoReq) /\ ~OnItsWay(NoReq) /\ ~ByNumber(NoReq)
<1>1. NoReq \in ReqRecord
  BY NumberFacts DEF NoReq, ReqRecord
<1> QED BY <1>1 DEF ReqOK, NoReq, CarriesFd, OnItsWay, ByNumber, PathOps

(* A step that changes one request, which held no number and holds none.  *)
LEMMA PlainRequest ==
  ASSUME DescInv, NEW r \in Requests, NEW q, ReqOK(q),
         reqs' = [reqs EXCEPT ![r] = q], UNCHANGED <<files, fdTable, opens, astray, leaked>>,
         numbered' \in BOOLEAN, numbered => numbered', ByNumber(q) => numbered',
         ~CarriesFd(q), ~CarriesFd(reqs[r]),
         OnItsWay(q) => /\ KeepsFd(files[q.file])
                        /\ files[q.file].fd = q.fd /\ files[q.file].serial = q.serial
  PROVE  DescInv'
<1>1. reqs'[r] = q /\ \A s \in Requests : s # r => reqs'[s] = reqs[s]
  BY DEF DescInv, ReqsInv
<1>2. q \in ReqRecord
  BY DEF ReqOK
<1>3. reqs' \in [Requests -> ReqRecord]
  BY <1>2 DEF DescInv, ReqsInv
<1>4. FilesInv' /\ SerialsInv'
  BY DEF DescInv, FilesInv, FileOK, SerialsInv, KeepsFd, HeldUnder
<1>5. ReqsInv'
  <2>1. \A s \in Requests : ReqOK(reqs[s])'
    BY <1>1 DEF DescInv, ReqsInv, ReqOK
  <2>2. \A s \in Requests : CarriesFd(reqs'[s]) => HeldUnder(reqs[s].fd, reqs[s].serial)'
    BY <1>1 DEF DescInv, ReqsInv, HeldUnder
  <2> QED BY <1>3, <2>1, <2>2 DEF ReqsInv, CarriesFd
<1>6. HoldersInv'
  <2>1. \A s \in Requests : CarriesFd(reqs'[s]) => CarriesFd(reqs[s]) /\ reqs'[s] = reqs[s]
    BY <1>1
  <2>2. \A s \in Requests : CarriesFd(reqs[s]) => reqs'[s] = reqs[s]
    BY <1>1
  <2> QED BY <2>1, <2>2 DEF DescInv, HoldersInv, CarriesFd, KeepsFd
<1>7. IntactInv'
  BY <1>1 DEF DescInv, IntactInv, OnItsWay, KeepsFd
<1>8. NumberedInv'
  BY <1>1 DEF DescInv, NumberedInv, ByNumber
<1> QED BY <1>4, <1>5, <1>6, <1>7, <1>8 DEF DescInv

(* A call that was made and that JavaScript is still to be told of.  *)
IsDue(q, op) == q.state = "done" /\ q.op = op /\ q.result = 1

LEMMA DueIs == \A op : Due(op) = {r \in Requests : IsDue(reqs[r], op)}
BY DEF Due, IsDue

LEMMA PathFrame ==
  ASSUME PathInv, UNCHANGED pathVars,
         \A r \in Requests : \A op \in {"make", "remove"} :
           IsDue(reqs'[r], op) <=> IsDue(reqs[r], op)
  PROVE  PathInv'
<1>1. Due("make")' = Due("make") /\ Due("remove")' = Due("remove")
  BY DEF Due, IsDue
<1> QED BY <1>1 DEF PathInv, PathReportsTruth, pathVars

(* The same for a step that writes one request.  *)
LEMMA PathFrameOne ==
  ASSUME FsIInv, UNCHANGED pathVars, NEW r \in Requests, NEW q,
         reqs' = [reqs EXCEPT ![r] = q],
         \A op \in {"make", "remove"} : ~IsDue(q, op) /\ ~IsDue(reqs[r], op)
  PROVE  PathInv'
<1>1. reqs'[r] = q /\ \A s \in Requests : s # r => reqs'[s] = reqs[s]
  BY DEF FsIInv, DescInv, ReqsInv
<1>2. \A s \in Requests : \A op \in {"make", "remove"} :
        IsDue(reqs'[s], op) <=> IsDue(reqs[s], op)
  BY <1>1
<1> QED BY <1>2, PathFrame DEF FsIInv

(* A new request, with the number n of the file with serial number id.  *)
IsNewReq(q, op, n, id, f) ==
  /\ q \in ReqRecord /\ q.op = op /\ q.state = "queued" /\ q.file = f
  /\ q.fd = n /\ q.serial = id /\ q.promise = "pending" /\ q.result = 0
  /\ q.intact = TRUE

LEMMA NoReqFields ==
  /\ NoReq \in ReqRecord /\ NoReq.op = "none" /\ NoReq.state = "free" /\ NoReq.fd = ClosedFd
  /\ NoReq.serial = 0 /\ NoReq.file = "none" /\ NoReq.result = 0 /\ NoReq.promise = "none"
  /\ NoReq.intact = TRUE
<1>1. NoReq \in ReqRecord
  BY NoReqOK DEF ReqOK
<1> QED BY <1>1 DEF NoReq

(* A step that leaves the owners of the descriptors alone.  *)
LEMMA OwnFrame ==
  ASSUME DescInv, UNCHANGED ownVars
  PROVE  UNCHANGED <<astray, leaked>> /\ numbered' \in BOOLEAN /\ (numbered => numbered')
BY DEF DescInv, NumberedInv, ownVars

LEMMA NewPlainRequest ==
  ASSUME FsIInv, NEW r \in Requests, reqs[r].state = "free",
         NEW op \in {"open", "host"} \union PathOps,
         NEW q, IsNewReq(q, op, ClosedFd, 0, "none"),
         reqs' = [reqs EXCEPT ![r] = q],
         UNCHANGED <<files, fdTable, opens>>, UNCHANGED pathVars, UNCHANGED ownVars
  PROVE  FsIInv'
<1>1. op # "close" /\ op # "fd"
  BY DEF PathOps
<1>2. ReqOK(q) /\ ~CarriesFd(q) /\ ~OnItsWay(q) /\ ~ByNumber(q)
  BY <1>1 DEF ReqOK, CarriesFd, OnItsWay, ByNumber, IsNewReq
<1>3. ~CarriesFd(reqs[r])
  BY DEF CarriesFd
<1>4. DescInv'
  BY <1>2, <1>3, OwnFrame, PlainRequest DEF FsIInv
<1>5. PathInv'
  BY PathFrameOne DEF IsDue, IsNewReq
<1> QED BY <1>4, <1>5 DEF FsIInv

LEMMA FsOpOpenKeeps ==
  ASSUME FsIInv, NEW r \in Requests, FsOpOpen(r), UNCHANGED pathVars, UNCHANGED ownVars
  PROVE  FsIInv'
<1> DEFINE q == [NoReq EXCEPT !.op = "open", !.state = "queued", !.promise = "pending"]
<1>1. IsNewReq(q, "open", ClosedFd, 0, "none")
  BY NoReqFields DEF IsNewReq, ReqRecord
<1>2. reqs' = [reqs EXCEPT ![r] = q]
  BY DEF FsOpOpen
<1> HIDE DEF q
<1> QED BY <1>1, <1>2, NewPlainRequest DEF FsOpOpen

LEMMA GetAddrInfoKeeps ==
  ASSUME FsIInv, NEW r \in Requests, GetAddrInfo(r), UNCHANGED pathVars, UNCHANGED ownVars
  PROVE  FsIInv'
<1> DEFINE q == [NoReq EXCEPT !.op = "host", !.state = "queued", !.promise = "pending"]
<1>1. IsNewReq(q, "host", ClosedFd, 0, "none")
  BY NoReqFields DEF IsNewReq, ReqRecord
<1>2. reqs' = [reqs EXCEPT ![r] = q]
  BY DEF GetAddrInfo
<1> HIDE DEF q
<1> QED BY <1>1, <1>2, NewPlainRequest DEF GetAddrInfo

LEMMA FsOpPathKeeps ==
  ASSUME FsIInv, NEW r \in Requests, FsOpPath(r), UNCHANGED pathVars, UNCHANGED ownVars
  PROVE  FsIInv'
<1> PICK op \in PathOps :
      reqs' = [reqs EXCEPT ![r] = [NoReq EXCEPT !.op = op, !.state = "queued",
                                                !.promise = "pending"]]
  BY DEF FsOpPath
<1> DEFINE q == [NoReq EXCEPT !.op = op, !.state = "queued", !.promise = "pending"]
<1>1. IsNewReq(q, op, ClosedFd, 0, "none")
  BY NoReqFields DEF IsNewReq, ReqRecord
<1>2. reqs' = [reqs EXCEPT ![r] = q]
  OBVIOUS
<1> HIDE DEF q
<1> QED BY <1>1, <1>2, NewPlainRequest DEF FsOpPath

LEMMA FileFacts ==
  ASSUME DescInv, NEW f \in Files
  PROVE  /\ files[f] \in FileRecord /\ FileOK(files[f])
         /\ KeepsFd(files[f]) => /\ files[f].fd \in Numbers /\ files[f].serial # 0
                                 /\ files[f].serial \in Serials
                                 /\ HeldUnder(files[f].fd, files[f].serial)
BY DEF DescInv, FilesInv, FileRecord, FileOK, KeepsFd, HeldUnder

LEMMA ReqFacts ==
  ASSUME DescInv, NEW r \in Requests
  PROVE  /\ reqs[r] \in ReqRecord /\ ReqOK(reqs[r])
         /\ CarriesFd(reqs[r]) => /\ reqs[r].fd \in Numbers /\ reqs[r].serial # 0
                                  /\ reqs[r].serial \in Serials
                                  /\ HeldUnder(reqs[r].fd, reqs[r].serial)
<1>1. reqs[r] \in ReqRecord /\ ReqOK(reqs[r])
  BY DEF DescInv, ReqsInv
<1>2. CarriesFd(reqs[r]) => reqs[r].fd \in Numbers
  BY <1>1 DEF ReqOK, CarriesFd
<1>3. reqs[r].serial \in Serials
  BY <1>1 DEF ReqRecord
<1> QED BY <1>1, <1>2, <1>3 DEF DescInv, ReqsInv, CarriesFd

LEMMA FsOpFdKeeps ==
  ASSUME FsIInv, NEW r \in Requests, NEW f \in Files, FsOpFd(r, f), UNCHANGED pathVars,
         UNCHANGED ownVars
  PROVE  FsIInv'
<1> DEFINE n == files[f].fd
           id == files[f].serial
           q == [NoReq EXCEPT !.op = "fd", !.state = "queued", !.file = f,
                              !.fd = n, !.serial = id, !.promise = "pending"]
<1>1. KeepsFd(files[f]) /\ n \in Numbers /\ id \in Serials
  BY FileFacts DEF FsOpFd, KeepsFd, FsIInv, FileRecord
<1>2. reqs' = [reqs EXCEPT ![r] = q] /\ reqs[r].state = "free"
      /\ UNCHANGED <<files, fdTable, opens>>
  BY DEF FsOpFd
<1> HIDE DEF n, id
<1>3. IsNewReq(q, "fd", n, id, f)
  BY <1>1, NoReqFields DEF IsNewReq, ReqRecord
<1> HIDE DEF q
<1>4. ReqOK(q) /\ ~CarriesFd(q) /\ ~ByNumber(q)
  BY <1>1, <1>3 DEF ReqOK, CarriesFd, ByNumber, PathOps, IsNewReq
<1>5. ~CarriesFd(reqs[r])
  BY <1>2 DEF CarriesFd
<1>6. KeepsFd(files[q.file]) /\ files[q.file].fd = q.fd /\ files[q.file].serial = q.serial
  BY <1>1, <1>3 DEF n, id, IsNewReq
<1>7. DescInv'
  BY <1>2, <1>4, <1>5, <1>6, OwnFrame, PlainRequest DEF FsIInv
<1>8. PathInv'
  BY <1>2, <1>3, PathFrameOne DEF IsDue, IsNewReq
<1> QED BY <1>7, <1>8 DEF FsIInv

(* A call with a bare number: the request is nobody's.  *)
LEMMA FsOpNumberKeeps ==
  ASSUME FsIInv, NEW r \in Requests, NEW n \in Numbers, FsOpNumber(r, n), UNCHANGED pathVars
  PROVE  FsIInv'
<1> PICK op \in {"close", "fd"} :
      /\ reqs' = [reqs EXCEPT ![r] = [NoReq EXCEPT !.op = op, !.state = "queued", !.fd = n,
                                                   !.promise = "pending", !.intact = FALSE]]
      /\ numbered' = (numbered \/ op = "close")
  BY DEF FsOpNumber
<1> DEFINE q == [NoReq EXCEPT !.op = op, !.state = "queued", !.fd = n,
                              !.promise = "pending", !.intact = FALSE]
<1>1. reqs' = [reqs EXCEPT ![r] = q] /\ reqs[r].state = "free"
      /\ UNCHANGED <<files, fdTable, opens, astray, leaked>>
  BY DEF FsOpNumber
<1>2. /\ q \in ReqRecord /\ q.op = op /\ q.state = "queued" /\ q.fd = n /\ q.serial = 0
      /\ q.promise = "pending" /\ q.result = 0 /\ q.intact = FALSE
  BY NoReqFields DEF ReqRecord
<1> HIDE DEF q
<1>3. ReqOK(q) /\ ~CarriesFd(q) /\ ~OnItsWay(q)
  BY <1>2 DEF ReqOK, CarriesFd, OnItsWay, PathOps
<1>4. numbered' \in BOOLEAN /\ (numbered => numbered') /\ (ByNumber(q) => numbered')
  BY <1>2 DEF ByNumber, FsIInv, DescInv, NumberedInv
<1>5. ~CarriesFd(reqs[r])
  BY <1>1 DEF CarriesFd
<1>6. DescInv'
  BY <1>1, <1>3, <1>4, <1>5, PlainRequest DEF FsIInv
<1>7. PathInv'
  BY <1>1, <1>2, PathFrameOne DEF IsDue
<1> QED BY <1>6, <1>7 DEF FsIInv

(* What a request loses when its file is given up.  *)
SameButIntact(q, p) ==
  /\ q \in ReqRecord /\ ReqOK(q)
  /\ q.op = p.op /\ q.state = p.state /\ q.fd = p.fd /\ q.serial = p.serial
  /\ q.file = p.file /\ q.result = p.result /\ q.promise = p.promise
  /\ q.intact => p.intact

LEMMA UnsettledFacts ==
  ASSUME DescInv, NEW f \in Files
  PROVE  /\ Unsettled(reqs, f) \in [Requests -> ReqRecord]
         /\ \A r \in Requests : /\ SameButIntact(Unsettled(reqs, f)[r], reqs[r])
                                /\ OnItsWay(Unsettled(reqs, f)[r]) => reqs[r].file # f
<1>1. ASSUME NEW r \in Requests
      PROVE  /\ SameButIntact(Unsettled(reqs, f)[r], reqs[r])
             /\ OnItsWay(Unsettled(reqs, f)[r]) => reqs[r].file # f
  <2> DEFINE p == reqs[r]
             q == [p EXCEPT !.intact = FALSE]
  <2>1. p \in ReqRecord /\ ReqOK(p)
    BY ReqFacts
  <2>2. Unsettled(reqs, f)[r]
          = IF p.file = f /\ p.op = "fd" /\ p.state = "queued" THEN q ELSE p
    BY DEF Unsettled
  <2> HIDE DEF p
  <2>3. /\ q \in ReqRecord /\ q.intact = FALSE
        /\ q.op = p.op /\ q.state = p.state /\ q.fd = p.fd /\ q.serial = p.serial
        /\ q.file = p.file /\ q.result = p.result /\ q.promise = p.promise
    BY <2>1 DEF ReqRecord
  <2> HIDE DEF q
  <2>4. SameButIntact(q, p) /\ SameButIntact(p, p)
    BY <2>1, <2>3 DEF SameButIntact, ReqOK
  <2>5. CASE p.file = f /\ p.op = "fd" /\ p.state = "queued"
    BY <2>2, <2>3, <2>4, <2>5 DEF OnItsWay, p
  <2>6. CASE ~(p.file = f /\ p.op = "fd" /\ p.state = "queued")
    BY <2>2, <2>4, <2>6 DEF OnItsWay, p
  <2> QED BY <2>5, <2>6
<1>2. Unsettled(reqs, f) \in [Requests -> ReqRecord]
  <2>1. \A r \in Requests : Unsettled(reqs, f)[r] \in ReqRecord
    BY <1>1 DEF SameButIntact
  <2>2. Unsettled(reqs, f) = [r \in Requests |-> Unsettled(reqs, f)[r]]
    BY DEF Unsettled
  <2> QED BY <2>1, <2>2
<1> QED BY <1>1, <1>2

(* A step that closes the number n for the file id: its holder no longer has  *)
(* it, and no request still trusts it.  A closed file closes nothing.        *)
LEMMA ReleaseNumber ==
  ASSUME DescInv, NEW n \in Numbers \union {ClosedFd}, NEW id \in Serials,
         fdTable' = [m \in Numbers |-> IF m = n THEN 0 ELSE fdTable[m]],
         opens' = opens, leaked' = leaked,
         astray \subseteq astray', astray' \subseteq Serials,
         n \in Numbers => fdTable[n] \in {0, id} \union astray',
         numbered' \in BOOLEAN, numbered => numbered', ~numbered' => astray' = astray,
         files' \in [Files -> FileRecord], reqs' \in [Requests -> ReqRecord],
         \A f \in Files :
           /\ files'[f].touched \in {0, files'[f].serial} \/ files'[f].serial \in astray'
           /\ KeepsFd(files[f]) /\ ~KeepsFd(files'[f]) => files[f].fd = n
           /\ KeepsFd(files'[f]) =>
                /\ KeepsFd(files[f]) /\ files[f].serial # id
                /\ files'[f].fd = files[f].fd /\ files'[f].serial = files[f].serial,
         \A r \in Requests :
           /\ ReqOK(reqs[r])'
           /\ CarriesFd(reqs[r]) /\ ~CarriesFd(reqs'[r]) => reqs[r].fd = n
           /\ CarriesFd(reqs'[r]) =>
                /\ CarriesFd(reqs[r]) /\ reqs[r].serial # id
                /\ reqs'[r].fd = reqs[r].fd /\ reqs'[r].serial = reqs[r].serial
           /\ ByNumber(reqs'[r]) => ByNumber(reqs[r])
           /\ OnItsWay(reqs'[r]) =>
                /\ OnItsWay(reqs[r]) /\ reqs'[r].file = reqs[r].file /\ reqs'[r].fd = reqs[r].fd
                /\ reqs'[r].serial = reqs[r].serial /\ KeepsFd(files'[reqs[r].file])
  PROVE  DescInv'
<1>1. \A m \in Numbers : fdTable'[m] = IF m = n THEN 0 ELSE fdTable[m]
  OBVIOUS
<1>2. SerialsInv'
  <2>1. fdTable' \in [Numbers -> Serials]
    BY NumberFacts DEF DescInv, SerialsInv
  <2>2. opens' \in 0..MaxOpens /\ 0 =< opens'
    BY NumberFacts DEF DescInv, SerialsInv
  <2>3. \A m \in Numbers : fdTable'[m] =< opens'
    BY <1>1, <2>2 DEF DescInv, SerialsInv
  <2>4. \A m, k \in Numbers : fdTable'[m] = fdTable'[k] /\ fdTable'[m] # 0 => m = k
    BY <1>1 DEF DescInv, SerialsInv
  <2>5. leaked' \subseteq Serials /\ \A i \in leaked' : i =< opens'
    BY DEF DescInv, SerialsInv
  <2> QED BY <2>1, <2>2, <2>3, <2>4, <2>5 DEF SerialsInv
<1>3. ASSUME NEW m \in Numbers, NEW i, HeldUnder(m, i), i # id
      PROVE  i # 0 /\ i =< opens' /\ (fdTable'[m] = i \/ i \in astray')
  <2>1. CASE m = n
    BY <1>3, <2>1 DEF HeldUnder
  <2>2. CASE m # n
    BY <1>1, <1>3, <2>2 DEF HeldUnder
  <2> QED BY <2>1, <2>2
<1>4. FilesInv'
  <2>1. ASSUME NEW f \in Files, KeepsFd(files'[f])
        PROVE  /\ files'[f].serial # 0 /\ files'[f].serial =< opens'
               /\ fdTable'[files'[f].fd] = files'[f].serial \/ files'[f].serial \in astray'
    <3>1. /\ files[f].serial # id /\ HeldUnder(files[f].fd, files[f].serial)
          /\ files[f].fd \in Numbers
          /\ files'[f].fd = files[f].fd /\ files'[f].serial = files[f].serial
      BY <2>1, FileFacts
    <3> QED BY <1>3, <3>1
  <2> QED BY <2>1 DEF FilesInv, FileOK, KeepsFd, HeldUnder
<1>5. ReqsInv'
  <2>1. ASSUME NEW r \in Requests, CarriesFd(reqs'[r])
        PROVE  /\ reqs'[r].serial # 0 /\ reqs'[r].serial =< opens'
               /\ fdTable'[reqs'[r].fd] = reqs'[r].serial \/ reqs'[r].serial \in astray'
    <3>1. /\ reqs[r].serial # id /\ HeldUnder(reqs[r].fd, reqs[r].serial)
          /\ reqs[r].fd \in Numbers
          /\ reqs'[r].fd = reqs[r].fd /\ reqs'[r].serial = reqs[r].serial
      BY <2>1, ReqFacts
    <3> QED BY <1>3, <3>1
  <2> QED BY <2>1 DEF ReqsInv, CarriesFd, HeldUnder
<1>6. HoldersInv'
  <2>1. \A f, g \in Files :
          KeepsFd(files'[f]) /\ KeepsFd(files'[g]) /\ files'[f].serial = files'[g].serial => f = g
    BY DEF DescInv, HoldersInv
  <2>2. \A r, s \in Requests :
          CarriesFd(reqs'[r]) /\ CarriesFd(reqs'[s]) /\ reqs'[r].serial = reqs'[s].serial => r = s
    BY DEF DescInv, HoldersInv
  <2>3. \A f \in Files, r \in Requests :
          KeepsFd(files'[f]) /\ CarriesFd(reqs'[r]) => files'[f].serial # reqs'[r].serial
    BY DEF DescInv, HoldersInv
  <2>4. /\ \A f \in Files : KeepsFd(files'[f]) => files'[f].serial \notin leaked'
        /\ \A r \in Requests : CarriesFd(reqs'[r]) => reqs'[r].serial \notin leaked'
    BY DEF DescInv, HoldersInv
  <2>5. ASSUME NEW m \in Numbers, fdTable'[m] # 0
        PROVE  \/ fdTable'[m] \in leaked'
               \/ \E f \in Files :
                    KeepsFd(files'[f]) /\ files'[f].fd = m /\ files'[f].serial = fdTable'[m]
               \/ \E r \in Requests :
                    CarriesFd(reqs'[r]) /\ reqs'[r].fd = m /\ reqs'[r].serial = fdTable'[m]
    <3>1. m # n /\ fdTable[m] # 0 /\ fdTable'[m] = fdTable[m]
      BY <1>1, <2>5
    <3>2. \/ fdTable[m] \in leaked
          \/ \E f \in Files :
               KeepsFd(files[f]) /\ files[f].fd = m /\ files[f].serial = fdTable[m]
          \/ \E r \in Requests :
               CarriesFd(reqs[r]) /\ reqs[r].fd = m /\ reqs[r].serial = fdTable[m]
      BY <3>1 DEF DescInv, HoldersInv
    <3> QED BY <3>1, <3>2
  <2> QED BY <2>1, <2>2, <2>3, <2>4, <2>5 DEF HoldersInv, KeepsFd, CarriesFd
<1>7. IntactInv'
  <2>1. ASSUME NEW r \in Requests, OnItsWay(reqs'[r])
        PROVE  /\ KeepsFd(files'[reqs'[r].file])
               /\ files'[reqs'[r].file].fd = reqs'[r].fd
               /\ files'[reqs'[r].file].serial = reqs'[r].serial
    <3> DEFINE f == reqs[r].file
    <3>1. f \in Files
      BY <2>1, ReqFacts DEF ReqOK, OnItsWay
    <3>2. KeepsFd(files[f]) /\ files[f].fd = reqs[r].fd /\ files[f].serial = reqs[r].serial
      BY <2>1 DEF DescInv, IntactInv
    <3> QED BY <2>1, <3>1, <3>2
  <2> QED BY <2>1 DEF IntactInv, OnItsWay, KeepsFd
<1>8. NumberedInv'
  BY DEF DescInv, NumberedInv, ByNumber
<1> QED BY <1>2, <1>4, <1>5, <1>6, <1>7, <1>8 DEF DescInv

LEMMA TableWithout ==
  ASSUME DescInv, NEW n \in Numbers \union {ClosedFd}
  PROVE  /\ n \in Numbers => [fdTable EXCEPT ![n] = 0]
                               = [m \in Numbers |-> IF m = n THEN 0 ELSE fdTable[m]]
         /\ n = ClosedFd => fdTable = [m \in Numbers |-> IF m = n THEN 0 ELSE fdTable[m]]
BY NumberFacts DEF DescInv, SerialsInv

(* What close(2) of n does; it strays only where the file under n is not id.  *)
LEMMA ClosesFacts ==
  ASSUME DescInv, NEW n \in Numbers, NEW id \in Serials, Closes(n, id)
  PROVE  /\ fdTable' = [m \in Numbers |-> IF m = n THEN 0 ELSE fdTable[m]]
         /\ astray \subseteq astray' /\ astray' \subseteq Serials
         /\ fdTable[n] \in {0, id} \union astray'
         /\ HeldUnder(n, id) /\ astray = {} => astray' = astray
<1>1. fdTable' = [m \in Numbers |-> IF m = n THEN 0 ELSE fdTable[m]]
  BY TableWithout DEF Closes
<1>2. fdTable[n] \in Serials /\ astray \subseteq Serials
  BY DEF DescInv, SerialsInv
<1> QED BY <1>1, <1>2 DEF Closes, HeldUnder

LEMMA FsWorkCloseKeeps ==
  ASSUME FsIInv, NEW r \in Requests, FsWorkClose(r), UNCHANGED pathVars
  PROVE  FsIInv'
<1> DEFINE n == reqs[r].fd
           id == reqs[r].serial
           v == fdTable[n]
           q == [reqs[r] EXCEPT !.state = "done", !.result = v]
<1>1. /\ reqs[r] \in ReqRecord /\ ReqOK(reqs[r]) /\ n \in Numbers /\ id \in Serials /\ DescInv
      /\ CarriesFd(reqs[r]) \/ ByNumber(reqs[r])
      /\ reqs[r].op = "close" /\ reqs[r].state = "queued"
  BY ReqFacts DEF FsWorkClose, CarriesFd, ByNumber, FsIInv, ReqOK, ReqRecord
<1>2. v \in Nat
  BY <1>1, NumberFacts DEF DescInv, SerialsInv
<1>3. reqs' = [reqs EXCEPT ![r] = q]
  BY DEF FsWorkClose
<1>4. Closes(n, id) /\ UNCHANGED <<files, opens, numbered, leaked>>
  BY DEF FsWorkClose
<1>5. /\ q \in ReqRecord /\ q.op = "close" /\ q.state = "done" /\ q.fd = n
      /\ q.promise = "pending"
  <2> HIDE DEF v
  <2> QED BY <1>1, <1>2 DEF ReqRecord, ReqOK
<1> HIDE DEF q, v
<1>6. ~CarriesFd(q) /\ ~OnItsWay(q) /\ ~ByNumber(q)
  BY <1>1, <1>5 DEF CarriesFd, OnItsWay, ByNumber
<1>7. reqs'[r] = q /\ \A s \in Requests : s # r => reqs'[s] = reqs[s]
  BY <1>1, <1>3 DEF DescInv, ReqsInv
<1>8. reqs' \in [Requests -> ReqRecord] /\ files' \in [Files -> FileRecord]
  BY <1>1, <1>3, <1>4, <1>5 DEF DescInv, ReqsInv, FilesInv
<1> HIDE DEF n, id
<1>9. /\ fdTable' = [m \in Numbers |-> IF m = n THEN 0 ELSE fdTable[m]]
      /\ astray \subseteq astray' /\ astray' \subseteq Serials
      /\ fdTable[n] \in {0, id} \union astray'
      /\ HeldUnder(n, id) /\ astray = {} => astray' = astray
  BY <1>1, <1>4, ClosesFacts
<1>10. ~numbered' => astray' = astray
  <2>1. CASE CarriesFd(reqs[r])
    BY <1>1, <1>4, <1>9, <2>1, ReqFacts DEF DescInv, NumberedInv, n, id
  <2>2. CASE ByNumber(reqs[r])
    BY <1>1, <1>4, <2>2 DEF DescInv, NumberedInv
  <2> QED BY <1>1, <2>1, <2>2
<1>11. ASSUME NEW f \in Files
       PROVE  /\ files'[f].touched \in {0, files'[f].serial} \/ files'[f].serial \in astray'
              /\ KeepsFd(files'[f]) <=> KeepsFd(files[f])
              /\ KeepsFd(files[f]) => files[f].serial # id
              /\ files'[f].fd = files[f].fd /\ files'[f].serial = files[f].serial
  <2>1. KeepsFd(files[f]) => files[f].serial # id
    BY <1>1, FileFacts DEF DescInv, HoldersInv, ByNumber, id
  <2> QED BY <1>1, <1>4, <1>9, <2>1, FileFacts DEF FileOK
<1>12. ASSUME NEW s \in Requests
       PROVE  /\ ReqOK(reqs[s])'
              /\ CarriesFd(reqs[s]) /\ ~CarriesFd(reqs'[s]) => reqs[s].fd = n
              /\ CarriesFd(reqs'[s]) =>
                   /\ CarriesFd(reqs[s]) /\ reqs[s].serial # id
                   /\ reqs'[s].fd = reqs[s].fd /\ reqs'[s].serial = reqs[s].serial
              /\ ByNumber(reqs'[s]) => ByNumber(reqs[s])
              /\ OnItsWay(reqs'[s]) =>
                   /\ OnItsWay(reqs[s]) /\ reqs'[s].file = reqs[s].file /\ reqs'[s].fd = reqs[s].fd
                   /\ reqs'[s].serial = reqs[s].serial /\ KeepsFd(files'[reqs[s].file])
  <2>1. CASE s = r
    <3>1. ReqOK(reqs[s])'
      BY <1>1, <1>5, <1>7, <2>1 DEF ReqOK, PathOps
    <3> QED BY <1>6, <1>7, <2>1, <3>1 DEF n
  <2>2. CASE s # r
    <3>1. CarriesFd(reqs[s]) => reqs[s].serial # id
      BY <1>1, <2>2, ReqFacts DEF DescInv, HoldersInv, ByNumber, id
    <3>2. OnItsWay(reqs[s]) => KeepsFd(files'[reqs[s].file])
      BY <1>1, <1>4, ReqFacts DEF DescInv, IntactInv, OnItsWay, ReqOK
    <3>3. ReqOK(reqs[s])'
      BY <1>1, <1>7, <1>9, <2>2, ReqFacts DEF ReqOK
    <3> QED BY <1>7, <2>2, <3>1, <3>2, <3>3
  <2> QED BY <2>1, <2>2
<1>13. DescInv'
  <2>1. n \in Numbers \union {ClosedFd} /\ numbered' \in BOOLEAN /\ (numbered => numbered')
    BY <1>1, <1>4 DEF DescInv, NumberedInv
  <2> QED BY <1>1, <1>4, <1>8, <1>9, <1>10, <1>11, <1>12, <2>1, ReleaseNumber
<1>14. PathInv'
  BY <1>1, <1>3, <1>5, PathFrameOne DEF IsDue
<1> QED BY <1>13, <1>14 DEF FsIInv

(* The file f gives up its number, to nobody.  *)
LEMMA GiveUp ==
  ASSUME FsIInv, NEW f \in Files, NEW g,
         g \in FileRecord, ~KeepsFd(g), g.serial = files[f].serial, g.touched = files[f].touched,
         files[f].obj = "alive",
         files' = [files EXCEPT ![f] = g], reqs' = Unsettled(reqs, f),
         IF files[f].fd = ClosedFd THEN UNCHANGED <<fdTable, astray>>
         ELSE Closes(files[f].fd, files[f].serial),
         UNCHANGED <<opens, numbered, leaked>>, UNCHANGED pathVars
  PROVE  FsIInv'
<1> DEFINE n == files[f].fd
           id == files[f].serial
<1>1. n \in Numbers \union {ClosedFd} /\ id \in Serials /\ DescInv
  BY FileFacts DEF FileRecord, FsIInv
<1>2. files'[f] = g /\ \A h \in Files : h # f => files'[h] = files[h]
  BY <1>1 DEF DescInv, FilesInv
<1>3. files' \in [Files -> FileRecord]
  BY <1>1 DEF DescInv, FilesInv
<1>4. /\ reqs' \in [Requests -> ReqRecord]
      /\ \A r \in Requests : /\ SameButIntact(reqs'[r], reqs[r])
                             /\ OnItsWay(reqs'[r]) => reqs[r].file # f
  BY <1>1, UnsettledFacts
<1>5. /\ fdTable' = [m \in Numbers |-> IF m = n THEN 0 ELSE fdTable[m]]
      /\ astray \subseteq astray' /\ astray' \subseteq Serials
      /\ n \in Numbers => fdTable[n] \in {0, id} \union astray'
      /\ ~numbered' => astray' = astray
  <2>1. CASE n = ClosedFd
    BY <1>1, <2>1, TableWithout, NumberFacts DEF DescInv, SerialsInv
  <2>2. CASE n # ClosedFd
    <3>1. KeepsFd(files[f]) /\ HeldUnder(n, id) /\ n \in Numbers /\ Closes(n, id)
      BY <1>1, <2>2, FileFacts DEF KeepsFd
    <3> HIDE DEF n, id
    <3>2. /\ fdTable' = [m \in Numbers |-> IF m = n THEN 0 ELSE fdTable[m]]
          /\ astray \subseteq astray' /\ astray' \subseteq Serials
          /\ fdTable[n] \in {0, id} \union astray'
          /\ HeldUnder(n, id) /\ astray = {} => astray' = astray
      BY <1>1, <3>1, ClosesFacts
    <3>3. ~numbered => astray = {}
      BY <1>1 DEF DescInv, NumberedInv
    <3> QED BY <3>1, <3>2, <3>3
  <2> QED BY <2>1, <2>2
<1>6. ASSUME NEW h \in Files
      PROVE  /\ files'[h].touched \in {0, files'[h].serial} \/ files'[h].serial \in astray'
             /\ KeepsFd(files[h]) /\ ~KeepsFd(files'[h]) => files[h].fd = n
             /\ KeepsFd(files'[h]) =>
                  /\ KeepsFd(files[h]) /\ (files[h].serial # id \/ ~KeepsFd(files[f]))
                  /\ files'[h].fd = files[h].fd /\ files'[h].serial = files[h].serial
  <2>1. files[h].touched \in {0, files[h].serial} \/ files[h].serial \in astray
    BY <1>1, FileFacts DEF FileOK
  <2>2. CASE h = f
    BY <1>2, <1>5, <2>1, <2>2
  <2>3. CASE h # f
    BY <1>1, <1>2, <1>5, <2>1, <2>3 DEF DescInv, HoldersInv
  <2> QED BY <2>2, <2>3
<1>7. ASSUME NEW s \in Requests
      PROVE  /\ ReqOK(reqs[s])'
             /\ CarriesFd(reqs'[s]) <=> CarriesFd(reqs[s])
             /\ CarriesFd(reqs[s]) /\ KeepsFd(files[f]) => reqs[s].serial # id
             /\ reqs'[s].fd = reqs[s].fd /\ reqs'[s].serial = reqs[s].serial
             /\ ByNumber(reqs'[s]) => ByNumber(reqs[s])
             /\ OnItsWay(reqs'[s]) =>
                  /\ OnItsWay(reqs[s]) /\ reqs'[s].file = reqs[s].file /\ reqs'[s].fd = reqs[s].fd
                  /\ reqs'[s].serial = reqs[s].serial /\ KeepsFd(files'[reqs[s].file])
  <2>1. SameButIntact(reqs'[s], reqs[s])
    BY <1>4
  <2>2. ReqOK(reqs[s])'
    BY <1>5, <2>1 DEF SameButIntact, ReqOK
  <2>3. /\ CarriesFd(reqs'[s]) <=> CarriesFd(reqs[s])
        /\ ByNumber(reqs'[s]) => ByNumber(reqs[s])
    BY <2>1 DEF SameButIntact, CarriesFd, ByNumber
  <2>4. CarriesFd(reqs[s]) /\ KeepsFd(files[f]) => reqs[s].serial # id
    BY <1>1 DEF DescInv, HoldersInv
  <2>5. OnItsWay(reqs'[s]) => OnItsWay(reqs[s]) /\ reqs[s].file # f
    BY <1>4, <2>1 DEF SameButIntact, OnItsWay
  <2>6. OnItsWay(reqs'[s]) => KeepsFd(files'[reqs[s].file])
    BY <1>1, <1>2, <2>5, ReqFacts DEF DescInv, IntactInv, OnItsWay, ReqOK
  <2> QED BY <2>1, <2>2, <2>3, <2>4, <2>5, <2>6 DEF SameButIntact
<1>8. DescInv'
  <2> DEFINE i == IF n = ClosedFd THEN 0 ELSE id
  <2>1. i \in Serials /\ (n \in Numbers => fdTable[n] \in {0, i} \union astray')
    BY <1>1, <1>5, NumberFacts
  <2>2. /\ \A h \in Files : KeepsFd(files'[h]) => files[h].serial # i
        /\ \A s \in Requests : CarriesFd(reqs'[s]) => reqs[s].serial # i
    <3>1. CASE n = ClosedFd
      BY <1>1, <1>6, <1>7, <3>1, FileFacts, ReqFacts
    <3>2. CASE n # ClosedFd
      BY <1>6, <1>7, <3>2 DEF KeepsFd
    <3> QED BY <3>1, <3>2
  <2>3. numbered' \in BOOLEAN /\ (numbered => numbered') /\ opens' = opens /\ leaked' = leaked
    BY <1>1 DEF DescInv, NumberedInv
  <2> HIDE DEF n, i, id
  <2>4. \A h \in Files :
          /\ files'[h].touched \in {0, files'[h].serial} \/ files'[h].serial \in astray'
          /\ KeepsFd(files[h]) /\ ~KeepsFd(files'[h]) => files[h].fd = n
          /\ KeepsFd(files'[h]) =>
               /\ KeepsFd(files[h]) /\ files[h].serial # i
               /\ files'[h].fd = files[h].fd /\ files'[h].serial = files[h].serial
    BY <1>6, <2>2
  <2>5. \A s \in Requests :
          /\ ReqOK(reqs[s])'
          /\ CarriesFd(reqs[s]) /\ ~CarriesFd(reqs'[s]) => reqs[s].fd = n
          /\ CarriesFd(reqs'[s]) =>
               /\ CarriesFd(reqs[s]) /\ reqs[s].serial # i
               /\ reqs'[s].fd = reqs[s].fd /\ reqs'[s].serial = reqs[s].serial
          /\ ByNumber(reqs'[s]) => ByNumber(reqs[s])
          /\ OnItsWay(reqs'[s]) =>
               /\ OnItsWay(reqs[s]) /\ reqs'[s].file = reqs[s].file /\ reqs'[s].fd = reqs[s].fd
               /\ reqs'[s].serial = reqs[s].serial /\ KeepsFd(files'[reqs[s].file])
    BY <1>7, <2>2
  <2> QED BY <1>1, <1>3, <1>4, <1>5, <2>1, <2>3, <2>4, <2>5, ReleaseNumber
<1>9. PathInv'
  <2>1. \A r \in Requests : \A op \in {"make", "remove"} :
          IsDue(reqs'[r], op) <=> IsDue(reqs[r], op)
    BY <1>4 DEF SameButIntact, IsDue
  <2> QED BY <2>1, PathFrame DEF FsIInv
<1> QED BY <1>8, <1>9 DEF FsIInv

LEMMA FsSyncCloseStep ==
  ASSUME FsIInv, NEW f \in Files, FsSyncClose(f), UNCHANGED pathVars
  PROVE  FsIInv'
<1> DEFINE g == [files[f] EXCEPT !.fd = ClosedFd]
<1>1. files[f] \in FileRecord
  BY FileFacts DEF FsIInv
<1>2. g \in FileRecord /\ ~KeepsFd(g) /\ g.serial = files[f].serial /\ g.touched = files[f].touched
  BY <1>1 DEF FileRecord, KeepsFd
<1>3. files' = [files EXCEPT ![f] = g]
  BY DEF FsSyncClose
<1> HIDE DEF g
<1> QED BY <1>2, <1>3, GiveUp DEF FsSyncClose

LEMMA FileFinalizerKeeps ==
  ASSUME FsIInv, NEW f \in Files, FileFinalizer(f), UNCHANGED pathVars
  PROVE  FsIInv'
<1> DEFINE g == [files[f] EXCEPT !.obj = "dead", !.fd = ClosedFd]
<1>1. files[f] \in FileRecord
  BY FileFacts DEF FsIInv
<1>2. g \in FileRecord /\ ~KeepsFd(g) /\ g.serial = files[f].serial /\ g.touched = files[f].touched
  BY <1>1 DEF FileRecord, KeepsFd
<1>3. files' = [files EXCEPT ![f] = g]
  BY DEF FileFinalizer
<1> HIDE DEF g
<1> QED BY <1>2, <1>3, GiveUp DEF FileFinalizer

LEMMA FsSyncCloseNumberKeeps ==
  ASSUME FsIInv, NEW n \in Numbers, FsSyncCloseNumber(n), UNCHANGED pathVars
  PROVE  FsIInv'
<1>1. /\ DescInv /\ Closes(n, 0) /\ numbered' = TRUE /\ 0 \in Serials
      /\ UNCHANGED <<files, reqs, opens, leaked>>
  BY NumberFacts DEF FsSyncCloseNumber, FsIInv
<1>2. /\ fdTable' = [m \in Numbers |-> IF m = n THEN 0 ELSE fdTable[m]]
      /\ astray \subseteq astray' /\ astray' \subseteq Serials
      /\ fdTable[n] \in {0, 0} \union astray'
  BY <1>1, ClosesFacts
<1>3. files' \in [Files -> FileRecord] /\ reqs' \in [Requests -> ReqRecord]
  BY <1>1 DEF DescInv, FilesInv, ReqsInv
<1>4. ASSUME NEW f \in Files
      PROVE  /\ files'[f].touched \in {0, files'[f].serial} \/ files'[f].serial \in astray'
             /\ KeepsFd(files[f]) => files[f].serial # 0
  BY <1>1, <1>2, FileFacts DEF FileOK
<1>5. ASSUME NEW s \in Requests
      PROVE  /\ ReqOK(reqs[s])'
             /\ CarriesFd(reqs[s]) => reqs[s].serial # 0
             /\ OnItsWay(reqs[s]) => KeepsFd(files'[reqs[s].file])
  <2>1. ReqOK(reqs[s])'
    BY <1>1, <1>2, ReqFacts DEF ReqOK
  <2>2. OnItsWay(reqs[s]) => KeepsFd(files'[reqs[s].file])
    BY <1>1, ReqFacts DEF DescInv, IntactInv, OnItsWay, ReqOK
  <2> QED BY <1>1, <2>1, <2>2, ReqFacts
<1>6. DescInv'
  BY <1>1, <1>2, <1>3, <1>4, <1>5, ReleaseNumber
<1>7. PathInv'
  BY <1>1, PathFrame DEF FsIInv, IsDue
<1> QED BY <1>6, <1>7 DEF FsIInv

(* The number goes from the object to the request that closes it.  *)
LEMMA FsOpCloseKeeps ==
  ASSUME FsIInv, NEW r \in Requests, NEW f \in Files, FsOpClose(r, f), UNCHANGED pathVars, UNCHANGED ownVars
  PROVE  FsIInv'
<1> DEFINE n == files[f].fd
           id == files[f].serial
           q == [NoReq EXCEPT !.op = "close", !.state = "queued",
                              !.fd = n, !.serial = id, !.promise = "pending"]
           g == [files[f] EXCEPT !.fd = ClosedFd]
           u == Unsettled(reqs, f)
<1>1. /\ KeepsFd(files[f]) /\ n \in Numbers /\ id \in Serials /\ DescInv
      /\ HeldUnder(n, id) /\ id # 0 /\ files[f] \in FileRecord
      /\ files[f].touched \in {0, id} \/ id \in astray
  BY FileFacts DEF FsOpClose, KeepsFd, FsIInv, FileRecord, FileOK
<1>2. g \in FileRecord /\ ~KeepsFd(g) /\ g.serial = id /\ g.touched = files[f].touched
  BY <1>1 DEF FileRecord, KeepsFd
<1>3. /\ reqs' = [u EXCEPT ![r] = q] /\ files' = [files EXCEPT ![f] = g]
      /\ reqs[r].state = "free" /\ UNCHANGED <<fdTable, opens, astray, leaked, numbered>>
  BY DEF FsOpClose, ownVars
<1>4. /\ u \in [Requests -> ReqRecord]
      /\ \A s \in Requests : SameButIntact(u[s], reqs[s]) /\ (OnItsWay(u[s]) => reqs[s].file # f)
  BY <1>1, UnsettledFacts
<1> HIDE DEF n, id, u
<1>5. IsNewReq(q, "close", n, id, "none")
  BY <1>1, NoReqFields DEF IsNewReq, ReqRecord
<1> HIDE DEF q, g
<1>6. ReqOK(q) /\ CarriesFd(q) /\ ~OnItsWay(q) /\ ~ByNumber(q)
  BY <1>1, <1>5 DEF ReqOK, CarriesFd, OnItsWay, ByNumber, IsNewReq, PathOps
<1>7. reqs'[r] = q /\ \A s \in Requests : s # r => reqs'[s] = u[s]
  BY <1>3, <1>4
<1>8. files'[f] = g /\ \A h \in Files : h # f => files'[h] = files[h]
  BY <1>1, <1>3 DEF DescInv, FilesInv
<1>9. \A h \in Files : KeepsFd(files'[h]) <=> KeepsFd(files[h]) /\ h # f
  BY <1>2, <1>8
<1>10. \A s \in Requests :
         /\ s # r => (CarriesFd(reqs'[s]) <=> CarriesFd(reqs[s]))
         /\ s # r => reqs'[s].fd = reqs[s].fd /\ reqs'[s].serial = reqs[s].serial
         /\ ReqOK(reqs'[s])
         /\ ByNumber(reqs'[s]) => ByNumber(reqs[s])
         /\ OnItsWay(reqs'[s]) => OnItsWay(reqs[s]) /\ s # r /\ reqs[s].file # f
                                  /\ reqs'[s].file = reqs[s].file
  BY <1>4, <1>6, <1>7 DEF SameButIntact, CarriesFd, OnItsWay, ByNumber
<1>11. ~CarriesFd(reqs[r])
  BY <1>3 DEF CarriesFd
<1>12. SerialsInv'
  BY <1>1, <1>3 DEF DescInv, SerialsInv
<1>13. FilesInv'
  <2>1. files' \in [Files -> FileRecord]
    BY <1>1, <1>2, <1>3 DEF DescInv, FilesInv
  <2>2. ASSUME NEW h \in Files PROVE FileOK(files[h])'
    BY <1>1, <1>2, <1>3, <1>8, <1>9, FileFacts DEF FileOK, KeepsFd
  <2>3. ASSUME NEW h \in Files, KeepsFd(files'[h])
        PROVE  HeldUnder(files[h].fd, files[h].serial)'
    BY <1>1, <1>3, <1>8, <1>9, <2>3, FileFacts DEF HeldUnder
  <2> QED BY <2>1, <2>2, <2>3 DEF FilesInv, KeepsFd
<1>14. ReqsInv'
  <2>1. reqs' \in [Requests -> ReqRecord]
    BY <1>3, <1>4, <1>5 DEF IsNewReq
  <2>2. ASSUME NEW s \in Requests, CarriesFd(reqs'[s])
        PROVE  HeldUnder(reqs[s].fd, reqs[s].serial)'
    <3>1. CASE s = r
      BY <1>1, <1>3, <1>5, <1>7, <3>1 DEF IsNewReq, HeldUnder
    <3>2. CASE s # r
      BY <1>1, <1>3, <1>10, <2>2, <3>2, ReqFacts DEF HeldUnder
    <3> QED BY <3>1, <3>2
  <2>3. \A s \in Requests : ReqOK(reqs[s])'
    BY <1>3, <1>10 DEF ReqOK
  <2> QED BY <2>1, <2>2, <2>3 DEF ReqsInv, CarriesFd
<1>15. HoldersInv'
  <2>1. \A h, k \in Files :
          KeepsFd(files'[h]) /\ KeepsFd(files'[k]) /\ files'[h].serial = files'[k].serial => h = k
    BY <1>1, <1>8, <1>9 DEF DescInv, HoldersInv
  <2>2. \A s \in Requests : s # r /\ CarriesFd(reqs'[s]) => reqs'[s].serial # id
    BY <1>1, <1>10 DEF DescInv, HoldersInv, id
  <2>3. reqs'[r].serial = id /\ reqs'[r].fd = n
    BY <1>5, <1>7 DEF IsNewReq
  <2>4. \A s, w \in Requests :
          CarriesFd(reqs'[s]) /\ CarriesFd(reqs'[w]) /\ reqs'[s].serial = reqs'[w].serial => s = w
    BY <1>1, <1>10, <2>2, <2>3 DEF DescInv, HoldersInv
  <2>5. \A h \in Files, s \in Requests :
          KeepsFd(files'[h]) /\ CarriesFd(reqs'[s]) => files'[h].serial # reqs'[s].serial
    <3>1. \A h \in Files : KeepsFd(files'[h]) => files'[h].serial # id
      BY <1>1, <1>8, <1>9 DEF DescInv, HoldersInv, id
    <3> QED BY <1>1, <1>8, <1>9, <1>10, <2>3, <3>1 DEF DescInv, HoldersInv
  <2>6. \A h \in Files : KeepsFd(files'[h]) => files'[h].serial \notin leaked'
    BY <1>1, <1>3, <1>8, <1>9 DEF DescInv, HoldersInv
  <2>7. \A s \in Requests : CarriesFd(reqs'[s]) => reqs'[s].serial \notin leaked'
    BY <1>1, <1>3, <1>10, <2>3 DEF DescInv, HoldersInv, id
  <2>8. ASSUME NEW m \in Numbers, fdTable'[m] # 0
        PROVE  \/ fdTable'[m] \in leaked'
               \/ \E h \in Files :
                    KeepsFd(files'[h]) /\ files'[h].fd = m /\ files'[h].serial = fdTable'[m]
               \/ \E s \in Requests :
                    CarriesFd(reqs'[s]) /\ reqs'[s].fd = m /\ reqs'[s].serial = fdTable'[m]
    <3>1. \/ fdTable[m] \in leaked
          \/ \E h \in Files :
               KeepsFd(files[h]) /\ files[h].fd = m /\ files[h].serial = fdTable[m]
          \/ \E s \in Requests :
               CarriesFd(reqs[s]) /\ reqs[s].fd = m /\ reqs[s].serial = fdTable[m]
      BY <1>1, <1>3, <2>8 DEF DescInv, HoldersInv
    <3>2. CASE m = n /\ fdTable[m] = id
      BY <1>3, <1>6, <1>7, <2>3, <3>2
    <3>3. CASE ~(m = n /\ fdTable[m] = id)
      BY <1>3, <1>8, <1>9, <1>10, <1>11, <3>1, <3>3 DEF n, id
    <3> QED BY <3>2, <3>3
  <2> QED BY <2>1, <2>4, <2>5, <2>6, <2>7, <2>8 DEF HoldersInv, KeepsFd, CarriesFd
<1>16. IntactInv'
  <2>1. ASSUME NEW s \in Requests, OnItsWay(reqs'[s])
        PROVE  /\ KeepsFd(files'[reqs'[s].file])
               /\ files'[reqs'[s].file].fd = reqs'[s].fd
               /\ files'[reqs'[s].file].serial = reqs'[s].serial
    <3> DEFINE h == reqs[s].file
    <3>1. h \in Files /\ h # f
      BY <1>1, <1>10, <2>1, ReqFacts DEF ReqOK, OnItsWay
    <3>2. KeepsFd(files[h]) /\ files[h].fd = reqs[s].fd /\ files[h].serial = reqs[s].serial
      BY <1>1, <1>10, <2>1 DEF DescInv, IntactInv
    <3> QED BY <1>8, <1>9, <1>10, <2>1, <3>1, <3>2
  <2> QED BY <2>1 DEF IntactInv, OnItsWay, KeepsFd
<1>17. PathInv'
  <2>1. \A s \in Requests : \A op \in {"make", "remove"} :
          IsDue(reqs'[s], op) <=> IsDue(reqs[s], op)
    BY <1>3, <1>4, <1>5, <1>7 DEF SameButIntact, IsDue, IsNewReq
  <2> QED BY <2>1, PathFrame DEF FsIInv
<1>18. NumberedInv'
  BY <1>1, <1>3, <1>10 DEF DescInv, NumberedInv, ByNumber
<1> QED BY <1>12, <1>13, <1>14, <1>15, <1>16, <1>17, <1>18 DEF FsIInv, DescInv

(* While fewer files have been opened than there are numbers, a number is     *)
(* free, and LowestFree is one.                                              *)
LEMMA LowestFreeIsFree ==
  ASSUME DescInv, opens < MaxOpens
  PROVE  LowestFree \in Numbers /\ fdTable[LowestFree] = 0
<1> DEFINE Fr == {n \in Numbers : fdTable[n] = 0}
<1>0. opens \in Nat /\ MaxOpens \in Nat
  BY FsAssumption DEF DescInv, SerialsInv
<1>1. Fr # {}
  <2> SUFFICES ASSUME Fr = {} PROVE FALSE
    OBVIOUS
  <2>1. fdTable \in [Numbers -> 1..opens]
    <3>1. \A n \in Numbers : fdTable[n] \in Nat /\ fdTable[n] # 0 /\ fdTable[n] =< opens
      BY NumberFacts DEF DescInv, SerialsInv
    <3>2. \A n \in Numbers : fdTable[n] \in 1..opens
      BY <3>1, <1>0
    <3> QED BY <3>2 DEF DescInv, SerialsInv
  <2>2. IsFiniteSet(Numbers) /\ Cardinality(Numbers) = MaxOpens
    BY <1>0, FS_Interval DEF Numbers
  <2>3. IsFiniteSet(1..opens) /\ Cardinality(1..opens) = opens
    BY <1>0, FS_Interval
  <2>4. \E x, y \in Numbers : x # y /\ fdTable[x] = fdTable[y]
    <3> DEFINE T == 1..opens
    <3> HIDE DEF T
    <3>1. IsFiniteSet(T) /\ Cardinality(T) < Cardinality(Numbers) /\ fdTable \in [Numbers -> T]
      BY <2>1, <2>2, <2>3 DEF T
    <3> QED BY <2>2, <3>1, FS_PigeonHole
  <2> QED BY <2>4 DEF DescInv, SerialsInv
<1>2. \E x \in Fr : \A y \in Fr : x =< y
  <2> DEFINE R == OpToRel(<, Nat)
  <2>1. Fr \subseteq Nat
    BY NumberFacts
  <2>2. IsWellFoundedOn(R, Nat)
    BY NatLessThanWellFounded
  <2>3. \E x \in Fr : \A y \in Fr : ~(<<y, x>> \in R)
    <3> HIDE DEF R, Fr
    <3> QED BY <1>1, <2>1, <2>2, WFMin
  <2>4. PICK x \in Fr : \A y \in Fr : ~(<<y, x>> \in R)
    BY <2>3
  <2>5. ASSUME NEW y \in Fr PROVE x =< y
    <3>1. x \in Nat /\ y \in Nat
      BY <2>1, <2>4
    <3>2. ~(y < x)
      BY <2>4, <3>1 DEF OpToRel
    <3> QED BY <3>1, <3>2
  <2> QED BY <2>4, <2>5
<1>3. LowestFree \in Fr
  BY <1>2 DEF LowestFree, Min
<1> QED BY <1>3

(* The kernel opens a file under a free number n.  *)
LEMMA OpenedTable ==
  ASSUME DescInv, opens < MaxOpens, NEW n \in Numbers, fdTable[n] = 0,
         opens' = opens + 1, fdTable' = [fdTable EXCEPT ![n] = opens + 1],
         astray' = astray, leaked' \in {leaked, leaked \union {opens + 1}}
  PROVE  /\ SerialsInv'
         /\ opens + 1 \in Serials /\ opens + 1 # 0 /\ opens + 1 \in Nat
         /\ opens + 1 \notin leaked
         /\ fdTable'[n] = opens + 1
         /\ \A m \in Numbers : m # n => fdTable'[m] = fdTable[m] /\ fdTable'[m] # opens + 1
         /\ \A f \in Files : KeepsFd(files[f]) => files[f].serial # opens + 1
         /\ \A r \in Requests : CarriesFd(reqs[r]) => reqs[r].serial # opens + 1
         /\ HeldNext(n, opens + 1)
         /\ \A m \in Numbers : \A i \in Serials : HeldUnder(m, i) => HeldNext(m, i)
<1>1. opens \in Nat /\ MaxOpens \in Nat /\ opens + 1 =< MaxOpens
  BY FsAssumption DEF DescInv, SerialsInv
<1>2. opens + 1 \in Serials /\ opens + 1 # 0 /\ opens + 1 \in Nat
  BY <1>1 DEF Serials
<1>3. fdTable'[n] = opens + 1 /\ \A m \in Numbers : m # n => fdTable'[m] = fdTable[m]
  BY DEF DescInv, SerialsInv
<1>4. fdTable' \in [Numbers -> Serials]
  BY <1>2 DEF DescInv, SerialsInv
<1>5. \A m \in Numbers : fdTable[m] \in Nat /\ fdTable[m] =< opens
  BY NumberFacts DEF DescInv, SerialsInv
<1>6. opens' \in 0..MaxOpens
  BY <1>1
<1>7. \A m \in Numbers : fdTable'[m] =< opens'
  BY <1>1, <1>3, <1>5
<1>8. ASSUME NEW m \in Numbers, NEW k \in Numbers, fdTable'[m] = fdTable'[k], fdTable'[m] # 0
      PROVE  m = k
  <2>1. CASE m = n \/ k = n
    BY <1>1, <1>3, <1>5, <1>8, <2>1
  <2>2. CASE m # n /\ k # n
    BY <1>3, <1>8, <2>2 DEF DescInv, SerialsInv
  <2> QED BY <2>1, <2>2
<1>9. leaked' \subseteq Serials /\ \A i \in leaked' : i =< opens'
  <2>1. \A i \in leaked : i \in Nat /\ i =< opens
    BY NumberFacts DEF DescInv, SerialsInv
  <2> QED BY <1>1, <1>2, <2>1 DEF DescInv, SerialsInv
<1>10. SerialsInv'
  <2>1. astray' \subseteq Serials
    BY DEF DescInv, SerialsInv
  <2> QED BY <1>4, <1>6, <1>7, <1>8, <1>9, <2>1 DEF SerialsInv
<1>11. \A m \in Numbers, i \in Serials : HeldUnder(m, i) => i =< opens /\ i \in Nat
  BY NumberFacts DEF HeldUnder, HeldNext
<1>12. /\ \A f \in Files : KeepsFd(files[f]) => files[f].serial # opens + 1
       /\ \A r \in Requests : CarriesFd(reqs[r]) => reqs[r].serial # opens + 1
  <2>1. \A i \in Serials : i =< opens => i # opens + 1
    BY <1>1, NumberFacts
  <2> QED BY <1>11, <2>1, FileFacts, ReqFacts
<1>13. opens + 1 \notin leaked
  <2>1. \A i \in leaked : i \in Nat /\ i =< opens
    BY NumberFacts DEF DescInv, SerialsInv
  <2> QED BY <1>1, <2>1
<1>14. HeldNext(n, opens + 1)
  BY <1>1, <1>2, <1>3 DEF HeldUnder, HeldNext
<1>15. ASSUME NEW m \in Numbers, NEW i \in Serials, HeldUnder(m, i) PROVE HeldNext(m, i)
  <2>1. i # 0 /\ i =< opens' /\ i \in Nat
    BY <1>1, <1>11, <1>15 DEF HeldUnder, HeldNext
  <2>2. fdTable'[m] = i \/ i \in astray'
    BY <1>3, <1>15 DEF HeldUnder, HeldNext
  <2> QED BY <2>1, <2>2 DEF HeldUnder, HeldNext
<1>16. \A m \in Numbers : m # n => fdTable'[m] # opens + 1
  BY <1>1, <1>3, <1>5
<1> QED BY <1>2, <1>3, <1>10, <1>12, <1>13, <1>14, <1>15, <1>16

LEMMA FsWorkOpenKeeps ==
  ASSUME FsIInv, NEW r \in Requests, FsWorkOpen(r), UNCHANGED pathVars, UNCHANGED ownVars
  PROVE  FsIInv'
<1>0. /\ reqs[r] \in ReqRecord /\ ReqOK(reqs[r]) /\ ~CarriesFd(reqs[r]) /\ DescInv
      /\ reqs[r].op = "open" /\ reqs[r].state = "queued" /\ reqs[r].promise = "pending"
      /\ reqs[r].result = 0 /\ UNCHANGED files
      /\ astray' = astray /\ leaked' = leaked /\ numbered' = numbered
  BY ReqFacts DEF FsWorkOpen, CarriesFd, FsIInv, ReqOK, ownVars
<1>1. CASE /\ reqs' = [reqs EXCEPT ![r].state = "done"]
           /\ UNCHANGED <<fdTable, opens>>
  <2> DEFINE q == [reqs[r] EXCEPT !.state = "done"]
  <2>1. q \in ReqRecord /\ q.op = "open" /\ q.state = "done" /\ q.result = 0
        /\ q.promise = "pending"
    BY <1>0 DEF ReqRecord
  <2>2. reqs' = [reqs EXCEPT ![r] = q]
    BY <1>1
  <2> HIDE DEF q
  <2>3. ReqOK(q) /\ ~CarriesFd(q) /\ ~OnItsWay(q) /\ ~ByNumber(q)
    BY <2>1 DEF ReqOK, CarriesFd, OnItsWay, ByNumber, PathOps
  <2>4. DescInv'
    BY <1>0, <1>1, <2>2, <2>3, OwnFrame, PlainRequest
  <2>5. PathInv'
    BY <1>0, <2>1, <2>2, PathFrameOne DEF IsDue
  <2> QED BY <2>4, <2>5 DEF FsIInv
<1>2. CASE /\ opens < MaxOpens
           /\ opens' = opens + 1
           /\ fdTable' = [fdTable EXCEPT ![LowestFree] = opens + 1]
           /\ reqs' = [reqs EXCEPT ![r].state = "done", ![r].fd = LowestFree,
                                   ![r].serial = opens + 1, ![r].result = opens + 1]
  <2> DEFINE n == LowestFree
             id == opens + 1
             q == [reqs[r] EXCEPT !.state = "done", !.fd = n, !.serial = id, !.result = id]
  <2>1. n \in Numbers /\ fdTable[n] = 0
    BY <1>0, <1>2, LowestFreeIsFree
  <2>2. reqs' = [reqs EXCEPT ![r] = q] /\ opens' = id /\ fdTable' = [fdTable EXCEPT ![n] = id]
    BY <1>2
  <2> HIDE DEF n
  <2>3. /\ SerialsInv' /\ id \in Serials /\ id # 0 /\ id \in Nat /\ id \notin leaked
        /\ fdTable'[n] = id
        /\ \A m \in Numbers : m # n => fdTable'[m] = fdTable[m] /\ fdTable'[m] # id
        /\ \A f \in Files : KeepsFd(files[f]) => files[f].serial # id
        /\ \A s \in Requests : CarriesFd(reqs[s]) => reqs[s].serial # id
        /\ HeldNext(n, id)
        /\ \A m \in Numbers : \A i \in Serials : HeldUnder(m, i) => HeldNext(m, i)
    BY <1>0, <1>2, <2>1, <2>2, OpenedTable
  <2> HIDE DEF id
  <2>4. /\ q \in ReqRecord /\ q.op = "open" /\ q.state = "done" /\ q.result = id
        /\ q.promise = "pending" /\ q.fd = n /\ q.serial = id
    BY <1>0, <2>1, <2>3 DEF ReqRecord
  <2> HIDE DEF q
  <2>5. ReqOK(q) /\ CarriesFd(q) /\ ~OnItsWay(q) /\ ~ByNumber(q)
    BY <2>1, <2>3, <2>4 DEF ReqOK, CarriesFd, OnItsWay, ByNumber, PathOps
  <2>6. reqs'[r] = q /\ \A s \in Requests : s # r => reqs'[s] = reqs[s]
    BY <1>0, <2>2 DEF DescInv, ReqsInv
  <2>7. FilesInv'
    <3>1. \A f \in Files : FileOK(files[f])'
      BY <1>0, FileFacts DEF FileOK
    <3>2. \A f \in Files : KeepsFd(files[f]) => HeldUnder(files[f].fd, files[f].serial)'
      <4>1. ASSUME NEW f \in Files, KeepsFd(files[f])
            PROVE  \E m \in Numbers, i \in Serials :
                     files[f].fd = m /\ files[f].serial = i /\ HeldUnder(m, i)
        BY <1>0, <4>1, FileFacts
      <4> QED BY <1>0, <2>3, <4>1 DEF HeldUnder, HeldNext
    <3> QED BY <1>0, <3>1, <3>2 DEF FilesInv, DescInv, KeepsFd
  <2>8. ReqsInv'
    <3>1. reqs' \in [Requests -> ReqRecord]
      BY <1>0, <2>2, <2>4 DEF DescInv, ReqsInv
    <3>2. ASSUME NEW s \in Requests, CarriesFd(reqs'[s])
          PROVE  HeldUnder(reqs[s].fd, reqs[s].serial)'
      <4>1. CASE s = r
        BY <2>3, <2>4, <2>6, <4>1 DEF HeldUnder, HeldNext
      <4>2. CASE s # r
        <5>1. reqs'[s] = reqs[s] /\ CarriesFd(reqs[s])
          BY <2>6, <3>2, <4>2
        <5>2. \E m \in Numbers, i \in Serials :
                reqs[s].fd = m /\ reqs[s].serial = i /\ HeldUnder(m, i)
          BY <1>0, <5>1, ReqFacts
        <5> QED BY <2>3, <5>1, <5>2 DEF HeldUnder, HeldNext
      <4> QED BY <4>1, <4>2
    <3>3. \A s \in Requests : ReqOK(reqs[s])'
      BY <1>0, <2>5, <2>6, ReqFacts DEF ReqOK
    <3> QED BY <3>1, <3>2, <3>3 DEF ReqsInv, CarriesFd
  <2>9. HoldersInv'
    <3>1. \A s, w \in Requests :
            CarriesFd(reqs'[s]) /\ CarriesFd(reqs'[w]) /\ reqs'[s].serial = reqs'[w].serial => s = w
      BY <1>0, <2>3, <2>4, <2>6 DEF DescInv, HoldersInv
    <3>2. \A f \in Files, s \in Requests :
            KeepsFd(files[f]) /\ CarriesFd(reqs'[s]) => files[f].serial # reqs'[s].serial
      BY <1>0, <2>3, <2>4, <2>6 DEF DescInv, HoldersInv
    <3>3. \A s \in Requests : CarriesFd(reqs'[s]) => reqs'[s].serial \notin leaked'
      BY <1>0, <2>3, <2>4, <2>6 DEF DescInv, HoldersInv
    <3>4. ASSUME NEW m \in Numbers, fdTable'[m] # 0
          PROVE  \/ fdTable'[m] \in leaked'
                 \/ \E f \in Files :
                      KeepsFd(files[f]) /\ files[f].fd = m /\ files[f].serial = fdTable'[m]
                 \/ \E s \in Requests :
                      CarriesFd(reqs'[s]) /\ reqs'[s].fd = m /\ reqs'[s].serial = fdTable'[m]
      <4>1. CASE m = n
        BY <2>3, <2>4, <2>5, <2>6, <4>1
      <4>2. CASE m # n
        <5>1. \/ fdTable[m] \in leaked
              \/ \E f \in Files :
                   KeepsFd(files[f]) /\ files[f].fd = m /\ files[f].serial = fdTable[m]
              \/ \E s \in Requests :
                   CarriesFd(reqs[s]) /\ reqs[s].fd = m /\ reqs[s].serial = fdTable[m]
          BY <1>0, <2>3, <3>4, <4>2 DEF DescInv, HoldersInv
        <5> QED BY <1>0, <2>3, <2>6, <4>2, <5>1
      <4> QED BY <4>1, <4>2
    <3> QED BY <1>0, <3>1, <3>2, <3>3, <3>4 DEF DescInv, HoldersInv, KeepsFd, CarriesFd
  <2>10. IntactInv'
    BY <1>0, <2>5, <2>6 DEF DescInv, IntactInv, OnItsWay, KeepsFd
  <2>11. NumberedInv'
    BY <1>0, <2>5, <2>6 DEF DescInv, NumberedInv, ByNumber
  <2>12. PathInv'
    BY <1>0, <2>2, <2>4, PathFrameOne DEF IsDue
  <2> QED BY <2>3, <2>7, <2>8, <2>9, <2>10, <2>11, <2>12 DEF FsIInv, DescInv
<1> QED BY <1>1, <1>2 DEF FsWorkOpen

LEMMA OpenFileFields ==
  ASSUME NEW n \in Numbers \union {ClosedFd}, NEW id \in Serials
  PROVE  /\ OpenFile(n, id) \in FileRecord /\ OpenFile(n, id).obj = "alive"
         /\ OpenFile(n, id).fd = n /\ OpenFile(n, id).serial = id /\ OpenFile(n, id).touched = 0
<1>1. NoFile \in FileRecord /\ NoFile.touched = 0
  BY NumberFacts DEF NoFile, FileRecord
<1> QED BY <1>1 DEF OpenFile, FileRecord

(* Files as they are after f has got the number n for the new file id.  *)
LEMMA NewFile ==
  ASSUME DescInv, NEW f \in Files, files[f].obj = "none", NEW n \in Numbers, NEW id \in Serials,
         HeldNext(n, id), astray' = astray,
         \A m \in Numbers : \A i \in Serials : HeldUnder(m, i) => HeldNext(m, i),
         \A h \in Files : KeepsFd(files[h]) => files[h].serial # id,
         files' = [files EXCEPT ![f] = OpenFile(n, id)]
  PROVE  /\ FilesInv'
         /\ KeepsFd(files'[f]) /\ files'[f].fd = n /\ files'[f].serial = id
         /\ ~KeepsFd(files[f])
         /\ \A h \in Files : h # f => files'[h] = files[h]
<1> DEFINE g == OpenFile(n, id)
<1>1. g \in FileRecord /\ g.obj = "alive" /\ g.fd = n /\ g.serial = id /\ g.touched = 0
  BY OpenFileFields
<1> HIDE DEF g
<1>2. KeepsFd(g)
  BY <1>1, NumberFacts DEF KeepsFd
<1>3. files'[f] = g /\ \A h \in Files : h # f => files'[h] = files[h]
  BY DEF DescInv, FilesInv, g
<1>4. files' \in [Files -> FileRecord]
  BY <1>1 DEF DescInv, FilesInv, g
<1>5. \A h \in Files : FileOK(files[h])'
  BY <1>1, <1>3, FileFacts DEF FileOK
<1>6. ASSUME NEW h \in Files, KeepsFd(files'[h]) PROVE HeldUnder(files[h].fd, files[h].serial)'
  <2>1. CASE h = f
    BY <1>1, <1>3, <2>1 DEF HeldUnder, HeldNext
  <2>2. CASE h # f
    <3>1. files'[h] = files[h] /\ KeepsFd(files[h])
      BY <1>3, <1>6, <2>2
    <3>2. \E m \in Numbers, i \in Serials :
            files[h].fd = m /\ files[h].serial = i /\ HeldUnder(m, i)
      BY <3>1, FileFacts
    <3> QED BY <3>1, <3>2 DEF HeldUnder, HeldNext
  <2> QED BY <2>1, <2>2
<1>7. ~KeepsFd(files[f])
  BY DEF KeepsFd
<1> QED BY <1>1, <1>2, <1>3, <1>4, <1>5, <1>6, <1>7 DEF FilesInv, KeepsFd

(* The requests as they are after a step that leaves them alone.  *)
LEMMA HeldRequests ==
  ASSUME DescInv, reqs' = reqs, astray' = astray,
         \A m \in Numbers : \A i \in Serials : HeldUnder(m, i) => HeldNext(m, i)
  PROVE  ReqsInv'
<1>1. ASSUME NEW s \in Requests, CarriesFd(reqs[s]) PROVE HeldUnder(reqs[s].fd, reqs[s].serial)'
  <2>1. \E m \in Numbers, i \in Serials :
          reqs[s].fd = m /\ reqs[s].serial = i /\ HeldUnder(m, i)
    BY <1>1, ReqFacts
  <2> QED BY <2>1 DEF HeldUnder, HeldNext
<1>2. \A s \in Requests : ReqOK(reqs[s])'
  BY ReqFacts DEF ReqOK
<1> QED BY <1>1, <1>2 DEF DescInv, ReqsInv, CarriesFd

LEMMA FsSyncOpenKeeps ==
  ASSUME FsIInv, NEW f \in Files, FsSyncOpen(f), UNCHANGED pathVars
  PROVE  FsIInv'
<1> DEFINE n == LowestFree
           id == opens + 1
<1>1. DescInv /\ n \in Numbers /\ fdTable[n] = 0 /\ UNCHANGED <<reqs, numbered, astray>>
  BY LowestFreeIsFree DEF FsSyncOpen, FsIInv
<1>2. /\ files[f].obj = "none" /\ opens < MaxOpens /\ opens' = id
      /\ fdTable' = [fdTable EXCEPT ![n] = id]
      /\ \/ files' = [files EXCEPT ![f] = OpenFile(n, id)] /\ leaked' = leaked
         \/ leaked' = leaked \union {id} /\ files' = files
  BY DEF FsSyncOpen
<1> HIDE DEF n
<1>3. /\ SerialsInv' /\ id \in Serials /\ id # 0 /\ id \notin leaked
      /\ fdTable'[n] = id
      /\ \A m \in Numbers : m # n => fdTable'[m] = fdTable[m] /\ fdTable'[m] # id
      /\ \A h \in Files : KeepsFd(files[h]) => files[h].serial # id
      /\ \A s \in Requests : CarriesFd(reqs[s]) => reqs[s].serial # id
      /\ HeldNext(n, id)
      /\ \A m \in Numbers : \A i \in Serials : HeldUnder(m, i) => HeldNext(m, i)
  BY <1>1, <1>2, OpenedTable
<1> HIDE DEF id
<1>4. ReqsInv'
  BY <1>1, <1>3, HeldRequests
<1>5. NumberedInv'
  BY <1>1 DEF DescInv, NumberedInv, ByNumber
<1>6. PathInv'
  BY <1>1, PathFrame DEF FsIInv, IsDue
<1>7. CASE files' = [files EXCEPT ![f] = OpenFile(n, id)] /\ leaked' = leaked
  <2>1. /\ FilesInv'
        /\ KeepsFd(files'[f]) /\ files'[f].fd = n /\ files'[f].serial = id
        /\ ~KeepsFd(files[f])
        /\ \A h \in Files : h # f => files'[h] = files[h]
    BY <1>1, <1>2, <1>3, <1>7, NewFile, ZenonT(60)
  <2>2. HoldersInv'
    <3>1. \A h, k \in Files :
            KeepsFd(files'[h]) /\ KeepsFd(files'[k]) /\ files'[h].serial = files'[k].serial => h = k
      BY <1>1, <1>3, <2>1 DEF DescInv, HoldersInv
    <3>2. \A h \in Files, s \in Requests :
            KeepsFd(files'[h]) /\ CarriesFd(reqs[s]) => files'[h].serial # reqs[s].serial
      BY <1>1, <1>3, <2>1 DEF DescInv, HoldersInv
    <3>3. \A h \in Files : KeepsFd(files'[h]) => files'[h].serial \notin leaked'
      BY <1>1, <1>3, <1>7, <2>1 DEF DescInv, HoldersInv
    <3>4. ASSUME NEW m \in Numbers, fdTable'[m] # 0
          PROVE  \/ fdTable'[m] \in leaked'
                 \/ \E h \in Files :
                      KeepsFd(files'[h]) /\ files'[h].fd = m /\ files'[h].serial = fdTable'[m]
                 \/ \E s \in Requests :
                      CarriesFd(reqs[s]) /\ reqs[s].fd = m /\ reqs[s].serial = fdTable'[m]
      <4>1. CASE m = n
        BY <1>3, <2>1, <4>1
      <4>2. CASE m # n
        <5>1. \/ fdTable[m] \in leaked
              \/ \E h \in Files :
                   KeepsFd(files[h]) /\ files[h].fd = m /\ files[h].serial = fdTable[m]
              \/ \E s \in Requests :
                   CarriesFd(reqs[s]) /\ reqs[s].fd = m /\ reqs[s].serial = fdTable[m]
          BY <1>1, <1>3, <3>4, <4>2 DEF DescInv, HoldersInv
        <5> QED BY <1>3, <1>7, <2>1, <4>2, <5>1
      <4> QED BY <4>1, <4>2
    <3> QED BY <1>1, <1>7, <3>1, <3>2, <3>3, <3>4 DEF DescInv, HoldersInv, KeepsFd, CarriesFd
  <2>3. IntactInv'
    <3>1. ASSUME NEW s \in Requests, OnItsWay(reqs[s])
          PROVE  /\ KeepsFd(files'[reqs[s].file])
                 /\ files'[reqs[s].file].fd = reqs[s].fd
                 /\ files'[reqs[s].file].serial = reqs[s].serial
      <4>1. reqs[s].file \in Files
        BY <1>1, <3>1, ReqFacts DEF ReqOK, OnItsWay
      <4> QED BY <1>1, <2>1, <3>1, <4>1 DEF DescInv, IntactInv
    <3> QED BY <1>1, <3>1 DEF IntactInv, OnItsWay, KeepsFd
  <2> QED BY <1>3, <1>4, <1>5, <1>6, <2>1, <2>2, <2>3 DEF FsIInv, DescInv
<1>8. CASE leaked' = leaked \union {id} /\ files' = files
  <2>1. FilesInv'
    <3>1. \A h \in Files : FileOK(files[h])'
      BY <1>1, <1>8, FileFacts DEF FileOK
    <3>2. ASSUME NEW h \in Files, KeepsFd(files[h]) PROVE HeldUnder(files[h].fd, files[h].serial)'
      <4>1. \E m \in Numbers, i \in Serials :
              files[h].fd = m /\ files[h].serial = i /\ HeldUnder(m, i)
        BY <1>1, <3>2, FileFacts
      <4> QED BY <1>3, <1>8, <4>1 DEF HeldUnder, HeldNext
    <3> QED BY <1>1, <1>8, <3>1, <3>2 DEF FilesInv, DescInv, KeepsFd
  <2>2. HoldersInv'
    <3>1. ASSUME NEW m \in Numbers, fdTable'[m] # 0
          PROVE  \/ fdTable'[m] \in leaked'
                 \/ \E h \in Files :
                      KeepsFd(files[h]) /\ files[h].fd = m /\ files[h].serial = fdTable'[m]
                 \/ \E s \in Requests :
                      CarriesFd(reqs[s]) /\ reqs[s].fd = m /\ reqs[s].serial = fdTable'[m]
      <4>1. CASE m = n
        BY <1>3, <1>8, <4>1
      <4>2. CASE m # n
        BY <1>1, <1>3, <1>8, <3>1, <4>2 DEF DescInv, HoldersInv
      <4> QED BY <4>1, <4>2
    <3> QED BY <1>1, <1>3, <1>8, <3>1 DEF DescInv, HoldersInv, KeepsFd, CarriesFd
  <2>3. IntactInv'
    BY <1>1, <1>8 DEF DescInv, IntactInv, OnItsWay, KeepsFd
  <2> QED BY <1>3, <1>4, <1>5, <1>6, <2>1, <2>2, <2>3 DEF FsIInv, DescInv
<1> QED BY <1>2, <1>7, <1>8

LEMMA FsWorkFdKeeps ==
  ASSUME FsIInv, NEW r \in Requests, FsWorkFd(r), UNCHANGED pathVars, UNCHANGED ownVars
  PROVE  FsIInv'
<1>0. /\ reqs[r] \in ReqRecord /\ ReqOK(reqs[r]) /\ DescInv
      /\ reqs[r].op = "fd" /\ reqs[r].state = "queued" /\ UNCHANGED <<files, fdTable, opens>>
  BY ReqFacts DEF FsWorkFd, FsIInv
<1> PICK ok \in BOOLEAN :
      reqs' = [reqs EXCEPT ![r].state = "done",
                           ![r].result = IF ok THEN fdTable[reqs[r].fd] ELSE 0]
  BY DEF FsWorkFd
<1> DEFINE v == IF ok THEN fdTable[reqs[r].fd] ELSE 0
           q == [reqs[r] EXCEPT !.state = "done", !.result = v]
<1>1. reqs[r].fd \in Numbers /\ reqs[r].promise = "pending"
      /\ (reqs[r].intact => reqs[r].file \in Files)
  BY <1>0 DEF ReqOK
<1>2. v \in Nat
  BY <1>0, <1>1, NumberFacts DEF DescInv, SerialsInv
<1>3. reqs[r].intact => v \in {0, reqs[r].serial} \/ reqs[r].serial \in astray
  <2>1. ASSUME reqs[r].intact PROVE HeldUnder(reqs[r].fd, reqs[r].serial)
    <3>1. /\ KeepsFd(files[reqs[r].file]) /\ files[reqs[r].file].fd = reqs[r].fd
          /\ files[reqs[r].file].serial = reqs[r].serial
      BY <1>0, <2>1 DEF DescInv, IntactInv, OnItsWay
    <3> QED BY <1>0, <1>1, <2>1, <3>1, FileFacts
  <2> QED BY <2>1 DEF HeldUnder, HeldNext
<1>4. reqs' = [reqs EXCEPT ![r] = q]
  OBVIOUS
<1> HIDE DEF v
<1>5. /\ q \in ReqRecord /\ q.op = "fd" /\ q.state = "done" /\ q.result = v
      /\ q.promise = "pending" /\ q.fd = reqs[r].fd /\ q.serial = reqs[r].serial
      /\ q.file = reqs[r].file /\ q.intact = reqs[r].intact
  BY <1>0, <1>1, <1>2 DEF ReqRecord
<1> HIDE DEF q
<1>6. ReqOK(q) /\ ~CarriesFd(q) /\ ~OnItsWay(q) /\ ~ByNumber(q)
  BY <1>1, <1>3, <1>5 DEF ReqOK, CarriesFd, OnItsWay, ByNumber, PathOps
<1>7. ~CarriesFd(reqs[r])
  BY <1>0 DEF CarriesFd
<1>8. DescInv'
  BY <1>0, <1>4, <1>6, <1>7, OwnFrame, PlainRequest
<1>9. PathInv'
  BY <1>0, <1>4, <1>5, PathFrameOne DEF IsDue
<1> QED BY <1>8, <1>9 DEF FsIInv

LEMMA FsWorkHostKeeps ==
  ASSUME FsIInv, NEW r \in Requests, FsWorkHost(r), UNCHANGED pathVars, UNCHANGED ownVars
  PROVE  FsIInv'
<1>0. /\ reqs[r] \in ReqRecord /\ ReqOK(reqs[r]) /\ DescInv /\ reqs[r].promise = "pending"
      /\ reqs[r].op = "host" /\ reqs[r].state = "queued" /\ UNCHANGED <<files, fdTable, opens>>
  BY ReqFacts DEF FsWorkHost, FsIInv, ReqOK
<1> PICK found \in 0..1 :
      reqs' = [reqs EXCEPT ![r].state = "done", ![r].result = found]
  BY DEF FsWorkHost
<1> DEFINE q == [reqs[r] EXCEPT !.state = "done", !.result = found]
<1>1. reqs' = [reqs EXCEPT ![r] = q]
  OBVIOUS
<1>2. q \in ReqRecord /\ q.op = "host" /\ q.state = "done" /\ q.promise = "pending"
  <2>1. found \in Nat
    OBVIOUS
  <2> QED BY <1>0, <2>1 DEF ReqRecord
<1> HIDE DEF q
<1>3. ReqOK(q) /\ ~CarriesFd(q) /\ ~OnItsWay(q) /\ ~ByNumber(q) /\ ~CarriesFd(reqs[r])
  BY <1>0, <1>2 DEF ReqOK, CarriesFd, OnItsWay, ByNumber, PathOps
<1>4. DescInv'
  BY <1>0, <1>1, <1>3, OwnFrame, PlainRequest
<1>5. PathInv'
  BY <1>0, <1>1, <1>2, PathFrameOne DEF IsDue
<1> QED BY <1>4, <1>5 DEF FsIInv

LEMMA SettledFields ==
  ASSUME NEW q, q.promise = "pending"
  PROVE  ReqOK(Settled(q)) /\ Settled(q).op = "none"
         /\ Settled(q).state = "free" /\ Settled(q).result = 0
<1> DEFINE p == Settled(q)
<1>1. /\ p \in ReqRecord /\ p.op = "none" /\ p.state = "free" /\ p.promise = "settled"
      /\ p.result = 0
  BY NoReqFields DEF Settled, ReqRecord
<1> HIDE DEF p
<1>2. ReqOK(p)
  BY <1>1 DEF ReqOK, PathOps
<1> QED BY <1>1, <1>2 DEF p

LEMMA GetAddrInfoCbKeeps ==
  ASSUME FsIInv, NEW r \in Requests, GetAddrInfoCb(r), UNCHANGED pathVars, UNCHANGED ownVars
  PROVE  FsIInv'
<1>0. /\ ReqOK(reqs[r]) /\ DescInv /\ reqs[r].promise = "pending"
      /\ reqs[r].op = "host" /\ reqs[r].state = "done" /\ UNCHANGED <<files, fdTable, opens>>
  BY ReqFacts DEF GetAddrInfoCb, FsIInv, ReqOK
<1> DEFINE q == Settled(reqs[r])
<1>1. reqs' = [reqs EXCEPT ![r] = q]
  BY DEF GetAddrInfoCb
<1>2. ReqOK(q) /\ q.op = "none" /\ q.state = "free"
  BY <1>0, SettledFields
<1> HIDE DEF q
<1>3. ~CarriesFd(q) /\ ~OnItsWay(q) /\ ~ByNumber(q) /\ ~CarriesFd(reqs[r])
  BY <1>0, <1>2 DEF CarriesFd, OnItsWay, ByNumber
<1>4. DescInv'
  BY <1>0, <1>1, <1>2, <1>3, OwnFrame, PlainRequest
<1>5. PathInv'
  BY <1>0, <1>1, <1>2, PathFrameOne DEF IsDue
<1> QED BY <1>4, <1>5 DEF FsIInv

LEMMA FsSyncFdKeeps ==
  ASSUME FsIInv, NEW f \in Files, FsSyncFd(f), UNCHANGED pathVars, UNCHANGED ownVars
  PROVE  FsIInv'
<1>0. /\ files[f] \in FileRecord /\ FileOK(files[f]) /\ DescInv /\ KeepsFd(files[f])
      /\ files[f].fd \in Numbers /\ HeldUnder(files[f].fd, files[f].serial)
      /\ UNCHANGED <<reqs, fdTable, opens>> /\ UNCHANGED <<astray, leaked, numbered>>
  BY FileFacts DEF FsSyncFd, KeepsFd, FsIInv, FileOK, ownVars
<1> DEFINE v == fdTable[files[f].fd]
           g == [files[f] EXCEPT !.touched = v]
<1>1. files' = [files EXCEPT ![f] = g]
  BY <1>0 DEF FsSyncFd
<1>2. v \in Serials /\ (v = files[f].serial \/ files[f].serial \in astray)
  BY <1>0 DEF HeldUnder, HeldNext, DescInv, SerialsInv
<1> HIDE DEF v
<1>3. /\ g \in FileRecord /\ g.obj = files[f].obj /\ g.fd = files[f].fd
      /\ g.serial = files[f].serial /\ g.touched = v
  BY <1>0, <1>2 DEF FileRecord
<1> HIDE DEF g
<1>4. files'[f] = g /\ \A h \in Files : h # f => files'[h] = files[h]
  BY <1>0, <1>1 DEF DescInv, FilesInv
<1>5. \A h \in Files : /\ KeepsFd(files'[h]) <=> KeepsFd(files[h])
                       /\ files'[h].fd = files[h].fd /\ files'[h].serial = files[h].serial
  BY <1>3, <1>4 DEF KeepsFd
<1>6. FilesInv'
  <2>1. files' \in [Files -> FileRecord]
    BY <1>0, <1>1, <1>3 DEF DescInv, FilesInv
  <2>2. \A h \in Files :
          files'[h].touched \in {0, files'[h].serial} \/ files'[h].serial \in astray
    BY <1>0, <1>2, <1>3, <1>4, FileFacts DEF FileOK
  <2>3. \A h \in Files : FileOK(files[h])'
    BY <1>0, <2>1, <2>2 DEF FileOK
  <2>4. \A h \in Files : KeepsFd(files'[h]) => HeldUnder(files[h].fd, files[h].serial)'
    BY <1>0, <1>5, FileFacts DEF HeldUnder, HeldNext
  <2> QED BY <2>1, <2>3, <2>4 DEF FilesInv, KeepsFd
<1>7. ReqsInv' /\ SerialsInv' /\ NumberedInv'
  BY <1>0 DEF DescInv, ReqsInv, SerialsInv, ReqOK, CarriesFd, HeldUnder, HeldNext, NumberedInv, ByNumber
<1>8. HoldersInv'
  <2>1. \A h, k \in Files :
          KeepsFd(files'[h]) /\ KeepsFd(files'[k]) /\ files'[h].serial = files'[k].serial => h = k
    BY <1>0, <1>5 DEF DescInv, HoldersInv
  <2>2. \A h \in Files, s \in Requests :
          KeepsFd(files'[h]) /\ CarriesFd(reqs[s]) => files'[h].serial # reqs[s].serial
    BY <1>0, <1>5 DEF DescInv, HoldersInv
  <2>3. \A m \in Numbers : fdTable[m] # 0 =>
           \/ fdTable[m] \in leaked
           \/ \E h \in Files :
                KeepsFd(files'[h]) /\ files'[h].fd = m /\ files'[h].serial = fdTable[m]
           \/ \E s \in Requests :
                CarriesFd(reqs[s]) /\ reqs[s].fd = m /\ reqs[s].serial = fdTable[m]
    BY <1>0, <1>5 DEF DescInv, HoldersInv
  <2>4. \A h \in Files : KeepsFd(files'[h]) => files'[h].serial \notin leaked
    BY <1>0, <1>5 DEF DescInv, HoldersInv
  <2> QED BY <1>0, <2>1, <2>2, <2>3, <2>4 DEF DescInv, HoldersInv, KeepsFd, CarriesFd
<1>9. IntactInv'
  <2>1. ASSUME NEW s \in Requests, OnItsWay(reqs[s])
        PROVE  /\ KeepsFd(files'[reqs[s].file])
               /\ files'[reqs[s].file].fd = reqs[s].fd
               /\ files'[reqs[s].file].serial = reqs[s].serial
    <3>1. reqs[s].file \in Files
      BY <1>0, <2>1, ReqFacts DEF ReqOK, OnItsWay
    <3> QED BY <1>0, <1>5, <2>1, <3>1 DEF DescInv, IntactInv
  <2> QED BY <1>0, <2>1 DEF IntactInv, OnItsWay, KeepsFd
<1>10. PathInv'
  BY <1>0, PathFrame DEF FsIInv, IsDue
<1> QED BY <1>6, <1>7, <1>8, <1>9, <1>10 DEF FsIInv, DescInv

(* Two sets that differ in one element at most.  *)
LEMMA DifferInOne ==
  ASSUME NEW D, NEW E, NEW r, IsFiniteSet(D), IsFiniteSet(E), D \ {r} = E \ {r}
  PROVE  /\ Cardinality(D) \in Nat /\ Cardinality(E) \in Nat
         /\ Cardinality(E) = Cardinality(D) + One(r \in E) - One(r \in D)
<1> DEFINE d == Cardinality(D)
           e == Cardinality(E)
           k == Cardinality(D \ {r})
           l == Cardinality(E \ {r})
<1>1. d \in Nat /\ e \in Nat
  BY FS_CardinalityType
<1>2. k = l
  OBVIOUS
<1>3. /\ k = IF r \in D THEN d - 1 ELSE d
      /\ l = IF r \in E THEN e - 1 ELSE e
  BY FS_RemoveElement
<1> HIDE DEF d, e, k, l
<1>4. CASE r \in D /\ r \in E
  BY <1>1, <1>2, <1>3, <1>4 DEF One, d, e
<1>5. CASE r \in D /\ r \notin E
  <2>1. e = d - 1
    BY <1>2, <1>3, <1>5
  <2>2. One(r \in E) = 0 /\ One(r \in D) = 1
    BY <1>5 DEF One
  <2>3. e = d + 0 - 1
    BY <1>1, <2>1
  <2> QED BY <1>1, <2>2, <2>3 DEF d, e
<1>6. CASE r \notin D /\ r \in E
  <2>1. d = e - 1
    BY <1>2, <1>3, <1>6
  <2>2. One(r \in E) = 1 /\ One(r \in D) = 0
    BY <1>6 DEF One
  <2>3. e = d + 1 - 0
    BY <1>1, <2>1
  <2> QED BY <1>1, <2>2, <2>3 DEF d, e
<1>7. CASE r \notin D /\ r \notin E
  BY <1>1, <1>2, <1>3, <1>7 DEF One, d, e
<1> QED BY <1>4, <1>5, <1>6, <1>7

(* One request changes: how many calls are still to be told.  *)
LEMMA DueCount ==
  ASSUME DescInv, NEW r \in Requests, NEW q, reqs' = [reqs EXCEPT ![r] = q], NEW op
  PROVE  /\ Cardinality(Due(op)) \in Nat /\ Cardinality(Due(op)') \in Nat
         /\ Cardinality(Due(op)') = Cardinality(Due(op)) + One(IsDue(q, op))
                                      - One(IsDue(reqs[r], op))
<1> DEFINE D == Due(op)
           E == Due(op)'
<1>1. reqs'[r] = q /\ \A s \in Requests : s # r => reqs'[s] = reqs[s]
  BY DEF DescInv, ReqsInv
<1>2. /\ D = {s \in Requests : IsDue(reqs[s], op)}
      /\ E = {s \in Requests : IsDue(reqs'[s], op)}
  BY DEF Due, IsDue
<1>3. /\ r \in D <=> IsDue(reqs[r], op)
      /\ r \in E <=> IsDue(q, op)
      /\ D \ {r} = E \ {r}
  BY <1>1, <1>2
<1>4. D \subseteq Requests /\ E \subseteq Requests
  BY <1>2
<1> HIDE DEF D, E
<1>5. IsFiniteSet(D) /\ IsFiniteSet(E)
  BY <1>4, FsAssumption, FS_Subset
<1>6. /\ Cardinality(D) \in Nat /\ Cardinality(E) \in Nat
      /\ Cardinality(E) = Cardinality(D) + One(r \in E) - One(r \in D)
  BY <1>3, <1>5, DifferInOne
<1>7. One(r \in E) = One(IsDue(q, op)) /\ One(r \in D) = One(IsDue(reqs[r], op))
  BY <1>3 DEF One
<1> QED BY <1>6, <1>7 DEF D, E

(* The path, when a call is made or told of: b and c say whether the request  *)
(* counts before and after.                                                  *)
LEMMA PathStep ==
  ASSUME FsIInv, NEW r \in Requests, NEW q, reqs' = [reqs EXCEPT ![r] = q],
         made' \in BOOLEAN, told' \in Int,
         told' + One(IsDue(q, "make")) - One(IsDue(reqs[r], "make"))
               - One(IsDue(q, "remove")) + One(IsDue(reqs[r], "remove"))
           - One(made') = told - One(made)
  PROVE  PathInv'
<1> DEFINE dm == Cardinality(Due("make"))
           dr == Cardinality(Due("remove"))
           em == Cardinality(Due("make")')
           er == Cardinality(Due("remove")')
           a == One(IsDue(q, "make"))
           b == One(IsDue(reqs[r], "make"))
           c == One(IsDue(q, "remove"))
           d == One(IsDue(reqs[r], "remove"))
<1>1. dm \in Nat /\ em \in Nat /\ em = dm + a - b
  BY DueCount DEF FsIInv
<1>2. dr \in Nat /\ er \in Nat /\ er = dr + c - d
  BY DueCount DEF FsIInv
<1>3. told + dm - dr = One(made) /\ told \in Int /\ made \in BOOLEAN
  BY DEF FsIInv, PathInv, PathReportsTruth, One
<1>4. One(made) \in Int /\ One(made') \in Int
  BY DEF One
<1>5. a \in Int /\ b \in Int /\ c \in Int /\ d \in Int
  BY DEF One
<1>6. told' + a - b - c + d - One(made') = told - One(made)
  OBVIOUS
<1> HIDE DEF dm, dr, em, er, a, b, c, d
<1>7. told' + em - er = One(made')
  BY <1>1, <1>2, <1>3, <1>4, <1>5, <1>6
<1>8. told' + Cardinality(Due("make")') - Cardinality(Due("remove")') = One(made')
  BY <1>7 DEF em, er
<1> QED BY <1>8 DEF PathInv, PathReportsTruth, One

LEMMA FsWorkPathKeeps ==
  ASSUME FsIInv, NEW r \in Requests, FsWorkPath(r), UNCHANGED ownVars
  PROVE  FsIInv'
<1>0. /\ reqs[r] \in ReqRecord /\ ReqOK(reqs[r]) /\ DescInv /\ reqs[r].promise = "pending"
      /\ reqs[r].op \in PathOps /\ reqs[r].state = "queued"
      /\ UNCHANGED <<files, fdTable, opens, told>>
  BY ReqFacts DEF FsWorkPath, FsIInv, ReqOK
<1> DEFINE v == IF Works(reqs[r].op) THEN 1 ELSE 0
           q == [reqs[r] EXCEPT !.state = "done", !.result = v]
<1>1. reqs' = [reqs EXCEPT ![r] = q] /\ made' = MadeBy(reqs[r].op)
  BY DEF FsWorkPath
<1>2. v \in {0, 1} /\ v \in Nat /\ (v = 1 <=> Works(reqs[r].op))
  OBVIOUS
<1> HIDE DEF v
<1>3. /\ q \in ReqRecord /\ q.op = reqs[r].op /\ q.state = "done" /\ q.promise = "pending"
      /\ q.result = v
  BY <1>0, <1>2 DEF ReqRecord
<1> HIDE DEF q
<1>4. ReqOK(q) /\ ~CarriesFd(q) /\ ~OnItsWay(q) /\ ~ByNumber(q) /\ ~CarriesFd(reqs[r])
  BY <1>0, <1>2, <1>3 DEF ReqOK, CarriesFd, OnItsWay, ByNumber, PathOps
<1>5. DescInv'
  BY <1>0, <1>1, <1>4, OwnFrame, PlainRequest
<1>6. PathInv'
  <2>1. made \in BOOLEAN /\ told \in Int
    BY DEF FsIInv, PathInv
  <2>2. made' \in BOOLEAN
    BY <1>1, <2>1 DEF MadeBy
  <2>3. ~IsDue(reqs[r], "make") /\ ~IsDue(reqs[r], "remove")
    BY <1>0 DEF IsDue
  <2>4. /\ IsDue(q, "make") <=> reqs[r].op = "make" /\ ~made
        /\ IsDue(q, "remove") <=> reqs[r].op = "remove" /\ made
    BY <1>2, <1>3, <2>1 DEF IsDue, Works
  <2>5. One(IsDue(q, "make")) - One(IsDue(q, "remove")) - One(made') = 0 - One(made)
    <3>1. CASE reqs[r].op = "make"
      <4>1. made'
        BY <1>1, <2>1, <3>1 DEF MadeBy, Works
      <4>2. (IsDue(q, "make") <=> ~made) /\ ~IsDue(q, "remove")
        BY <2>4, <3>1
      <4> QED BY <2>1, <4>1, <4>2 DEF One
    <3>2. CASE reqs[r].op = "remove"
      <4>1. ~made'
        BY <1>1, <2>1, <3>2 DEF MadeBy, Works
      <4>2. ~IsDue(q, "make") /\ (IsDue(q, "remove") <=> made)
        BY <2>4, <3>2
      <4> QED BY <2>1, <4>1, <4>2 DEF One
    <3>3. CASE reqs[r].op = "look"
      BY <1>1, <2>1, <2>4, <3>3 DEF MadeBy, Works, One
    <3> QED BY <1>0, <3>1, <3>2, <3>3 DEF PathOps
  <2>6. One(IsDue(reqs[r], "make")) = 0 /\ One(IsDue(reqs[r], "remove")) = 0
    BY <2>3 DEF One
  <2>7. One(IsDue(q, "make")) \in Int /\ One(IsDue(q, "remove")) \in Int
        /\ One(made') \in Int /\ One(made) \in Int
    BY DEF One
  <2>8. told' + One(IsDue(q, "make")) - One(IsDue(reqs[r], "make"))
              - One(IsDue(q, "remove")) + One(IsDue(reqs[r], "remove"))
          - One(made') = told - One(made)
    BY <1>0, <2>1, <2>5, <2>6, <2>7
  <2> QED BY <1>0, <1>1, <2>1, <2>2, <2>8, PathStep
<1> QED BY <1>5, <1>6 DEF FsIInv

LEMMA DescFrame ==
  ASSUME DescInv, UNCHANGED <<files, reqs, fdTable, opens>>, UNCHANGED ownVars
  PROVE  DescInv'
<1>1. UNCHANGED <<astray, leaked, numbered>>
  BY DEF ownVars
<1>2. FilesInv' /\ SerialsInv' /\ IntactInv' /\ HoldersInv'
  BY <1>1 DEF DescInv, FilesInv, SerialsInv, HoldersInv, IntactInv, FileOK, KeepsFd, CarriesFd,
              OnItsWay, HeldUnder
<1>3. ReqsInv' /\ NumberedInv'
  BY <1>1 DEF DescInv, ReqsInv, ReqOK, CarriesFd, HeldUnder, HeldNext, NumberedInv, ByNumber
<1> QED BY <1>2, <1>3 DEF DescInv

LEMMA FsSyncPathKeeps ==
  ASSUME FsIInv, FsSyncPath, UNCHANGED ownVars
  PROVE  FsIInv'
<1> PICK op \in PathOps \ {"look"} :
      /\ Works(op) /\ made' = MadeBy(op) /\ told' = told + Told(op)
      /\ UNCHANGED <<files, reqs, fdTable, opens>>
  BY DEF FsSyncPath
<1>1. DescInv'
  BY DescFrame DEF FsIInv
<1>2. Due("make")' = Due("make") /\ Due("remove")' = Due("remove")
  BY DEF Due
<1>3. made \in BOOLEAN /\ told \in Int /\ op \in {"make", "remove"}
  BY DEF FsIInv, PathInv, PathOps
<1>4. made' \in BOOLEAN /\ told' \in Int /\ told' - One(made') = told - One(made)
  <2>1. CASE op = "make"
    <3>1. made' /\ ~made /\ made' \in BOOLEAN
      BY <1>3, <2>1 DEF MadeBy, Works
    <3>2. told' = told + 1
      BY <2>1 DEF Told
    <3> QED BY <1>3, <3>1, <3>2 DEF One
  <2>2. CASE op = "remove"
    <3>1. ~made' /\ made /\ made' \in BOOLEAN
      BY <1>3, <2>2 DEF MadeBy, Works
    <3>2. told' = told + (-1)
      BY <2>2 DEF Told
    <3> QED BY <1>3, <3>1, <3>2 DEF One
  <2> QED BY <1>3, <2>1, <2>2
<1>5. Cardinality(Due("make")) \in Nat /\ Cardinality(Due("remove")) \in Nat
  BY FsAssumption, FS_Subset, FS_CardinalityType DEF Due
<1>6. PathInv'
  <2>1. told + Cardinality(Due("make")) - Cardinality(Due("remove")) = One(made)
    BY DEF FsIInv, PathInv, PathReportsTruth, One
  <2>2. One(made) \in Int /\ One(made') \in Int
    BY DEF One
  <2>3. told' + Cardinality(Due("make")) - Cardinality(Due("remove")) = One(made')
    BY <1>3, <1>4, <1>5, <2>1, <2>2
  <2> QED BY <1>2, <1>4, <2>3 DEF PathInv, PathReportsTruth, One
<1> QED BY <1>1, <1>6 DEF FsIInv

(* The callback: JavaScript is told, and an opened number goes to a new file. *)
LEMMA FsReqCbKeeps ==
  ASSUME FsIInv, NEW r \in Requests, FsReqCb(r)
  PROVE  FsIInv'
<1> DEFINE p == reqs[r]
           q == Settled(p)
<1>0. /\ p \in ReqRecord /\ ReqOK(p) /\ DescInv /\ p.promise = "pending"
      /\ p.state = "done" /\ p.op # "host" /\ UNCHANGED <<fdTable, opens, made, numbered, astray>>
      /\ reqs' = [reqs EXCEPT ![r] = q] /\ told' = told + p.result * Told(p.op)
  BY ReqFacts DEF FsReqCb, FsIInv, ReqOK
<1>1. ReqOK(q) /\ q.op = "none" /\ q.state = "free"
  BY <1>0, SettledFields
<1> HIDE DEF q
<1>2. ~CarriesFd(q) /\ ~OnItsWay(q) /\ ~ByNumber(q) /\ ~IsDue(q, "make") /\ ~IsDue(q, "remove")
  BY <1>1 DEF CarriesFd, OnItsWay, ByNumber, IsDue
<1>3. made \in BOOLEAN /\ told \in Int /\ p.result \in Nat
  BY <1>0 DEF FsIInv, PathInv, ReqRecord
<1>4. PathInv'
  <2>1. /\ told' \in Int
        /\ told' - One(IsDue(p, "make")) + One(IsDue(p, "remove")) = told
    <3>1. CASE p.op = "make"
      <4>1. Told(p.op) = 1 /\ p.result \in {0, 1}
        BY <1>0, <3>1 DEF Told, ReqOK, PathOps
      <4>2. told' = told + p.result
        BY <1>0, <1>3, <4>1
      <4>3. One(IsDue(p, "make")) = p.result /\ One(IsDue(p, "remove")) = 0
        BY <1>0, <3>1, <4>1 DEF One, IsDue
      <4> QED BY <1>3, <4>2, <4>3
    <3>2. CASE p.op = "remove"
      <4>1. Told(p.op) = -1 /\ p.result \in {0, 1}
        BY <1>0, <3>2 DEF Told, ReqOK, PathOps
      <4>2. told' = told - p.result
        BY <1>0, <1>3, <4>1
      <4>3. One(IsDue(p, "make")) = 0 /\ One(IsDue(p, "remove")) = p.result
        BY <1>0, <3>2, <4>1 DEF One, IsDue
      <4> QED BY <1>3, <4>2, <4>3
    <3>3. CASE p.op # "make" /\ p.op # "remove"
      <4>1. Told(p.op) = 0
        BY <3>3 DEF Told
      <4>2. told' = told
        BY <1>0, <1>3, <4>1
      <4>3. One(IsDue(p, "make")) = 0 /\ One(IsDue(p, "remove")) = 0
        BY <3>3 DEF One, IsDue
      <4> QED BY <1>3, <4>2, <4>3
    <3> QED BY <3>1, <3>2, <3>3
  <2>2. One(IsDue(q, "make")) = 0 /\ One(IsDue(q, "remove")) = 0
    BY <1>2 DEF One
  <2>3. One(IsDue(p, "make")) \in Int /\ One(IsDue(p, "remove")) \in Int
        /\ One(made) \in Int /\ One(made') = One(made)
    BY <1>0 DEF One
  <2>4. told' + One(IsDue(q, "make")) - One(IsDue(p, "make"))
              - One(IsDue(q, "remove")) + One(IsDue(p, "remove"))
          - One(made') = told - One(made)
    BY <1>3, <2>1, <2>2, <2>3
  <2> QED BY <1>0, <1>3, <2>1, <2>4, PathStep
<1>5. CASE ~(p.op = "open" /\ p.result # 0)
  <2>1. UNCHANGED <<files, fdTable, opens, astray, leaked>> /\ ~CarriesFd(p)
    BY <1>0, <1>5 DEF FsReqCb, CarriesFd
  <2>2. numbered' \in BOOLEAN /\ (numbered => numbered')
    BY <1>0 DEF DescInv, NumberedInv
  <2> QED BY <1>0, <1>1, <1>2, <1>4, <2>1, <2>2, PlainRequest DEF FsIInv
<1>6. CASE p.op = "open" /\ p.result # 0
  <2> DEFINE n == p.fd
             id == p.serial
  <2>1. CarriesFd(p) /\ n \in Numbers /\ id \in Serials /\ id # 0 /\ HeldUnder(n, id)
    BY <1>0, <1>6, ReqFacts DEF CarriesFd, ReqOK
  <2>2. /\ \A h \in Files : KeepsFd(files[h]) => files[h].serial # id
        /\ \A s \in Requests : s # r /\ CarriesFd(reqs[s]) => reqs[s].serial # id
        /\ id \notin leaked
    BY <1>0, <2>1 DEF DescInv, HoldersInv
  <2>3. \/ \E f \in Files : /\ files[f].obj = "none" /\ leaked' = leaked
                           /\ files' = [files EXCEPT ![f] = OpenFile(n, id)]
        \/ leaked' = leaked \union {id} /\ files' = files
    BY <1>6 DEF FsReqCb
  <2>4. /\ \A m \in Numbers : \A i \in Serials : HeldUnder(m, i) => HeldNext(m, i)
        /\ HeldNext(n, id)
    BY <1>0, <2>1 DEF HeldUnder, HeldNext
  <2>5. reqs'[r] = q /\ \A s \in Requests : s # r => reqs'[s] = reqs[s]
    BY <1>0 DEF DescInv, ReqsInv
  <2>6. \A s \in Requests : CarriesFd(reqs'[s]) <=> CarriesFd(reqs[s]) /\ s # r
    BY <1>2, <2>5
  <2>7. p.fd = n /\ p.serial = id
    OBVIOUS
  <2> HIDE DEF n, id
  <2>8. SerialsInv'
    <3>1. id \in Serials /\ id =< opens
      BY <2>1 DEF HeldUnder, HeldNext
    <3>2. leaked' \subseteq Serials /\ \A i \in leaked' : i =< opens
      BY <1>0, <2>3, <3>1 DEF DescInv, SerialsInv
    <3> QED BY <1>0, <3>2 DEF DescInv, SerialsInv
  <2>9. ReqsInv'
    <3>1. reqs' \in [Requests -> ReqRecord]
      BY <1>0, <1>1 DEF DescInv, ReqsInv, ReqOK
    <3>2. \A s \in Requests : ReqOK(reqs[s])'
      BY <1>0, <1>1, <2>5, ReqFacts DEF ReqOK
    <3>3. \A s \in Requests : CarriesFd(reqs'[s]) => HeldUnder(reqs[s].fd, reqs[s].serial)'
      BY <1>0, <2>5, <2>6, ReqFacts DEF HeldUnder, HeldNext
    <3> QED BY <3>1, <3>2, <3>3 DEF ReqsInv, CarriesFd
  <2>10. NumberedInv'
    BY <1>0, <1>2, <2>5 DEF DescInv, NumberedInv, ByNumber
  <2>11. ASSUME NEW s \in Requests, OnItsWay(reqs'[s])
         PROVE  /\ s # r /\ reqs'[s] = reqs[s] /\ reqs[s].file \in Files
                /\ KeepsFd(files[reqs[s].file])
                /\ files[reqs[s].file].fd = reqs[s].fd /\ files[reqs[s].file].serial = reqs[s].serial
    <3>1. s # r /\ reqs'[s] = reqs[s] /\ OnItsWay(reqs[s])
      BY <1>2, <2>5, <2>11
    <3>2. reqs[s].file \in Files
      BY <1>0, <3>1, ReqFacts DEF ReqOK, OnItsWay
    <3> QED BY <1>0, <3>1, <3>2 DEF DescInv, IntactInv
  <2>12. \A m \in Numbers : fdTable[m] # 0 =>
           \/ fdTable[m] \in leaked
           \/ \E h \in Files :
                KeepsFd(files[h]) /\ files[h].fd = m /\ files[h].serial = fdTable[m]
           \/ \E s \in Requests :
                CarriesFd(reqs'[s]) /\ reqs'[s].fd = m /\ reqs'[s].serial = fdTable[m]
           \/ m = n /\ fdTable[m] = id
    BY <1>0, <2>5, <2>6, <2>7 DEF DescInv, HoldersInv
  <2>13. \A s \in Requests : CarriesFd(reqs'[s]) => reqs'[s].serial # id /\ reqs'[s].serial \notin leaked
    BY <1>0, <2>2, <2>5, <2>6 DEF DescInv, HoldersInv
  <2>14. \A s, w \in Requests :
           CarriesFd(reqs'[s]) /\ CarriesFd(reqs'[w]) /\ reqs'[s].serial = reqs'[w].serial => s = w
    BY <1>0, <2>5, <2>6 DEF DescInv, HoldersInv
  <2>15. CASE leaked' = leaked \union {id} /\ files' = files
    <3>1. FilesInv'
      <4>1. \A h \in Files : FileOK(files[h])'
        BY <1>0, <2>15, FileFacts DEF FileOK
      <4>2. \A h \in Files : KeepsFd(files[h]) => HeldUnder(files[h].fd, files[h].serial)'
        BY <1>0, <2>15, FileFacts DEF HeldUnder, HeldNext
      <4> QED BY <1>0, <2>15, <4>1, <4>2 DEF FilesInv, DescInv, KeepsFd
    <3>2. HoldersInv'
      <4>1. \A h \in Files, s \in Requests :
              KeepsFd(files[h]) /\ CarriesFd(reqs'[s]) => files[h].serial # reqs'[s].serial
        BY <1>0, <2>5, <2>6 DEF DescInv, HoldersInv
      <4>2. \A m \in Numbers : fdTable'[m] # 0 =>
               \/ fdTable'[m] \in leaked'
               \/ \E h \in Files :
                    KeepsFd(files[h]) /\ files[h].fd = m /\ files[h].serial = fdTable'[m]
               \/ \E s \in Requests :
                    CarriesFd(reqs'[s]) /\ reqs'[s].fd = m /\ reqs'[s].serial = fdTable'[m]
        BY <1>0, <2>12, <2>15
      <4>3. \A h \in Files : KeepsFd(files[h]) => files[h].serial \notin leaked'
        BY <1>0, <2>2, <2>15 DEF DescInv, HoldersInv
      <4>4. \A s \in Requests : CarriesFd(reqs'[s]) => reqs'[s].serial \notin leaked'
        BY <2>13, <2>15
      <4>5. \A h, k \in Files :
              KeepsFd(files[h]) /\ KeepsFd(files[k]) /\ files[h].serial = files[k].serial => h = k
        BY <1>0 DEF DescInv, HoldersInv
      <4> QED BY <2>14, <2>15, <4>1, <4>2, <4>3, <4>4, <4>5 DEF HoldersInv, KeepsFd, CarriesFd
    <3>3. IntactInv'
      BY <2>11, <2>15 DEF IntactInv, OnItsWay, KeepsFd
    <3> QED BY <1>4, <2>8, <2>9, <2>10, <3>1, <3>2, <3>3 DEF FsIInv, DescInv
  <2>16. ASSUME NEW f \in Files, files[f].obj = "none", leaked' = leaked,
                files' = [files EXCEPT ![f] = OpenFile(n, id)]
         PROVE  FsIInv'
    <3>1. /\ FilesInv'
          /\ KeepsFd(files'[f]) /\ files'[f].fd = n /\ files'[f].serial = id
          /\ ~KeepsFd(files[f])
          /\ \A h \in Files : h # f => files'[h] = files[h]
      <4>1. DescInv /\ n \in Numbers /\ id \in Serials /\ astray' = astray
        BY <1>0, <2>1
      <4> HIDE DEF p
      <4> QED BY <2>2, <2>4, <2>16, <4>1, NewFile, ZenonT(60)
    <3>2. HoldersInv'
      <4>1. \A h, k \in Files :
              KeepsFd(files'[h]) /\ KeepsFd(files'[k]) /\ files'[h].serial = files'[k].serial => h = k
        BY <1>0, <2>2, <3>1 DEF DescInv, HoldersInv
      <4>2. \A h \in Files, s \in Requests :
              KeepsFd(files'[h]) /\ CarriesFd(reqs'[s]) => files'[h].serial # reqs'[s].serial
        BY <1>0, <2>5, <2>6, <2>13, <3>1 DEF DescInv, HoldersInv
      <4>3. \A h \in Files : KeepsFd(files'[h]) => files'[h].serial \notin leaked'
        BY <1>0, <2>2, <2>16, <3>1 DEF DescInv, HoldersInv
      <4>4. ASSUME NEW m \in Numbers, fdTable'[m] # 0
            PROVE  \/ fdTable'[m] \in leaked'
                   \/ \E h \in Files :
                        KeepsFd(files'[h]) /\ files'[h].fd = m /\ files'[h].serial = fdTable'[m]
                   \/ \E s \in Requests :
                        CarriesFd(reqs'[s]) /\ reqs'[s].fd = m /\ reqs'[s].serial = fdTable'[m]
        <5>1. CASE m = n /\ fdTable[m] = id
          BY <1>0, <3>1, <5>1
        <5>2. CASE ~(m = n /\ fdTable[m] = id)
          BY <1>0, <2>12, <2>16, <3>1, <4>4, <5>2
        <5> QED BY <5>1, <5>2
      <4> QED BY <2>13, <2>14, <2>16, <4>1, <4>2, <4>3, <4>4 DEF HoldersInv, KeepsFd, CarriesFd
    <3>3. IntactInv'
      BY <2>11, <3>1 DEF IntactInv, OnItsWay, KeepsFd
    <3> QED BY <1>4, <2>8, <2>9, <2>10, <3>1, <3>2, <3>3 DEF FsIInv, DescInv
  <2> QED BY <2>3, <2>15, <2>16
<1> QED BY <1>5, <1>6

LEMMA FsInitIInv == FsInit => FsIInv
<1> SUFFICES ASSUME FsInit PROVE FsIInv
  OBVIOUS
<1>1. NoFile \in FileRecord /\ NoFile.obj = "none" /\ NoFile.touched = 0
  BY NumberFacts DEF NoFile, FileRecord
<1>2. \A f \in Files : files[f] = NoFile
  BY DEF FsInit
<1>3. \A r \in Requests : reqs[r] = NoReq
  BY DEF FsInit
<1>4. FilesInv
  BY <1>1, <1>2, NumberFacts DEF FilesInv, FileOK, KeepsFd, FsInit
<1>5. ReqsInv
  BY <1>3, NoReqOK, NoReqFields DEF ReqsInv, FsInit
<1>6. \A n \in Numbers : fdTable[n] = 0
  BY DEF FsInit
<1>7. SerialsInv
  BY <1>6, NumberFacts DEF SerialsInv, FsInit
<1>8. ~KeepsFd(NoFile)
  BY <1>1 DEF KeepsFd
<1>9. HoldersInv /\ IntactInv
  BY <1>2, <1>3, <1>6, <1>8, NoReqOK DEF HoldersInv, IntactInv
<1>10. Due("make") = {} /\ Due("remove") = {}
  BY <1>3, NoReqFields DEF Due
<1>11. NumberedInv
  BY <1>3, NoReqOK DEF NumberedInv, FsInit
<1>12. PathInv
  <2>1. Cardinality(Due("make")) = 0 /\ Cardinality(Due("remove")) = 0
    BY <1>10, FS_EmptySet
  <2>2. made = FALSE /\ told = 0
    BY DEF FsInit
  <2>3. told + Cardinality(Due("make")) - Cardinality(Due("remove")) = 0
    BY <2>1, <2>2
  <2>4. PathReportsTruth
    BY <2>2, <2>3 DEF PathReportsTruth
  <2>5. made \in BOOLEAN
    BY <2>2
  <2>6. told \in Int
    BY <2>2
  <2> QED BY <2>4, <2>5, <2>6 DEF PathInv
<1> QED BY <1>4, <1>5, <1>7, <1>9, <1>11, <1>12 DEF FsIInv, DescInv

LEMMA FsNextKeeps == FsIInv /\ [FsNext]_fsVars => FsIInv'
<1> SUFFICES ASSUME FsIInv, [FsNext]_fsVars PROVE FsIInv'
  OBVIOUS
<1>1. CASE UNCHANGED fsVars
  <2>1. DescInv'
    BY <1>1, DescFrame DEF fsVars, ownVars, FsIInv
  <2>2. PathInv'
    BY <1>1, PathFrame DEF fsVars, pathVars, FsIInv, IsDue
  <2> QED BY <2>1, <2>2 DEF FsIInv
<1>2. ASSUME NEW r \in Requests, UNCHANGED pathVars, UNCHANGED ownVars,
             \/ FsOpOpen(r) \/ FsOpPath(r) \/ GetAddrInfo(r)
             \/ \E f \in Files : FsOpClose(r, f) \/ FsOpFd(r, f)
             \/ FsWorkOpen(r) \/ FsWorkFd(r) \/ FsWorkHost(r) \/ GetAddrInfoCb(r)
      PROVE  FsIInv'
  BY <1>2, FsOpOpenKeeps, FsOpPathKeeps, GetAddrInfoKeeps, FsOpCloseKeeps, FsOpFdKeeps,
     FsWorkOpenKeeps, FsWorkFdKeeps, FsWorkHostKeeps, GetAddrInfoCbKeeps
<1>3. ASSUME NEW r \in Requests,
             \/ (FsWorkClose(r) \/ \E n \in Numbers : FsOpNumber(r, n)) /\ UNCHANGED pathVars
             \/ FsWorkPath(r) /\ UNCHANGED ownVars
             \/ FsReqCb(r)
      PROVE  FsIInv'
  BY <1>3, FsWorkCloseKeeps, FsOpNumberKeeps, FsWorkPathKeeps, FsReqCbKeeps
<1>4. ASSUME NEW f \in Files,
             \/ (FsSyncOpen(f) \/ FsSyncClose(f) \/ FileFinalizer(f)) /\ UNCHANGED pathVars
             \/ FsSyncFd(f) /\ UNCHANGED <<pathVars, ownVars>>
      PROVE  FsIInv'
  BY <1>4, FsSyncOpenKeeps, FsSyncCloseStep, FsSyncFdKeeps, FileFinalizerKeeps
<1>5. ASSUME NEW n \in Numbers, FsSyncCloseNumber(n), UNCHANGED pathVars
      PROVE  FsIInv'
  BY <1>5, FsSyncCloseNumberKeeps
<1> QED BY <1>1, <1>2, <1>3, <1>4, <1>5, FsSyncPathKeeps DEF FsNext

LEMMA FsIInvImplies == FsIInv => FsInv
<1> SUFFICES ASSUME FsIInv PROVE FsInv
  OBVIOUS
<1>0. DescInv
  BY DEF FsIInv
<1>1. FsTypeOK
  BY <1>0, FileFacts, ReqFacts
  DEF FsTypeOK, FileRecord, ReqRecord, DescInv, SerialsInv, NumberedInv, FsIInv, PathInv
<1>2. OpActsOnItsFile
  BY <1>0, FileFacts, ReqFacts DEF OpActsOnItsFile, FileOK, ReqOK
<1>3. ASSUME NEW n \in Numbers
      PROVE  /\ FileHolders(n) = {f \in Files : KeepsFd(files[f]) /\ files[f].fd = n}
             /\ RequestHolders(n) = {r \in Requests : CarriesFd(reqs[r]) /\ reqs[r].fd = n}
  BY NumberFacts DEF FileHolders, RequestHolders, KeepsFd, CarriesFd
<1>4. ASSUME NEW n \in Numbers, fdTable[n] # 0
      PROVE  Cardinality(Owners(n)) = IF fdTable[n] \in leaked THEN 0 ELSE 1
  <2> DEFINE O == {f \in Files :
                    KeepsFd(files[f]) /\ files[f].fd = n /\ files[f].serial = fdTable[n]}
                  \union {r \in Requests :
                    CarriesFd(reqs[r]) /\ reqs[r].fd = n /\ reqs[r].serial = fdTable[n]}
  <2>1. Owners(n) = O
    BY <1>3 DEF Owners
  <2>2. CASE fdTable[n] \in leaked
    <3>1. O = {}
      BY <1>0, <2>2 DEF DescInv, HoldersInv
    <3> QED BY <2>1, <2>2, <3>1, FS_EmptySet
  <2>3. CASE fdTable[n] \notin leaked
    <3>1. PICK x : x \in O
      BY <1>0, <1>4, <2>3 DEF DescInv, HoldersInv
    <3>2. O = {x}
      BY <1>0, <3>1 DEF DescInv, HoldersInv
    <3> QED BY <2>1, <2>3, <3>2, FS_Singleton
  <2> QED BY <2>2, <2>3
<1>5. ASSUME NEW n \in Numbers PROVE Misled(n) \subseteq astray
  BY <1>0, <1>3, FileFacts, ReqFacts DEF Misled, HeldUnder
<1>6. DescriptorHasOneOwner
  BY <1>0, <1>4, <1>5 DEF DescriptorHasOneOwner, DescInv, NumberedInv
<1> QED BY <1>1, <1>2, <1>6 DEF FsInv, FsIInv, PathInv

-----------------------------------------------------------------------------
(* Sqlite.                                                                   *)

Bindable == ValueClasses \ {"object"}
StorageClasses ==
  {"NULL", "INT32", "INT53", "INT64", "FLOAT", "FLOAT0", "TEXT", "CUT TEXT", "BLOB"}

(* A row holds what SQLite makes of the value that was bound.  *)
RowRecord == {x \in [js : Bindable, db : StorageClasses] : x.db = Stored(x.js)}

ConnRecord ==
  [lib : {"none", "open", "zombie", "freed"}, ptr : BOOLEAN, obj : BOOLEAN, closes : Nat]

StmtRecord ==
  [kind : {"none", "insert", "select"}, conn : Conns \union {NoConn},
   lib : {"none", "live", "freed"}, held : BOOLEAN, cur : Nat, ready : BOOLEAN,
   bound : Bindable, big : BOOLEAN]

(* The wrapper's pointer is there exactly while the connection may be closed. *)
ConnOK(k) ==
  /\ k \in ConnRecord
  /\ k.closes =< 1
  /\ k.ptr => k.lib = "open" /\ k.closes = 0

StmtOK(q) ==
  /\ q \in StmtRecord
  /\ q.held => q.lib = "live"
  /\ q.kind # "none" => q.lib = "live"
  /\ q.cur =< Len(table)
  /\ q.lib = "live" => q.conn \in Conns /\ conn[q.conn].lib \in {"open", "zombie"}

ConnsInv == conn \in [Conns -> ConnRecord] /\ \A c \in Conns : ConnOK(conn[c])
StmtsInv == stmt \in [Stmts -> StmtRecord] /\ \A s \in Stmts : StmtOK(stmt[s])
TableInv == table \in Seq(RowRecord) /\ Len(table) =< MaxRows
DbInv ==
  /\ db \in [cur : Conns \union {NoConn}, isOpen : BOOLEAN, held : BOOLEAN]
  /\ db.isOpen => db.held /\ db.cur \in Conns /\ conn[db.cur].ptr
AnswerInv == CallIsSelfContained /\ ValuesReadBack /\ ThrownRunWroteNothing

SqIInv == ConnsInv /\ StmtsInv /\ TableInv /\ DbInv /\ AnswerInv

LEMMA SqTypes ==
  /\ MaxConns \in Nat /\ MaxStmts \in Nat /\ MaxRows \in Nat
  /\ \A c \in Conns : c \in Nat /\ c # NoConn
  /\ "null" \in Bindable /\ "wide" \in Bindable
  /\ \A v \in Values : v # "object" => v \in Bindable
<1>1. MaxConns \in Nat /\ MaxStmts \in Nat /\ MaxRows \in Nat
  BY SqliteAssumption
<1>2. \A c \in Conns : c \in Nat /\ c # NoConn
  BY <1>1 DEF Conns, NoConn
<1>3. "null" \in Bindable /\ "wide" \in Bindable
  BY DEF Bindable, ValueClasses
<1>4. \A v \in Values : v # "object" => v \in Bindable
  BY SqliteAssumption DEF Bindable
<1> QED BY <1>1, <1>2, <1>3, <1>4

LEMMA ConnFacts ==
  ASSUME SqIInv, NEW c \in Conns
  PROVE  conn[c] \in ConnRecord /\ ConnOK(conn[c])
BY DEF SqIInv, ConnsInv

LEMMA StmtFacts ==
  ASSUME SqIInv, NEW s \in Stmts
  PROVE  stmt[s] \in StmtRecord /\ StmtOK(stmt[s])
BY DEF SqIInv, StmtsInv

LEMMA TableFacts ==
  ASSUME SqIInv PROVE table \in Seq(RowRecord) /\ Len(table) \in Nat /\ Len(table) =< MaxRows
<1>1. table \in Seq(RowRecord) /\ Len(table) =< MaxRows
  BY DEF SqIInv, TableInv
<1>2. Len(table) \in Nat
  BY <1>1, LenProperties
<1> QED BY <1>1, <1>2

(* A step that answers with nothing to check.  *)
LEMMA QuietAnswer ==
  ASSUME NEW a, answer' = [NoAnswer EXCEPT !.ok = a] \/ answer' = NoAnswer
  PROVE  AnswerInv'
<1>1. answer'.op = "other"
  BY DEF NoAnswer
<1> QED BY <1>1 DEF AnswerInv, CallIsSelfContained, ValuesReadBack, ThrownRunWroteNothing

(* One connection changes, and those of live statements stay.  *)
LEMMA ConnChanges ==
  ASSUME SqIInv, NEW c \in Conns, NEW k, ConnOK(k), conn' = [conn EXCEPT ![c] = k],
         UNCHANGED <<stmt, table>>,
         \A s \in Stmts : stmt[s].lib = "live" /\ stmt[s].conn = c => k.lib \in {"open", "zombie"}
  PROVE  ConnsInv' /\ StmtsInv' /\ TableInv' /\ conn'[c] = k
         /\ \A d \in Conns : d # c => conn'[d] = conn[d]
<1>1. conn'[c] = k /\ \A d \in Conns : d # c => conn'[d] = conn[d]
  BY DEF SqIInv, ConnsInv
<1>2. conn' \in [Conns -> ConnRecord]
  BY DEF SqIInv, ConnsInv, ConnOK
<1>3. ConnsInv'
  BY <1>1, <1>2, ConnFacts DEF ConnsInv, ConnOK
<1>4. TableInv'
  BY DEF SqIInv, TableInv
<1>5. ASSUME NEW s \in Stmts PROVE StmtOK(stmt[s])'
  <2>1. stmt[s].lib = "live" =>
          stmt[s].conn \in Conns /\ conn'[stmt[s].conn].lib \in {"open", "zombie"}
    BY <1>1, StmtFacts DEF StmtOK
  <2> QED BY <2>1, StmtFacts DEF StmtOK
<1>6. StmtsInv'
  BY <1>5 DEF SqIInv, StmtsInv
<1> QED BY <1>1, <1>3, <1>4, <1>6

(* One statement changes, and the table may grow.  *)
LEMMA StmtChanges ==
  ASSUME SqIInv, NEW s \in Stmts, NEW q, q \in StmtRecord,
         q.held => q.lib = "live", q.kind # "none" => q.lib = "live",
         q.cur =< Len(table'),
         q.lib = "live" => q.conn \in Conns /\ conn[q.conn].lib \in {"open", "zombie"},
         stmt' = [stmt EXCEPT ![s] = q], UNCHANGED conn,
         TableInv', Len(table) =< Len(table')
  PROVE  ConnsInv' /\ StmtsInv'
<1>1. stmt'[s] = q /\ \A t \in Stmts : t # s => stmt'[t] = stmt[t]
  BY DEF SqIInv, StmtsInv
<1>2. stmt' \in [Stmts -> StmtRecord]
  BY DEF SqIInv, StmtsInv
<1>3. ConnsInv'
  BY DEF SqIInv, ConnsInv, ConnOK
<1>4. Len(table) \in Nat /\ Len(table') \in Nat
  BY TableFacts, LenProperties DEF TableInv
<1>5. ASSUME NEW t \in Stmts PROVE StmtOK(stmt[t])'
  <2>1. CASE t = s
    BY <1>1, <2>1 DEF StmtOK
  <2>2. CASE t # s
    <3>1. stmt[t] \in StmtRecord /\ StmtOK(stmt[t]) /\ stmt'[t] = stmt[t]
      BY <1>1, <2>2, StmtFacts
    <3>2. stmt[t].cur \in Nat
      BY <3>1 DEF StmtRecord
    <3>3. stmt[t].cur =< Len(table')
      BY <1>4, <3>1, <3>2 DEF StmtOK
    <3> QED BY <3>1, <3>3 DEF StmtOK
  <2> QED BY <2>1, <2>2
<1>6. StmtsInv'
  BY <1>2, <1>5 DEF StmtsInv
<1> QED BY <1>3, <1>6

(* A closed connection: one more close, and gone unless a statement lives.   *)
LEMMA ClosedFields ==
  ASSUME SqIInv, NEW c \in Conns, conn[c].ptr, NEW o \in BOOLEAN
  PROVE  \E k : /\ ConnOK(k)
                /\ \A s \in Stmts : stmt[s].lib = "live" /\ stmt[s].conn = c
                                      => k.lib \in {"open", "zombie"}
                /\ [CloseV2(conn, stmt, c) EXCEPT ![c].obj = o, ![c].ptr = FALSE]
                     = [conn EXCEPT ![c] = k]
<1> DEFINE l == IF LiveOf(stmt, c) = {} THEN "freed" ELSE "zombie"
           r == conn[c]
           k == [r EXCEPT !.closes = 1, !.lib = l, !.obj = o, !.ptr = FALSE]
<1>1. r \in ConnRecord /\ r.closes = 0 /\ r.closes + 1 = 1
  BY ConnFacts DEF ConnOK
<1>2. CloseV2(conn, stmt, c) = [conn EXCEPT ![c] = [r EXCEPT !.closes = 1, !.lib = l]]
  BY <1>1 DEF CloseV2
<1>3. l \in {"freed", "zombie"}
  OBVIOUS
<1>4. \A s \in Stmts : stmt[s].lib = "live" /\ stmt[s].conn = c => l = "zombie"
  BY DEF LiveOf
<1> HIDE DEF l
<1>5. [CloseV2(conn, stmt, c) EXCEPT ![c].obj = o, ![c].ptr = FALSE] = [conn EXCEPT ![c] = k]
  BY <1>2 DEF SqIInv, ConnsInv
<1>6. k \in ConnRecord /\ k.closes = 1 /\ k.lib = l /\ k.ptr = FALSE
  BY <1>1, <1>3 DEF ConnRecord
<1> HIDE DEF k
<1>7. ConnOK(k)
  BY <1>6 DEF ConnOK
<1> QED BY <1>4, <1>5, <1>6, <1>7

LEMMA CloseKeepsObj ==
  ASSUME SqIInv, NEW c \in Conns
  PROVE  Closed(c) = [CloseV2(conn, stmt, c) EXCEPT ![c].obj = conn[c].obj, ![c].ptr = FALSE]
<1> DEFINE r == conn[c]
           l == IF LiveOf(stmt, c) = {} THEN "freed" ELSE "zombie"
           n == r.closes + 1
           u == [r EXCEPT !.closes = n, !.lib = l]
<1>1. r \in ConnRecord /\ r.closes \in Nat
  BY ConnFacts DEF ConnRecord
<1>2. CloseV2(conn, stmt, c) = [conn EXCEPT ![c] = u]
  BY DEF CloseV2
<1>3. n \in Nat /\ l \in {"freed", "zombie"}
  BY <1>1
<1> HIDE DEF n, l
<1>4. u \in ConnRecord /\ u.obj = r.obj
  BY <1>1, <1>3 DEF ConnRecord
<1>5. [u EXCEPT !.obj = r.obj] = u
  BY <1>4 DEF ConnRecord
<1> HIDE DEF u
<1> QED BY <1>2, <1>5 DEF Closed, SqIInv, ConnsInv

LEMMA SqCloseKeeps ==
  ASSUME SqIInv, SqClose PROVE SqIInv'
<1> DEFINE c == db.cur
<1>1. c \in Conns /\ conn[c].ptr /\ conn[c].obj \in BOOLEAN
  BY ConnFacts DEF SqClose, SqIInv, DbInv, ConnRecord
<1>2. PICK k : /\ ConnOK(k)
               /\ \A s \in Stmts : stmt[s].lib = "live" /\ stmt[s].conn = c
                                      => k.lib \in {"open", "zombie"}
               /\ [CloseV2(conn, stmt, c) EXCEPT ![c].obj = conn[c].obj, ![c].ptr = FALSE]
                    = [conn EXCEPT ![c] = k]
  BY <1>1, ClosedFields
<1>3. conn' = [conn EXCEPT ![c] = k] /\ UNCHANGED <<stmt, table>>
  BY <1>1, <1>2, CloseKeepsObj DEF SqClose
<1>4. ConnsInv' /\ StmtsInv' /\ TableInv'
  BY <1>1, <1>2, <1>3, ConnChanges
<1>5. DbInv'
  BY DEF SqClose, SqIInv, DbInv
<1>6. AnswerInv'
  BY QuietAnswer DEF SqClose
<1> QED BY <1>4, <1>5, <1>6 DEF SqIInv

LEMMA SqDbFinalizerKeeps ==
  ASSUME SqIInv, NEW c \in Conns, SqDbFinalizer(c) PROVE SqIInv'
<1>1. UNCHANGED <<stmt, table, db>>
  BY DEF SqDbFinalizer
<1>2. \E k : /\ ConnOK(k) /\ conn' = [conn EXCEPT ![c] = k]
             /\ \A s \in Stmts : stmt[s].lib = "live" /\ stmt[s].conn = c
                                   => k.lib \in {"open", "zombie"}
  <2>1. CASE conn[c].ptr
    BY <2>1, ClosedFields DEF SqDbFinalizer
  <2>2. CASE ~conn[c].ptr
    <3> DEFINE r == conn[c]
               k == [r EXCEPT !.obj = FALSE, !.ptr = FALSE]
    <3>1. r \in ConnRecord /\ ConnOK(r)
      BY ConnFacts
    <3>2. conn' = [conn EXCEPT ![c] = k]
      BY <2>2 DEF SqDbFinalizer, SqIInv, ConnsInv
    <3>3. k \in ConnRecord /\ k.lib = r.lib /\ k.closes = r.closes /\ k.ptr = FALSE
      BY <3>1 DEF ConnRecord
    <3> HIDE DEF k
    <3>4. ConnOK(k)
      BY <3>1, <3>3 DEF ConnOK
    <3>5. \A s \in Stmts : stmt[s].lib = "live" /\ stmt[s].conn = c => k.lib \in {"open", "zombie"}
      BY <3>3, StmtFacts DEF StmtOK
    <3> QED BY <3>2, <3>4, <3>5
  <2> QED BY <2>1, <2>2
<1>3. PICK k : /\ ConnOK(k) /\ conn' = [conn EXCEPT ![c] = k]
               /\ \A s \in Stmts : stmt[s].lib = "live" /\ stmt[s].conn = c
                                     => k.lib \in {"open", "zombie"}
  BY <1>2
<1>4. /\ ConnsInv' /\ StmtsInv' /\ TableInv'
      /\ \A d \in Conns : d # c => conn'[d] = conn[d]
  BY <1>1, <1>3, ConnChanges
<1>5. ~(db.held /\ db.cur = c)
  BY DEF SqDbFinalizer, Holds
<1>6. DbInv'
  BY <1>1, <1>4, <1>5 DEF SqIInv, DbInv
<1>7. AnswerInv'
  BY QuietAnswer DEF SqDbFinalizer
<1> QED BY <1>4, <1>6, <1>7 DEF SqIInv

LEMMA SqOpenKeeps ==
  ASSUME SqIInv, NEW c \in Conns, SqOpen(c) PROVE SqIInv'
<1> DEFINE k == [lib |-> "open", ptr |-> TRUE, obj |-> TRUE, closes |-> 0]
<1>1. conn' = [conn EXCEPT ![c] = k] /\ UNCHANGED <<stmt, table>>
  BY DEF SqOpen
<1>2. ConnOK(k) /\ k.lib = "open" /\ k.ptr
  BY DEF ConnOK, ConnRecord
<1> HIDE DEF k
<1>3. ConnsInv' /\ StmtsInv' /\ TableInv' /\ conn'[c] = k
  BY <1>1, <1>2, ConnChanges
<1>4. DbInv'
  <2>1. db' \in [cur : Conns \union {NoConn}, isOpen : BOOLEAN, held : BOOLEAN]
    BY DEF SqOpen, SqIInv, DbInv
  <2>2. db'.cur = c /\ db'.held
    BY DEF SqOpen, SqIInv, DbInv
  <2> QED BY <1>2, <1>3, <2>1, <2>2 DEF DbInv
<1>5. AnswerInv'
  BY QuietAnswer DEF SqOpen
<1> QED BY <1>3, <1>4, <1>5 DEF SqIInv

LEMMA SqOpenFailsKeeps ==
  ASSUME SqIInv, SqOpenFails PROVE SqIInv'
<1>1. AnswerInv'
  BY QuietAnswer DEF SqOpenFails
<1>2. ConnsInv' /\ StmtsInv' /\ TableInv' /\ DbInv'
  BY DEF SqOpenFails, SqIInv, ConnsInv, ConnOK, StmtsInv, StmtOK, TableInv, DbInv
<1> QED BY <1>1, <1>2 DEF SqIInv

LEMMA SqDropDbKeeps ==
  ASSUME SqIInv, SqDropDb PROVE SqIInv'
<1>1. AnswerInv'
  BY QuietAnswer DEF SqDropDb
<1>2. ConnsInv' /\ StmtsInv' /\ TableInv'
  BY DEF SqDropDb, SqIInv, ConnsInv, ConnOK, StmtsInv, StmtOK, TableInv
<1>3. DbInv'
  BY DEF SqDropDb, DbInv
<1> QED BY <1>1, <1>2, <1>3 DEF SqIInv

(* A step that changes one statement and nothing else.  *)
LEMMA OneStmtKeeps ==
  ASSUME SqIInv, NEW s \in Stmts, NEW q, q \in StmtRecord,
         q.held => q.lib = "live", q.kind # "none" => q.lib = "live",
         q.cur =< Len(table),
         q.lib = "live" => q.conn \in Conns /\ conn[q.conn].lib \in {"open", "zombie"},
         stmt' = [stmt EXCEPT ![s] = q], UNCHANGED <<conn, table, db>>, AnswerInv'
  PROVE  SqIInv'
<1>1. TableInv' /\ DbInv'
  BY DEF SqIInv, TableInv, DbInv
<1>2. table' = table /\ Len(table) \in Nat /\ Len(table) =< Len(table') /\ q.cur =< Len(table')
  BY TableFacts
<1>3. ConnsInv' /\ StmtsInv'
  BY <1>1, <1>2, StmtChanges
<1> QED BY <1>1, <1>3 DEF SqIInv

LEMMA SqPrepareKeeps ==
  ASSUME SqIInv, NEW s \in Stmts, NEW kind \in {"insert", "select"}, SqPrepare(s, kind)
  PROVE  SqIInv'
<1> DEFINE c == db.cur
           q == [stmt[s] EXCEPT !.kind = kind, !.conn = c, !.lib = "live", !.held = TRUE]
<1>1. c \in Conns /\ conn[c].lib = "open"
  BY ConnFacts DEF SqPrepare, SqIInv, DbInv, ConnOK
<1>2. stmt[s] \in StmtRecord /\ StmtOK(stmt[s])
  BY StmtFacts
<1>3. stmt' = [stmt EXCEPT ![s] = q] /\ UNCHANGED <<conn, table, db>>
  BY DEF SqPrepare
<1> HIDE DEF c
<1>4. /\ q \in StmtRecord /\ q.kind = kind /\ q.conn = c /\ q.lib = "live" /\ q.held = TRUE
      /\ q.cur = stmt[s].cur
  BY <1>1, <1>2 DEF StmtRecord
<1> HIDE DEF q
<1>5. q.cur =< Len(table)
  BY <1>2, <1>4 DEF StmtOK
<1>6. AnswerInv'
  BY QuietAnswer DEF SqPrepare
<1> QED BY <1>1, <1>3, <1>4, <1>5, <1>6, OneStmtKeeps

LEMMA SetReadBigIntsKeeps ==
  ASSUME SqIInv, NEW s \in Stmts, SetReadBigInts(s) PROVE SqIInv'
<1> DEFINE q == [stmt[s] EXCEPT !.big = TRUE]
<1>1. stmt[s] \in StmtRecord /\ StmtOK(stmt[s])
  BY StmtFacts
<1>2. stmt' = [stmt EXCEPT ![s] = q] /\ UNCHANGED <<conn, table, db>>
  BY DEF SetReadBigInts
<1>3. /\ q \in StmtRecord /\ q.kind = stmt[s].kind /\ q.conn = stmt[s].conn
      /\ q.lib = stmt[s].lib /\ q.held = stmt[s].held /\ q.cur = stmt[s].cur
  BY <1>1 DEF StmtRecord
<1> HIDE DEF q
<1>4. AnswerInv'
  BY QuietAnswer DEF SetReadBigInts
<1>5. /\ q.held => q.lib = "live"
      /\ q.kind # "none" => q.lib = "live"
      /\ q.cur =< Len(table)
      /\ q.lib = "live" => q.conn \in Conns /\ conn[q.conn].lib \in {"open", "zombie"}
  BY <1>1, <1>3 DEF StmtOK
<1> QED BY <1>2, <1>3, <1>4, <1>5, OneStmtKeeps

LEMMA SqDropStmtKeeps ==
  ASSUME SqIInv, NEW s \in Stmts, SqDropStmt(s) PROVE SqIInv'
<1> DEFINE q == [stmt[s] EXCEPT !.held = FALSE]
<1>1. stmt[s] \in StmtRecord /\ StmtOK(stmt[s])
  BY StmtFacts
<1>2. stmt' = [stmt EXCEPT ![s] = q] /\ UNCHANGED <<conn, table, db>>
  BY DEF SqDropStmt
<1>3. /\ q \in StmtRecord /\ q.kind = stmt[s].kind /\ q.conn = stmt[s].conn
      /\ q.lib = stmt[s].lib /\ q.held = FALSE /\ q.cur = stmt[s].cur
  BY <1>1 DEF StmtRecord
<1> HIDE DEF q
<1>4. AnswerInv'
  BY QuietAnswer DEF SqDropStmt
<1>5. /\ q.kind # "none" => q.lib = "live"
      /\ q.cur =< Len(table)
      /\ q.lib = "live" => q.conn \in Conns /\ conn[q.conn].lib \in {"open", "zombie"}
  BY <1>1, <1>3 DEF StmtOK
<1> QED BY <1>2, <1>3, <1>4, <1>5, OneStmtKeeps

LEMMA SqStmtFinalizerKeeps ==
  ASSUME SqIInv, NEW s \in Stmts, SqStmtFinalizer(s) PROVE SqIInv'
<1> DEFINE q == [NoStmt EXCEPT !.lib = "freed"]
           c == stmt[s].conn
           gone == conn[c].lib = "zombie" /\ LiveOf(stmt, c) = {s}
           k == [conn[c] EXCEPT !.lib = "freed"]
<1>1. stmt[s].lib = "live" /\ stmt[s] \in StmtRecord /\ StmtOK(stmt[s]) /\ c \in Conns
  BY StmtFacts DEF SqStmtFinalizer, StmtOK
<1>2. stmt' = [stmt EXCEPT ![s] = q] /\ UNCHANGED <<table, db>>
  BY DEF SqStmtFinalizer, StmtFinalized
<1>3. conn' = IF gone THEN [conn EXCEPT ![c] = k] ELSE conn
  BY <1>1 DEF SqStmtFinalizer, StmtFinalized, Finalized, SqIInv, ConnsInv
<1>4. q \in StmtRecord /\ q.lib = "freed" /\ q.held = FALSE /\ q.kind = "none" /\ q.cur = 0
  <2>1. NoStmt \in StmtRecord /\ NoStmt.held = FALSE /\ NoStmt.kind = "none" /\ NoStmt.cur = 0
    BY SqTypes DEF NoStmt, StmtRecord
  <2> QED BY <2>1 DEF StmtRecord
<1>5. conn[c] \in ConnRecord /\ ConnOK(conn[c])
  BY <1>1, ConnFacts
<1>6. k \in ConnRecord /\ k.lib = "freed" /\ k.ptr = conn[c].ptr /\ k.closes = conn[c].closes
  BY <1>5 DEF ConnRecord
<1> HIDE DEF q, k
<1>7. stmt'[s] = q /\ \A t \in Stmts : t # s => stmt'[t] = stmt[t]
  BY <1>2 DEF SqIInv, StmtsInv
<1>8. /\ conn' \in [Conns -> ConnRecord]
      /\ \A d \in Conns : conn'[d].ptr = conn[d].ptr /\ conn'[d].closes = conn[d].closes
      /\ \A d \in Conns : conn'[d].lib = conn[d].lib \/ (gone /\ d = c)
  BY <1>1, <1>3, <1>5, <1>6 DEF SqIInv, ConnsInv
<1>9. ConnsInv'
  <2>1. ASSUME NEW d \in Conns PROVE ConnOK(conn'[d])
    <3>1. conn'[d] \in ConnRecord
      BY <1>8
    <3>2. gone /\ d = c => ~conn[d].ptr
      BY <1>5 DEF ConnOK
    <3> QED BY <1>8, <3>1, <3>2, ConnFacts DEF ConnOK
  <2> QED BY <1>8, <2>1 DEF ConnsInv, ConnOK
<1>10. StmtsInv'
  <2>1. stmt' \in [Stmts -> StmtRecord]
    BY <1>2, <1>4 DEF SqIInv, StmtsInv
  <2>2. ASSUME NEW t \in Stmts PROVE StmtOK(stmt[t])'
    <3>1. CASE t = s
      <4>1. 0 =< Len(table)
        BY TableFacts
      <4> QED BY <1>2, <1>4, <1>7, <3>1, <4>1 DEF StmtOK
    <3>2. CASE t # s
      <4>1. stmt[t] \in StmtRecord /\ StmtOK(stmt[t])
        BY StmtFacts
      <4>2. gone => ~(stmt[t].lib = "live" /\ stmt[t].conn = c)
        BY <3>2 DEF LiveOf
      <4>3. stmt[t].lib = "live" =>
              stmt[t].conn \in Conns /\ conn'[stmt[t].conn].lib \in {"open", "zombie"}
        BY <1>8, <4>1, <4>2 DEF StmtOK
      <4> QED BY <1>2, <1>7, <3>2, <4>1, <4>3 DEF StmtOK
    <3> QED BY <3>1, <3>2
  <2> QED BY <2>1, <2>2 DEF StmtsInv
<1>11. TableInv'
  BY <1>2 DEF SqIInv, TableInv
<1>12. DbInv'
  BY <1>2, <1>8 DEF SqIInv, DbInv
<1>13. AnswerInv'
  BY QuietAnswer DEF SqStmtFinalizer
<1> QED BY <1>9, <1>10, <1>11, <1>12, <1>13 DEF SqIInv

(* What is stored comes back, but for the classes that are left out.  *)
LEMMA StoredReadsBack ==
  ASSUME NEW v \in Bindable, NEW big \in BOOLEAN
  PROVE  /\ Stored(v) \in StorageClasses
         /\ [js |-> v, db |-> Stored(v)] \in RowRecord
         /\ Expected(v, big) \in {"unclear", ReadBack(Stored(v), big)}
<1>1. v \in {"null", "true", "int", "wide", "huge", "real", "whole", "text", "nul", "buffer", "bytes"}
  BY DEF Bindable, ValueClasses
<1>2. Stored(v) \in StorageClasses
  BY <1>1 DEF Stored, StorageClasses
<1>3. [js |-> v, db |-> Stored(v)] \in RowRecord
  BY <1>2 DEF RowRecord
<1>4. Expected(v, big) \in {"unclear", ReadBack(Stored(v), big)}
  <2>1. CASE v \in {"null", "real", "text"}
    BY <2>1 DEF Expected, ReadBack, Stored
  <2>2. CASE v \in {"true", "int", "wide"}
    BY <2>2 DEF Expected, ReadBack, Stored
  <2>3. CASE v \in {"buffer", "bytes"}
    BY <2>3 DEF Expected, ReadBack, Stored
  <2>4. CASE v \in {"huge", "whole", "nul"}
    BY <2>4 DEF Expected
  <2> QED BY <1>1, <2>1, <2>2, <2>3, <2>4
<1> QED BY <1>2, <1>3, <1>4

(* The table with at most one new row.  *)
LEMMA TableGrows ==
  ASSUME SqIInv, Len(table) < MaxRows, NEW v \in Bindable, NEW w,
         w = <<>> \/ w = <<[js |-> v, db |-> Stored(v)]>>, table' = table \o w
  PROVE  TableInv' /\ Len(table) =< Len(table')
<1> DEFINE x == [js |-> v, db |-> Stored(v)]
<1>1. x \in RowRecord
  BY StoredReadsBack
<1>2. table \in Seq(RowRecord) /\ Len(table) \in Nat
  BY TableFacts
<1>3. w = <<>> \/ w = <<x>>
  OBVIOUS
<1> HIDE DEF x
<1>4. w \in Seq(RowRecord) /\ Len(w) \in Nat /\ Len(w) =< 1
  <2>1. CASE w = <<>>
    BY <2>1, EmptySeq
  <2>2. CASE w = <<x>>
    <3>1. w \in Seq(RowRecord)
      BY <1>1, <2>2
    <3>2. Len(w) = 1
      BY <2>2
    <3> QED BY <3>1, <3>2
  <2> QED BY <1>3, <2>1, <2>2
<1>5. table' \in Seq(RowRecord) /\ Len(table') = Len(table) + Len(w)
  BY <1>2, <1>4, ConcatProperties
<1>6. Len(table) =< Len(table') /\ Len(table') =< MaxRows
  BY <1>2, <1>4, <1>5, SqTypes
<1> QED BY <1>5, <1>6 DEF TableInv

LEMMA SqExecKeeps ==
  ASSUME SqIInv, SqExec PROVE SqIInv'
<1> DEFINE new == IF Busy(db.cur) THEN <<>> ELSE <<[js |-> "wide", db |-> Stored("wide")]>>
<1>1. /\ Len(table) < MaxRows /\ table' = table \o new
      /\ answer' = [NoAnswer EXCEPT !.op = "exec", !.ok = ~Busy(db.cur), !.busy = Busy(db.cur),
                                    !.arg = <<"wide">>, !.wrote = new]
      /\ UNCHANGED <<conn, stmt, db>>
  BY DEF SqExec
<1>2. new = <<>> \/ new = <<[js |-> "wide", db |-> Stored("wide")]>>
  OBVIOUS
<1> HIDE DEF new
<1>3. TableInv' /\ Len(table) =< Len(table')
  BY <1>1, <1>2, TableGrows, SqTypes
<1>4. answer'.op = "exec"
  BY <1>1 DEF NoAnswer
<1>5. AnswerInv'
  BY <1>4 DEF AnswerInv, CallIsSelfContained, ValuesReadBack, ThrownRunWroteNothing
<1>6. ConnsInv' /\ DbInv'
  BY <1>1 DEF SqIInv, ConnsInv, ConnOK, DbInv
<1>7. Len(table) \in Nat /\ Len(table') \in Nat
  BY <1>3, TableFacts, LenProperties DEF TableInv
<1>8. ASSUME NEW s \in Stmts PROVE StmtOK(stmt[s])'
  <2>1. stmt[s] \in StmtRecord /\ StmtOK(stmt[s]) /\ stmt[s].cur \in Nat
    BY StmtFacts DEF StmtRecord
  <2>2. stmt[s].cur =< Len(table')
    BY <1>3, <1>7, <2>1 DEF StmtOK
  <2> QED BY <1>1, <2>1, <2>2 DEF StmtOK
<1>9. StmtsInv'
  BY <1>1, <1>8 DEF SqIInv, StmtsInv
<1> QED BY <1>3, <1>5, <1>6, <1>9 DEF SqIInv

(* A statement as it was, but for its position and what is bound to it.  *)
SameStmt(q, p) ==
  /\ q \in StmtRecord
  /\ q.kind = p.kind /\ q.conn = p.conn /\ q.lib = p.lib /\ q.held = p.held /\ q.big = p.big

LEMMA ResetFields ==
  ASSUME NEW p \in StmtRecord
  PROVE  SameStmt(Reset(p), p) /\ Reset(p).cur = 0 /\ Reset(p).ready = TRUE
BY DEF SameStmt, Reset, StmtRecord

LEMMA ParamFacts ==
  ASSUME NEW params \in Params
  PROVE  /\ params # <<>> /\ params[1] # "object" => params[1] \in Bindable
         /\ Len(params) = 1 /\ params # <<"object">> => params # <<>> /\ params[1] # "object"
<1>1. CASE params = <<>>
  BY <1>1
<1>2. CASE params = <<"wide", "wide">>
  BY <1>2, SqTypes
<1>3. CASE \E v \in Values : params = <<v>>
  <2> PICK v \in Values : params = <<v>>
    BY <1>3
  <2> QED BY SqTypes
<1> QED BY <1>1, <1>2, <1>3 DEF Params

(* #bindParams on a statement that has been reset.  *)
LEMMA BindFields ==
  ASSUME NEW p \in StmtRecord, p.ready = TRUE, NEW params,
         params # <<>> /\ params[1] # "object" => params[1] \in Bindable
  PROVE  LET b == BindParams(p, params) IN
         /\ SameStmt(b.q, p) /\ b.q.cur = p.cur
         /\ b.ok \in BOOLEAN
         /\ p.kind = "insert" /\ Len(params) = 1 /\ params # <<>> /\ params[1] # "object"
              => b.ok /\ b.q.bound = params[1]
         /\ p.kind # "insert" => (b.ok <=> params = <<>>)
<1> DEFINE fits == params # <<>> /\ p.kind = "insert" /\ params[1] # "object" /\ p.ready
           u == [p EXCEPT !.bound = params[1]]
           b == BindParams(p, params)
<1>1. b.q = (IF fits THEN u ELSE p) /\ b.ok = (params = <<>> \/ (fits /\ Len(params) = 1))
  BY DEF BindParams
<1>2. fits => SameStmt(u, p) /\ u.cur = p.cur /\ u.bound = params[1]
  <2> SUFFICES ASSUME fits PROVE SameStmt(u, p) /\ u.cur = p.cur /\ u.bound = params[1]
    OBVIOUS
  <2> DEFINE v == params[1]
  <2>1. v \in Bindable
    OBVIOUS
  <2> HIDE DEF v
  <2>2. SameStmt([p EXCEPT !.bound = v], p) /\ [p EXCEPT !.bound = v].cur = p.cur
        /\ [p EXCEPT !.bound = v].bound = v
    BY <2>1 DEF SameStmt, StmtRecord
  <2> QED BY <2>2 DEF v
<1>3. SameStmt(p, p)
  BY DEF SameStmt
<1> HIDE DEF u, b
<1>4. SameStmt(b.q, p) /\ b.q.cur = p.cur
  BY <1>1, <1>2, <1>3
<1>5. b.ok \in BOOLEAN
  BY <1>1
<1>6. p.kind = "insert" /\ Len(params) = 1 /\ params # <<>> /\ params[1] # "object"
        => b.ok /\ b.q.bound = params[1]
  BY <1>1, <1>2
<1>7. p.kind # "insert" => (b.ok <=> params = <<>>)
  BY <1>1
<1> QED BY <1>4, <1>5, <1>6, <1>7 DEF b

(* run() up to and with its step.  *)
LEMMA RunFields ==
  ASSUME SqIInv, NEW s \in Stmts, stmt[s].kind = "insert", NEW params \in Params
  PROVE  LET r == RunSteps(stmt[s], params) IN
         /\ SameStmt(r.q, stmt[s]) /\ r.q.cur = 0
         /\ \E v \in Bindable : r.new = <<>> \/ r.new = <<[js |-> v, db |-> Stored(v)]>>
         /\ ~r.ok => r.new = <<>>
         /\ Len(params) = 1 /\ params # <<"object">> /\ ~r.busy
              => r.new = <<[js |-> params[1], db |-> Stored(params[1])]>>
<1> DEFINE p == stmt[s]
           z == Reset(p)
           b == BindParams(z, params)
           u == b.q
           i == Insert(u)
           r == RunSteps(p, params)
<1>1. p \in StmtRecord
  BY StmtFacts
<1>2. SameStmt(z, p) /\ z.cur = 0 /\ z.ready = TRUE /\ z \in StmtRecord
  BY <1>1, ResetFields DEF SameStmt
<1>3. /\ params # <<>> /\ params[1] # "object" => params[1] \in Bindable
      /\ Len(params) = 1 /\ params # <<"object">> => params # <<>> /\ params[1] # "object"
  BY ParamFacts
<1>4. /\ SameStmt(u, z) /\ u.cur = z.cur /\ b.ok \in BOOLEAN
      /\ z.kind = "insert" /\ Len(params) = 1 /\ params # <<>> /\ params[1] # "object"
           => b.ok /\ u.bound = params[1]
  <2> HIDE DEF z
  <2> QED BY <1>2, <1>3, BindFields
<1>5. r = IF b.ok THEN [q |-> i.q, ok |-> i.ok, busy |-> ~i.ok, new |-> i.new]
          ELSE [q |-> u, ok |-> FALSE, busy |-> FALSE, new |-> <<>>]
  BY DEF RunSteps
<1> HIDE DEF z, b, u, r
<1>6. SameStmt(u, p) /\ u.cur = 0 /\ u \in StmtRecord /\ u.bound \in Bindable /\ z.kind = "insert"
  BY <1>2, <1>4 DEF SameStmt, StmtRecord
<1> HIDE DEF p
<1>7. SameStmt([u EXCEPT !.ready = FALSE], p) /\ [u EXCEPT !.ready = FALSE].cur = 0
  BY <1>6 DEF SameStmt, StmtRecord
<1> DEFINE row == <<[js |-> u.bound, db |-> Stored(u.bound)]>>
           busy == Busy(u.conn)
<1>8. i.q = [u EXCEPT !.ready = FALSE] /\ i.ok = ~busy /\ i.new = IF busy THEN <<>> ELSE row
  BY DEF Insert
<1> HIDE DEF i, row, busy
<1>9. CASE b.ok
  <2>1. r.q = i.q /\ r.ok = i.ok /\ r.busy = ~i.ok /\ r.new = i.new
    BY <1>5, <1>9
  <2>2. SameStmt(r.q, p) /\ r.q.cur = 0
    BY <1>7, <1>8, <2>1
  <2>3. r.new = <<>> \/ r.new = row
    BY <1>8, <2>1
  <2>4. ~r.ok => r.new = <<>>
    BY <1>8, <2>1
  <2>5. Len(params) = 1 /\ params # <<"object">> => u.bound = params[1]
    BY <1>3, <1>4, <1>6
  <2>6. ~r.busy => r.new = row
    BY <1>8, <2>1
  <2> QED BY <1>6, <2>2, <2>3, <2>4, <2>5, <2>6 DEF row, p, r
<1>10. CASE ~b.ok
  <2>1. r.q = u /\ r.ok = FALSE /\ r.busy = FALSE /\ r.new = <<>>
    BY <1>5, <1>10
  <2>2. ~(Len(params) = 1 /\ params # <<"object">>)
    BY <1>3, <1>4, <1>6, <1>10
  <2> QED BY <1>6, <2>1, <2>2 DEF p, r
<1> QED BY <1>4, <1>9, <1>10

LEMMA SqRunKeeps ==
  ASSUME SqIInv, NEW s \in Stmts, NEW params \in Params, SqRun(s, params) PROVE SqIInv'
<1> DEFINE r == RunSteps(stmt[s], params)
           q == r.q
           w == r.new
           ptr == conn[stmt[s].conn].ptr
<1>1. /\ stmt[s].held /\ stmt[s].kind = "insert" /\ Len(table) < MaxRows
      /\ stmt' = [stmt EXCEPT ![s] = q] /\ table' = table \o w
      /\ answer' = [NoAnswer EXCEPT !.op = "run", !.ok = r.ok /\ ptr, !.busy = r.busy,
                                    !.closed = ~ptr, !.arg = params, !.wrote = w]
      /\ UNCHANGED <<conn, db>>
  BY DEF SqRun
<1>2. /\ SameStmt(q, stmt[s]) /\ q.cur = 0
      /\ \E v \in Bindable : w = <<>> \/ w = <<[js |-> v, db |-> Stored(v)]>>
      /\ ~r.ok => w = <<>>
      /\ Len(params) = 1 /\ params # <<"object">> /\ ~r.busy
           => w = <<[js |-> params[1], db |-> Stored(params[1])]>>
  BY <1>1, RunFields
<1> HIDE DEF r, q, w, ptr
<1>3. TableInv' /\ Len(table) =< Len(table')
  BY <1>1, <1>2, TableGrows
<1>4. stmt[s] \in StmtRecord /\ StmtOK(stmt[s])
  BY StmtFacts
<1>5. /\ q \in StmtRecord
      /\ q.held => q.lib = "live"
      /\ q.kind # "none" => q.lib = "live"
      /\ q.lib = "live" => q.conn \in Conns /\ conn[q.conn].lib \in {"open", "zombie"}
  BY <1>2, <1>4 DEF SameStmt, StmtOK
<1>6. q.cur =< Len(table')
  BY <1>2, <1>3, LenProperties DEF TableInv
<1>7. ConnsInv' /\ StmtsInv'
  BY <1>1, <1>3, <1>5, <1>6, StmtChanges
<1>8. DbInv'
  BY <1>1 DEF SqIInv, DbInv
<1>9. /\ answer'.op = "run" /\ answer'.ok = (r.ok /\ ptr) /\ answer'.busy = r.busy
      /\ answer'.closed = ~ptr /\ answer'.arg = params /\ answer'.wrote = w
  BY <1>1 DEF NoAnswer
<1>10. AnswerInv'
  <2>1. Len(params) = 1 /\ params # <<"object">> /\ ~r.busy => Len(w) = 1 /\ w[1].js = params[1]
    BY <1>2
  <2>2. CallIsSelfContained'
    BY <1>9, <2>1 DEF CallIsSelfContained
  <2>3. ValuesReadBack'
    BY <1>9 DEF ValuesReadBack
  <2>4. ThrownRunWroteNothing'
    BY <1>2, <1>9 DEF ThrownRunWroteNothing
  <2> QED BY <2>2, <2>3, <2>4 DEF AnswerInv
<1> QED BY <1>3, <1>7, <1>8, <1>10 DEF SqIInv

(* The rows of the table as a statement shows them.  *)
LEMMA ShownFields ==
  ASSUME SqIInv, NEW q \in StmtRecord, NEW n \in 0..Len(table)
  PROVE  LET a == Shown(q, IF 1 > Len(table) THEN <<>> ELSE SubSeq(table, 1, n)) IN
         1 =< n \/ Len(table) = 0 =>
           /\ Len(a) = n
           /\ DOMAIN a = 1..n
           /\ \A j \in 1..n : Expected(table[j].js, q.big) \in {"unclear", a[j]}
<1> DEFINE e == IF 1 > Len(table) THEN <<>> ELSE SubSeq(table, 1, n)
           a == Shown(q, e)
<1> SUFFICES ASSUME 1 =< n \/ Len(table) = 0
             PROVE  /\ Len(a) = n
                    /\ DOMAIN a = 1..n
                    /\ \A j \in 1..n : Expected(table[j].js, q.big) \in {"unclear", a[j]}
  OBVIOUS
<1>1. table \in Seq(RowRecord) /\ Len(table) \in Nat /\ n \in Nat /\ n =< Len(table)
  BY TableFacts
<1>2. \A j \in 1..Len(table) : table[j] \in RowRecord
  BY <1>1, ElementOfSeq
<1>3. e \in Seq(RowRecord) /\ Len(e) = n /\ \A j \in 1..n : e[j] = table[j]
  <2>1. CASE Len(table) = 0
    BY <1>1, <2>1, EmptySeq
  <2>2. CASE Len(table) # 0
    <3>1. e = SubSeq(table, 1, n) /\ 1 =< n
      BY <1>1, <2>2
    <3>2. \A j \in 1..n : table[j] \in RowRecord
      BY <1>1, <1>2
    <3>3. /\ SubSeq(table, 1, n) \in Seq(RowRecord)
          /\ Len(SubSeq(table, 1, n)) = IF 1 <= n THEN n - 1 + 1 ELSE 0
          /\ \A j \in 1..(n - 1 + 1) : SubSeq(table, 1, n)[j] = table[1 + j - 1]
      BY <1>1, <3>2, SubSeqProperties
    <3>4. Len(e) = n
      BY <1>1, <3>1, <3>3
    <3>5. ASSUME NEW j \in 1..n PROVE e[j] = table[j]
      <4>1. j \in 1..(n - 1 + 1) /\ 1 + j - 1 = j
        BY <1>1
      <4> QED BY <3>1, <3>3, <4>1
    <3> QED BY <3>1, <3>3, <3>4, <3>5
  <2> QED BY <2>1, <2>2
<1> HIDE DEF e
<1>4. DOMAIN e = 1..n
  BY <1>3, LenProperties
<1>5. a = [j \in 1..n |-> ReadBack(e[j].db, q.big)]
  BY <1>4 DEF Shown
<1> HIDE DEF a
<1>6. DOMAIN a = 1..n
  BY <1>5
<1>7. Len(a) = n
  <2> DEFINE S == {a[j] : j \in 1..n}
  <2>1. a \in [1..n -> S]
    BY <1>5
  <2>2. a \in Seq(S)
    BY <1>1, <2>1, SeqDef
  <2> HIDE DEF S
  <2>3. DOMAIN a = 1..Len(a) /\ Len(a) \in Nat
    BY <2>2, LenProperties
  <2> QED BY <1>1, <1>6, <2>3
<1>8. ASSUME NEW j \in 1..n PROVE Expected(table[j].js, q.big) \in {"unclear", a[j]}
  <2>1. table[j] \in RowRecord /\ e[j] = table[j]
    BY <1>1, <1>2, <1>3
  <2>2. table[j].js \in Bindable /\ table[j].db = Stored(table[j].js)
    BY <2>1 DEF RowRecord
  <2>3. a[j] = ReadBack(table[j].db, q.big)
    BY <1>5, <2>1
  <2>4. q.big \in BOOLEAN
    BY DEF StmtRecord
  <2> QED BY <2>2, <2>3, <2>4, StoredReadsBack
<1> QED BY <1>6, <1>7, <1>8

LEMMA SqQueryKeeps ==
  ASSUME SqIInv, NEW s \in Stmts, NEW op \in {"get", "all"}, NEW params \in {<<>>, <<"wide">>},
         SqQuery(s, op, params)
  PROVE  SqIInv'
<1> DEFINE p == stmt[s]
           z == Reset(p)
           b == BindParams(z, params)
           q == IF ~b.ok THEN b.q ELSE IF op = "get" THEN StepRow(b.q) ELSE StepAll(b.q)
           from == b.q.cur + 1
           rows == IF op = "get" THEN SubSeq(table, from, from)
                   ELSE SubSeq(table, from, Len(table))
           a == IF ~b.ok THEN <<>> ELSE Shown(p, IF from > Len(table) THEN <<>> ELSE rows)
<1>1. /\ p.kind = "select"
      /\ stmt' = [stmt EXCEPT ![s] = q]
      /\ answer' = [NoAnswer EXCEPT !.op = op, !.ok = b.ok, !.arg = params, !.big = p.big,
                                    !.rows = a]
      /\ UNCHANGED <<conn, table, db>>
  BY DEF SqQuery
<1>2. p \in StmtRecord /\ StmtOK(p)
  BY StmtFacts
<1>3. SameStmt(z, p) /\ z.cur = 0 /\ z.ready = TRUE /\ z \in StmtRecord
  BY <1>2, ResetFields DEF SameStmt
<1>4. params # <<>> /\ params[1] # "object" => params[1] \in Bindable
  BY SqTypes
<1>5. /\ SameStmt(b.q, z) /\ b.q.cur = z.cur /\ b.ok \in BOOLEAN
      /\ z.kind # "insert" => (b.ok <=> params = <<>>)
  <2> HIDE DEF z
  <2> QED BY <1>3, <1>4, BindFields
<1> DEFINE u == b.q
<1>6. SameStmt(u, p) /\ u.cur = 0 /\ u \in StmtRecord /\ (b.ok <=> params = <<>>)
  <2> HIDE DEF z, b
  <2> QED BY <1>1, <1>3, <1>5 DEF SameStmt
<1>7. /\ q = IF ~b.ok THEN u ELSE IF op = "get" THEN StepRow(u) ELSE StepAll(u)
      /\ from = u.cur + 1
  OBVIOUS
<1>8. from = 1
  <2> HIDE DEF b
  <2> QED BY <1>6, <1>7
<1>9. table \in Seq(RowRecord) /\ Len(table) \in Nat
  BY TableFacts
<1>10. a = IF ~b.ok THEN <<>>
           ELSE Shown(p, IF 1 > Len(table) THEN <<>>
                         ELSE IF op = "get" THEN SubSeq(table, 1, 1)
                              ELSE SubSeq(table, 1, Len(table)))
  <2> HIDE DEF b, p, from
  <2> QED BY <1>8
<1> HIDE DEF p, z, b, u, from, rows, q, a
<1>11. SameStmt(q, p) /\ q.cur =< Len(table)
  <2>1. CASE ~b.ok
    BY <1>6, <1>7, <1>9, <2>1
  <2>2. CASE b.ok /\ op = "get"
    <3> DEFINE m == IF u.cur < Len(table) THEN u.cur + 1 ELSE 0
    <3>1. m \in Nat /\ m =< Len(table)
      BY <1>6, <1>9
    <3>2. q = [u EXCEPT !.ready = FALSE, !.cur = m]
      BY <1>7, <2>2 DEF StepRow
    <3> HIDE DEF m
    <3>3. SameStmt(q, p) /\ q.cur = m
      BY <1>6, <3>1, <3>2 DEF SameStmt, StmtRecord
    <3> QED BY <3>1, <3>3
  <2>3. CASE b.ok /\ op # "get"
    <3>1. q = [u EXCEPT !.ready = FALSE, !.cur = 0]
      BY <1>7, <2>3 DEF StepAll
    <3>2. SameStmt(q, p) /\ q.cur = 0
      BY <1>6, <3>1 DEF SameStmt, StmtRecord
    <3> QED BY <1>9, <3>2
  <2> QED BY <1>5, <2>1, <2>2, <2>3
<1>12. /\ q \in StmtRecord
       /\ q.held => q.lib = "live"
       /\ q.kind # "none" => q.lib = "live"
       /\ q.lib = "live" => q.conn \in Conns /\ conn[q.conn].lib \in {"open", "zombie"}
  BY <1>2, <1>11 DEF SameStmt, StmtOK
<1>13. /\ answer'.op = op /\ answer'.ok = b.ok /\ answer'.arg = params
       /\ answer'.big = p.big /\ answer'.rows = a /\ table' = table
  BY <1>1 DEF NoAnswer
<1>14. AnswerInv'
  <2>1. CASE ~b.ok
    <3>1. a = <<>> /\ params # <<>> /\ ~answer'.ok /\ DOMAIN a = {}
      BY <1>6, <1>10, <1>13, <2>1
    <3>2. CallIsSelfContained'
      BY <1>13, <3>1 DEF CallIsSelfContained
    <3>3. ValuesReadBack'
      BY <1>13, <3>1 DEF ValuesReadBack
    <3>4. ThrownRunWroteNothing'
      BY <1>13 DEF ThrownRunWroteNothing
    <3> QED BY <3>2, <3>3, <3>4 DEF AnswerInv
  <2>2. CASE b.ok
    <3> DEFINE n == IF op = "get" THEN (IF Len(table) = 0 THEN 0 ELSE 1) ELSE Len(table)
    <3>1. n \in 0..Len(table) /\ (1 =< n \/ Len(table) = 0)
      BY <1>9
    <3>2. a = Shown(p, IF 1 > Len(table) THEN <<>> ELSE SubSeq(table, 1, n))
      BY <1>9, <1>10, <2>2
    <3>3. table = <<>> <=> Len(table) = 0
      BY <1>9, EmptySeq
    <3>4. /\ op = "all" => n = Len(table)
          /\ op = "get" => n = IF table = <<>> THEN 0 ELSE 1
      BY <3>3
    <3> HIDE DEF n
    <3>5. /\ Len(a) = n /\ DOMAIN a = 1..n
          /\ \A j \in 1..n : Expected(table[j].js, p.big) \in {"unclear", a[j]}
      BY <1>2, <3>1, <3>2, ShownFields
    <3>6. CallIsSelfContained'
      BY <1>13, <2>2, <3>4, <3>5 DEF CallIsSelfContained
    <3>7. ValuesReadBack'
      BY <1>13, <3>5 DEF ValuesReadBack
    <3>8. ThrownRunWroteNothing'
      BY <1>13 DEF ThrownRunWroteNothing
    <3> QED BY <3>6, <3>7, <3>8 DEF AnswerInv
  <2> QED BY <1>5, <2>1, <2>2
<1> QED BY <1>1, <1>11, <1>12, <1>14, OneStmtKeeps

LEMMA SqInitIInv == SqInit => SqIInv
<1> SUFFICES ASSUME SqInit PROVE SqIInv
  OBVIOUS
<1>1. ConnsInv
  <2> DEFINE k == [lib |-> "none", ptr |-> FALSE, obj |-> FALSE, closes |-> 0]
  <2>1. ConnOK(k)
    BY DEF ConnOK, ConnRecord
  <2>2. conn = [c \in Conns |-> k]
    BY DEF SqInit
  <2> HIDE DEF k
  <2> QED BY <2>1, <2>2 DEF ConnsInv, ConnOK
<1>2. table = <<>> /\ Len(table) = 0 /\ table \in Seq(RowRecord)
  BY EmptySeq DEF SqInit
<1>3. StmtsInv
  <2>1. /\ NoStmt \in StmtRecord /\ NoStmt.lib = "none" /\ NoStmt.kind = "none"
        /\ NoStmt.held = FALSE /\ NoStmt.cur = 0
    BY SqTypes DEF NoStmt, StmtRecord
  <2>2. StmtOK(NoStmt)
    BY <1>2, <2>1 DEF StmtOK
  <2> QED BY <2>1, <2>2 DEF StmtsInv, SqInit
<1>4. TableInv
  BY <1>2, SqTypes DEF TableInv
<1>5. DbInv
  BY DEF SqInit, DbInv
<1>6. AnswerInv
  BY DEF SqInit, NoAnswer, AnswerInv, CallIsSelfContained, ValuesReadBack, ThrownRunWroteNothing
<1> QED BY <1>1, <1>3, <1>4, <1>5, <1>6 DEF SqIInv

LEMMA SqNextKeeps == SqIInv /\ [SqNext]_sqVars => SqIInv'
<1> SUFFICES ASSUME SqIInv, [SqNext]_sqVars PROVE SqIInv'
  OBVIOUS
<1>1. CASE UNCHANGED sqVars
  <2>1. ConnsInv' /\ StmtsInv' /\ TableInv' /\ DbInv'
    BY <1>1 DEF sqVars, SqIInv, ConnsInv, ConnOK, StmtsInv, StmtOK, TableInv, DbInv
  <2>2. AnswerInv'
    BY <1>1 DEF sqVars, SqIInv, AnswerInv, CallIsSelfContained, ValuesReadBack,
                ThrownRunWroteNothing
  <2> QED BY <2>1, <2>2 DEF SqIInv
<1>2. ASSUME NEW s \in Stmts,
             \/ \E kind \in {"insert", "select"} : SqPrepare(s, kind)
             \/ SetReadBigInts(s)
             \/ \E params \in Params : SqRun(s, params)
             \/ \E op \in {"get", "all"}, params \in {<<>>, <<"wide">>} : SqQuery(s, op, params)
             \/ SqDropStmt(s)
      PROVE  SqIInv'
  BY <1>2, SqPrepareKeeps, SetReadBigIntsKeeps, SqRunKeeps, SqQueryKeeps, SqDropStmtKeeps
<1>3. ASSUME SqGc PROVE SqIInv'
  BY <1>3, SqStmtFinalizerKeeps, SqDbFinalizerKeeps DEF SqGc
<1> QED BY <1>1, <1>2, <1>3, SqOpenKeeps, SqOpenFailsKeeps, SqCloseKeeps, SqExecKeeps,
           SqDropDbKeeps DEF SqNext

LEMMA SqIInvImplies == SqIInv => SqliteInv
<1> SUFFICES ASSUME SqIInv PROVE SqliteInv
  OBVIOUS
<1>1. ASSUME NEW s \in Stmts PROVE stmt[s].lib \in {"none", "live", "freed"} /\ stmt[s].cur \in 0..MaxRows
  <2>1. stmt[s].lib \in {"none", "live", "freed"} /\ stmt[s].cur \in Nat /\ stmt[s].cur =< Len(table)
    BY StmtFacts DEF StmtRecord, StmtOK
  <2> QED BY <2>1, TableFacts, SqTypes
<1>2. SqTypeOK
  BY <1>1, ConnFacts, TableFacts DEF SqTypeOK, ConnRecord
<1>3. ConnectionIsSound
  BY ConnFacts, StmtFacts DEF ConnectionIsSound, ConnOK, StmtOK
<1> QED BY <1>2, <1>3 DEF SqliteInv, SqIInv, AnswerInv

-----------------------------------------------------------------------------
(* The composition.                                                          *)

(* A step of the composition is, for each binding, a step of it or none.     *)
LEMMA StepOfEach ==
  ASSUME [Next]_vars
  PROVE  [FsNext]_fsVars /\ [RsNext]_rsVars /\ [SbNext]_sbVars /\ [SqNext]_sqVars
BY DEF Next, vars

(* Whatever the order of open, close, finalizer, pool thread and callback of *)
(* qn-uv-fs.c and qn-uv-dns.c, an open descriptor has one owner unless its    *)
(* QNFile could not be allocated, no file is closed behind its owner's back  *)
(* unless JavaScript has closed a descriptor by its number, a request whose  *)
(* file was not given up acts on that file with the same exception, and what *)
(* JavaScript was told of a path adds up to what is on the disk.             *)
THEOREM FsSafe == Spec => []FsInv
<1>1. Init => FsIInv
  BY FsInitIInv DEF Init
<1>2. FsIInv /\ [Next]_vars => FsIInv'
  BY FsNextKeeps, StepOfEach
<1> QED BY <1>1, <1>2, FsIInvImplies, PTL DEF Spec

(* A ReadStream of node:fs whose loop was started once emits its file in     *)
(* order, and one with any number of loops ends and closes at most once,     *)
(* however reads, events, pauses and destroys fall.                          *)
THEOREM ReadStreamSafe == Spec => []ReadStreamInv
<1>1. Init => RsIInv
  BY RsInitIInv DEF Init
<1>2. RsIInv /\ [Next]_vars => RsIInv'
  BY RsNextKeeps, StepOfEach
<1> QED BY <1>1, <1>2, RsIInvImplies, PTL DEF Spec

(* The pipes of a sandboxed worker have exactly the references their holders *)
(* account for, over the start, failure and end of both threads, and a pipe  *)
(* with messages has its waker set.                                          *)
THEOREM SandboxSafe == Spec => []SandboxInv
<1>1. Init => SbIInv
  BY SbInitIInv DEF Init
<1>2. SbIInv /\ [Next]_vars => SbIInv'
  BY SbNextKeeps, StepOfEach
<1> QED BY <1>1, <1>2, SbIInvImplies, PTL DEF Spec

(* Over open, close, prepare, run, query, drop and the collector's choices,  *)
(* a connection of node:sqlite is closed at most once and outlives its       *)
(* statements, a call depends on its parameters only, values come back as    *)
(* they went in, and a run() that throws on an open database wrote nothing.  *)
THEOREM SqliteSafe == Spec => []SqliteInv
<1>1. Init => SqIInv
  BY SqInitIInv DEF Init
<1>2. SqIInv /\ [Next]_vars => SqIInv'
  BY SqNextKeeps, StepOfEach
<1> QED BY <1>1, <1>2, SqIInvImplies, PTL DEF Spec
=============================================================================
