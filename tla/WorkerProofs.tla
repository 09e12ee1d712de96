---------------------------- MODULE WorkerProofs ----------------------------
(***************************************************************************)
(* Safety of the Worker object for any number of messages in flight, over   *)
(* all interleavings of the two threads.  WorkerInv says in which states of *)
(* the parent's pipe the struct, the reference in this_val and the read     *)
(* loop can be; the worker's thread matters only through its end of the     *)
(* socketpair.                                                              *)
(*                                                                         *)
(* Then the framed pipe, for every base, header size and set of messages:   *)
(* framing keeps its place (FramingSafe), and the pipe implements           *)
(* MsgChannel (PipeIsChannel).  That decode_u32 undoes encode_u32, and what *)
(* FlattenSeq makes of the frames, is proved by induction over sets of      *)
(* numbers, with the facts of SequenceFacts.                                *)
(***************************************************************************)
EXTENDS Worker, FramedPipe, SequenceFacts, TLAPS

(* this_val is set from js_worker_create until the close callback, and the    *)
(* struct is there at least as long.                                         *)
StructFollowsPipe ==
  /\ phandle = "none" => /\ struct = "none" /\ userRef = FALSE
                         /\ wst = "none" /\ wfd = "none"
  /\ phandle \in {"open", "closing"} => struct = "live" /\ thisVal = TRUE
  /\ phandle = "closed" => struct \in {"live", "freed"} /\ thisVal = FALSE
  /\ struct = "freed" => userRef = FALSE

(* libuv closes the pipe only after the read callback has returned.  *)
ReadingHasPipe == reading = TRUE => phandle \in {"open", "closing"}

(* The flags of the two ends.  *)
FlagsFollowPipe ==
  /\ pipe_closed = TRUE <=> phandle \in {"closing", "closed"}
  /\ wclosed = TRUE => wfd = "closed"
  /\ terminated = TRUE => pipe_closed = TRUE

(* The state of the pipe, the flags and the threads; no counter is involved.  *)
StatesOK ==
  /\ pjs \in BOOLEAN /\ proc \in {"run", "ended"}
  /\ phandle \in {"none", "open", "closing", "closed"}
  /\ pipe_closed \in BOOLEAN /\ terminated \in BOOLEAN /\ onmessage \in BOOLEAN
  /\ reading \in BOOLEAN /\ userRef \in BOOLEAN /\ thisVal \in BOOLEAN
  /\ struct \in {"none", "live", "freed"}
  /\ wst \in {"none", "start", "script", "loop", "gone", "aborted"}
  /\ wjs \in BOOLEAN /\ wfd \in {"none", "open", "closed"}
  /\ wclosed \in BOOLEAN /\ others \in BOOLEAN

(* The messages in flight and in the buffers.  *)
CountsOK ==
  /\ inbuf \in 0..MaxMsgs /\ wdelivered \in 0..MaxMsgs
  /\ p2w \in 0..MaxMsgs /\ w2p \in 0..MaxMsgs
  /\ releases \in Nat

WorkerInv == StatesOK /\ StructFollowsPipe /\ ReadingHasPipe /\ FlagsFollowPipe

-----------------------------------------------------------------------------
(* Before new Worker there is no struct, no pipe and no thread.  *)
LEMMA InitWorkerInv == Init => WorkerInv /\ CountsOK
<1> SUFFICES ASSUME Init PROVE WorkerInv /\ CountsOK
  OBVIOUS
<1>1. StatesOK
  BY DEF Init, StatesOK
<1>2. StructFollowsPipe /\ ReadingHasPipe /\ FlagsFollowPipe
  BY DEF Init, StructFollowsPipe, ReadingHasPipe, FlagsFollowPipe
<1>3. CountsOK
  BY MaxMsgsAssumption DEF Init, CountsOK
<1> QED
  BY <1>1, <1>2, <1>3 DEF WorkerInv

(* What JavaScript does to the Worker object, and its turns.  *)
LEMMA ParentJsWorkerInv ==
  ASSUME WorkerInv,
         \/ Create \/ PostMessage \/ Terminate \/ SetOnMessage
         \/ DropRef \/ ParentTurn \/ ParentReturns
  PROVE  WorkerInv'
<1> USE DEF WorkerInv, StatesOK, StructFollowsPipe, ReadingHasPipe, FlagsFollowPipe,
            HoldsWorker, Parent, InWorkerJs, WorkerLoop, parentVars, workerVars
<1>1. CASE Create
  <2>0. /\ phandle = "none" /\ wclosed # TRUE
        /\ pipe_closed # TRUE /\ terminated # TRUE /\ reading # TRUE
    BY <1>1 DEF Create
  <2>1. CASE phandle' = "open"
    <3>1. StatesOK'
      BY <1>1, <2>1 DEF Create
    <3>2. StructFollowsPipe' /\ ReadingHasPipe'
      BY <1>1, <2>0, <2>1 DEF Create
    <3>3. UNCHANGED <<pipe_closed, terminated, wclosed>> /\ wfd' = "open"
      BY <1>1, <2>1 DEF Create
    <3>4. FlagsFollowPipe'
      BY <2>0, <2>1, <3>3
    <3> QED
      BY <3>1, <3>2, <3>4
  <2>2. CASE phandle' = "closing"
    <3>1. StatesOK'
      BY <1>1, <2>2 DEF Create
    <3>2. (StructFollowsPipe /\ ReadingHasPipe /\ FlagsFollowPipe)'
      BY <1>1, <2>2 DEF Create
    <3> QED
      BY <3>1, <3>2
  <2> QED
    BY <1>1, <2>1, <2>2 DEF Create
<1>2. CASE PostMessage
  BY <1>2 DEF PostMessage
<1>3. CASE Terminate
  BY <1>3 DEF Terminate
<1>4. CASE SetOnMessage
  BY <1>4 DEF SetOnMessage
<1>5. CASE DropRef
  <2>1. phandle \in {"open", "closing", "closed"}
    BY <1>5 DEF DropRef
  <2>2. StatesOK'
    BY <1>5, <2>1 DEF DropRef
  <2>3. (StructFollowsPipe /\ ReadingHasPipe /\ FlagsFollowPipe)'
    BY <1>5, <2>1 DEF DropRef
  <2> QED
    BY <2>2, <2>3
<1>6. CASE ParentTurn
  BY <1>6 DEF ParentTurn
<1>7. CASE ParentReturns
  <2>1. StatesOK'
    <3>1. pjs' = FALSE
      BY <1>7, Zenon DEF ParentReturns
    <3>2. pjs' \in BOOLEAN
      BY <3>1
    <3> QED
      BY <1>7, <3>2 DEF ParentReturns
  <2>2. (StructFollowsPipe /\ ReadingHasPipe /\ FlagsFollowPipe)'
    BY <1>7 DEF ParentReturns
  <2> QED
    BY <2>1, <2>2
<1> QED
  BY <1>1, <1>2, <1>3, <1>4, <1>5, <1>6, <1>7

(* The callbacks of the parent's pipe, and the end of the process.  *)
LEMMA ParentLoopWorkerInv ==
  ASSUME WorkerInv,
         \/ WorkerReadCb \/ Dispatch \/ ReadCbReturns \/ WorkerReadEof
         \/ WorkerCloseCb \/ MainExits \/ RejectionExit
  PROVE  WorkerInv'
<1> USE DEF WorkerInv, StatesOK, StructFollowsPipe, ReadingHasPipe, FlagsFollowPipe,
            HoldsWorker, Parent, InWorkerJs, WorkerLoop, parentVars, workerVars
<1>1. CASE WorkerReadCb
  BY <1>1 DEF WorkerReadCb
<1>2. CASE Dispatch
  <2>1. StatesOK'
    BY <1>2 DEF Dispatch
  <2>2. (StructFollowsPipe /\ ReadingHasPipe /\ FlagsFollowPipe)'
    BY <1>2 DEF Dispatch
  <2> QED
    BY <2>1, <2>2
<1>3. CASE ReadCbReturns
  BY <1>3 DEF ReadCbReturns
<1>4. CASE WorkerReadEof
  BY <1>4 DEF WorkerReadEof
<1>5. CASE WorkerCloseCb
  BY <1>5 DEF WorkerCloseCb
<1>6. CASE MainExits
  BY <1>6 DEF MainExits
<1>7. CASE RejectionExit
  BY <1>7 DEF RejectionExit
<1> QED
  BY <1>1, <1>2, <1>3, <1>4, <1>5, <1>6, <1>7

(* The worker's thread touches the parent through the socketpair only.  *)
LEMMA ThreadWorkerInv ==
  ASSUME WorkerInv,
         \/ WorkerStart \/ WorkerEval \/ WorkerLoadFails \/ SelfReadCb
         \/ SelfDispatch \/ SelfReadEof \/ SelfClose \/ WorkerTurn
         \/ WorkerReturns \/ WorkerExits \/ SelfPostMessage \/ WorkerHandles
  PROVE  WorkerInv'
<1> USE DEF WorkerInv, StatesOK, StructFollowsPipe, ReadingHasPipe, FlagsFollowPipe,
            HoldsWorker, Parent, InWorkerJs, WorkerLoop, parentVars, workerVars
<1>1. CASE WorkerStart
  BY <1>1 DEF WorkerStart
<1>2. CASE WorkerEval
  BY <1>2 DEF WorkerEval
<1>3. CASE WorkerLoadFails
  BY <1>3 DEF WorkerLoadFails
<1>4. CASE SelfReadCb
  BY <1>4 DEF SelfReadCb
<1>5. CASE SelfDispatch
  BY <1>5 DEF SelfDispatch
<1>6. CASE SelfReadEof
  BY <1>6 DEF SelfReadEof, CloseSelf
<1>7. CASE SelfClose
  BY <1>7 DEF SelfClose, CloseSelf
<1>8. CASE WorkerTurn
  BY <1>8 DEF WorkerTurn
<1>9. CASE WorkerReturns
  BY <1>9 DEF WorkerReturns
<1>10. CASE WorkerExits
  BY <1>10 DEF WorkerExits
<1>11. CASE SelfPostMessage
  BY <1>11 DEF SelfPostMessage
<1>12. CASE WorkerHandles
  BY <1>12 DEF WorkerHandles
<1> QED
  BY <1>1, <1>2, <1>3, <1>4, <1>5, <1>6, <1>7, <1>8, <1>9, <1>10, <1>11, <1>12

(* The counters: a message is taken only from where there is one.  *)
LEMMA StepCounts == CountsOK /\ [Next]_vars => CountsOK'
<1> SUFFICES ASSUME CountsOK, [Next]_vars PROVE CountsOK'
  OBVIOUS
<1> USE MaxMsgsAssumption DEF CountsOK
<1>1. CASE PostMessage
  BY <1>1 DEF PostMessage, parentVars, workerVars
<1>2. CASE Terminate
  BY <1>2 DEF Terminate, parentVars, workerVars
<1>3. CASE WorkerReadCb
  BY <1>3 DEF WorkerReadCb, parentVars, workerVars
<1>4. CASE Dispatch
  BY <1>4 DEF Dispatch, parentVars, workerVars
<1>5. CASE WorkerCloseCb
  BY <1>5 DEF WorkerCloseCb, parentVars, workerVars
<1>6. CASE SelfReadCb
  BY <1>6 DEF SelfReadCb, parentVars, workerVars
<1>7. CASE SelfDispatch
  BY <1>7 DEF SelfDispatch, parentVars, workerVars
<1>8. CASE SelfReadEof
  BY <1>8 DEF SelfReadEof, CloseSelf, parentVars, workerVars
<1>9. CASE SelfClose
  BY <1>9 DEF SelfClose, CloseSelf, parentVars, workerVars
<1>10. CASE SelfPostMessage
  BY <1>10 DEF SelfPostMessage, parentVars, workerVars
<1>11. CASE UNCHANGED <<inbuf, wdelivered, p2w, w2p, releases>>
  BY <1>11
<1> QED
  BY <1>1, <1>2, <1>3, <1>4, <1>5, <1>6, <1>7, <1>8, <1>9, <1>10, <1>11
  DEF Next, ParentLoopStep, WorkerLoopStep, Ended, vars, parentVars, workerVars,
      Create, SetOnMessage, DropRef, ParentTurn, ParentReturns, ReadCbReturns,
      WorkerReadEof, MainExits, RejectionExit, WorkerStart, WorkerEval,
      WorkerLoadFails, WorkerTurn, WorkerReturns, WorkerExits, WorkerHandles

(* WorkerInv is an inductive invariant of both threads together.  *)
THEOREM WorkerInvariant == Spec => []WorkerInv
<1>1. WorkerInv /\ UNCHANGED vars => WorkerInv'
  BY DEF WorkerInv, StatesOK, StructFollowsPipe, ReadingHasPipe, FlagsFollowPipe,
         vars, parentVars, workerVars
<1>2. WorkerInv /\ [Next]_vars => WorkerInv'
  BY <1>1, ParentJsWorkerInv, ParentLoopWorkerInv, ThreadWorkerInv
  DEF Next, ParentLoopStep, WorkerLoopStep, Ended
<1> QED
  BY InitWorkerInv, <1>2, PTL DEF Spec

(* The variables keep their types; the buffers are never over-drawn.          *)
THEOREM WorkerTypeCorrect == Spec => []TypeOK
<1>1. WorkerInv /\ CountsOK => TypeOK
  BY DEF WorkerInv, StatesOK, CountsOK, TypeOK
<1> QED
  BY InitWorkerInv, StepCounts, WorkerInvariant, <1>1, PTL DEF Spec

(* The QNWorker is never freed while libuv has its pipe or worker_read_cb     *)
(* is on the stack.                                                          *)
THEOREM StructIsSafe == Spec => []StructOutlivesPipe
<1>1. WorkerInv => StructOutlivesPipe
  BY DEF WorkerInv, StatesOK, StructFollowsPipe, ReadingHasPipe, StructOutlivesPipe
<1> QED
  BY WorkerInvariant, <1>1, PTL

(* pipe_closed agrees with libuv, so no handle is closed twice or written to  *)
(* after it was closed.                                                      *)
THEOREM FlagIsExact == Spec => []PipeClosedIsExact
<1>1. WorkerInv => PipeClosedIsExact
  BY DEF WorkerInv, StatesOK, FlagsFollowPipe, PipeClosedIsExact
<1> QED
  BY WorkerInvariant, <1>1, PTL

(* After terminate() no read callback of the parent starts.  *)
THEOREM TerminateStopsReading == Spec => NoReadAfterTerminate
<1>1. WorkerInv /\ [Next]_vars => [terminated /\ ~reading => ~reading']_vars
  <2> SUFFICES ASSUME WorkerInv, [Next]_vars, terminated, ~reading
               PROVE  ~reading'
    BY DEF vars
  <2>1. phandle # "open"
    BY DEF WorkerInv, StatesOK, FlagsFollowPipe
  <2> QED
    BY <2>1
    DEF Next, vars, parentVars, workerVars, Create, PostMessage, Terminate,
        SetOnMessage, DropRef, ParentTurn, ParentReturns, ParentLoopStep, WorkerReadCb,
        Dispatch, ReadCbReturns, WorkerReadEof, WorkerCloseCb, MainExits, RejectionExit,
        WorkerLoopStep, WorkerStart, WorkerEval, SelfReadCb, SelfDispatch, SelfReadEof,
        WorkerExits, WorkerLoadFails, WorkerTurn, SelfPostMessage, SelfClose,
        WorkerHandles, WorkerReturns, Ended
<1> QED
  BY WorkerInvariant, <1>1, PTL DEF Spec, NoReadAfterTerminate

(* The parent's pipe has one owner at a time, and the struct outlives it.  *)
THEOREM PipeIsOwned == Spec => []PipeInv
<1>1. TypeOK /\ StructOutlivesPipe /\ PipeClosedIsExact => PipeInv
  BY DEF PipeInv
<1> QED
  BY WorkerTypeCorrect, StructIsSafe, FlagIsExact, <1>1, PTL

-----------------------------------------------------------------------------
(* The header.                                                               *)

(* What a byte of the header counts for: Base times the one before it.  *)
LEMMA WeightIs ==
  /\ Weight \in [0..HeaderSize -> Nat \ {0}]
  /\ Weight[0] = 1
  /\ \A k \in 1..HeaderSize : Weight[k] = Base * Weight[k - 1]
<1> DEFINE D == Nat \ {0}
           step == [k \in 1..HeaderSize |-> [x \in D |-> Base * x]]
<1>0. Base \in Nat \ {0, 1} /\ HeaderSize \in Nat
  BY FramedPipeAssumption
<1>1. Steps(step, HeaderSize, D)
  BY <1>0 DEF Steps
<1>2. \A k \in 1..HeaderSize, x \in D : step[k][x] = Base * x
  OBVIOUS
<1>3. 1 \in D
  OBVIOUS
<1> HIDE DEF step, D
<1>4. PICK g : Recurses(g, 1, HeaderSize, step, D)
  BY <1>0, <1>1, <1>3, Recursion, Zenon
<1>5. /\ g \in [0..HeaderSize -> D] /\ g[0] = 1
      /\ \A k \in 1..HeaderSize : g[k] = step[k][g[k - 1]]
  BY <1>4, Zenon DEF Recurses
<1>6. \A k \in 1..HeaderSize : g[k] = Base * g[k - 1]
  <2> TAKE k \in 1..HeaderSize
  <2>1. k - 1 \in 0..HeaderSize
    BY <1>0
  <2>2. g[k - 1] \in D
    BY <2>1, <1>5
  <2> QED  BY <1>2, <1>5, <2>2
<1>7. g = [k \in 0..HeaderSize |-> IF k = 0 THEN 1 ELSE Base * g[k - 1]]
  <2>1. \A k \in 0..HeaderSize : g[k] = IF k = 0 THEN 1 ELSE Base * g[k - 1]
    <3> TAKE k \in 0..HeaderSize
    <3>1. CASE k = 0
      BY <3>1, <1>5
    <3>2. CASE k # 0
      <4>1. k \in 1..HeaderSize
        BY <3>2, <1>0
      <4> QED  BY <4>1, <3>2, <1>6
    <3> QED  BY <3>1, <3>2
  <2>2. g = [k \in 0..HeaderSize |-> g[k]]
    BY <1>5
  <2> QED  BY <2>1, <2>2
<1>8. Weight = [k \in 0..HeaderSize |-> IF k = 0 THEN 1 ELSE Base * Weight[k - 1]]
  BY <1>7, Zenon DEF Weight
<1> HIDE DEF Weight
<1>9. Weight[0] = 1 /\ \A k \in 1..HeaderSize : Weight[k] = Base * Weight[k - 1]
  <2>1. Weight[0] = 1
    <3>1. 0 \in 0..HeaderSize
      BY <1>0
    <3> QED  BY <1>8, <3>1
  <2>2. ASSUME NEW k \in 1..HeaderSize PROVE Weight[k] = Base * Weight[k - 1]
    <3>1. k \in 0..HeaderSize /\ k # 0
      BY <1>0
    <3> QED  BY <1>8, <3>1
  <2> QED  BY <2>1, <2>2
<1> DEFINE T == {k \in 0..HeaderSize : Weight[k] \in Nat \ {0}}
<1>10. 0 \in T
  BY <1>0, <1>9
<1>11. ASSUME NEW k \in 0..(HeaderSize - 1), k \in T PROVE k + 1 \in T
  <2>1. k + 1 \in 1..HeaderSize /\ k + 1 \in 0..HeaderSize /\ (k + 1) - 1 = k
    BY <1>0
  <2>2. Weight[k + 1] = Base * Weight[k]
    BY <2>1, <1>9
  <2>3. Weight[k] \in Nat \ {0}
    BY <1>11
  <2>4. Base * Weight[k] \in Nat \ {0}
    BY <1>0, <2>3
  <2> QED  BY <2>1, <2>2, <2>4
<1>12. 0..HeaderSize \subseteq T
  <2> HIDE DEF T
  <2> QED  BY <1>0, <1>10, <1>11, IntervalInduction
<1>13. \A k \in 0..HeaderSize : Weight[k] \in Nat \ {0}
  BY <1>12
<1>14. Weight = [k \in 0..HeaderSize |-> Weight[k]]
  BY <1>8
<1> QED  BY <1>9, <1>13, <1>14

(* Division with a remainder.  *)
Divides(n, m, q, r) == q = n \div m /\ r = n % m

(* What \div and % give.  *)
LEMMA Division ==
  ASSUME NEW n \in Nat, NEW m \in Nat \ {0}, NEW q, NEW r, Divides(n, m, q, r)
  PROVE  q \in Nat /\ r \in 0..(m - 1) /\ n = m * q + r
<1>1. q \in Int /\ r \in 0..(m - 1)
  BY DEF Divides
<1>2. n = m * q + r
  BY DEF Divides
<1>3. q >= 0
  <2> SUFFICES ASSUME q <= -1 PROVE FALSE
    BY <1>1
  <2>1. m * q <= -m
    BY <1>1
  <2> QED  BY <1>1, <1>2, <2>1
<1>4. q \in Nat
  BY <1>1, <1>3
<1> QED  BY <1>1, <1>2, <1>4

(* The remainder is the only one.  *)
LEMMA Remainder ==
  ASSUME NEW n \in Nat, NEW m \in Nat \ {0}, NEW q \in Nat, NEW r \in 0..(m - 1), n = m * q + r
  PROVE  n % m = r
OBVIOUS

(* One digit more of a number.  *)
LEMMA NextDigit ==
  ASSUME NEW n \in Nat, NEW w \in Nat \ {0}, NEW b \in Nat \ {0}
  PROVE  n % (b * w) = (n % w) + ((n \div w) % b) * w
<1> DEFINE q == n \div w
           r == n % w
           p == q \div b
           d == q % b
<1>1. q \in Nat /\ r \in 0..(w - 1) /\ n = w * q + r
  <2>1. Divides(n, w, q, r)
    BY DEF Divides
  <2> HIDE DEF q, r
  <2> QED  BY <2>1, Division
<1>2. p \in Nat /\ d \in 0..(b - 1) /\ q = b * p + d
  <2> HIDE DEF q
  <2>1. Divides(q, b, p, d)
    BY DEF Divides
  <2> HIDE DEF p, d
  <2> QED  BY <1>1, <2>1, Division
<1> HIDE DEF q, r, p, d
<1>3. n = w * (b * p + d) + r
  BY <1>1, <1>2
<1>4. w * (b * p + d) = (b * w) * p + d * w
  BY <1>1, <1>2
<1>5. d * w <= (b - 1) * w
  BY <1>2
<1>6. (b - 1) * w = b * w - w
  OBVIOUS
<1> DEFINE m == b * w
           x == d * w
           y == x + r
<1>7. x \in Nat /\ m \in Nat
  BY <1>2
<1>8. m > 0
  OBVIOUS
<1>9. x <= m - w /\ n = m * p + x + r
  BY <1>1, <1>2, <1>3, <1>4, <1>5, <1>6
<1> HIDE DEF x, m
<1>10. y \in 0..(m - 1) /\ n = m * p + y
  <2>1. m * p \in Nat
    BY <1>2, <1>7
  <2> QED  BY <1>1, <1>7, <1>9, <2>1
<1> HIDE DEF y
<1>11. n % m = y
  BY <1>2, <1>7, <1>8, <1>10, Remainder
<1> QED  BY <1>11 DEF m, x, y, r, d, q

(* What encode_u32 writes, decode_u32 reads.  *)
LEMMA EncodeType ==
  ASSUME NEW n \in Nat
  PROVE  encode_u32(n) \in Seq(Byte) /\ Len(encode_u32(n)) = HeaderSize
<1>0. Base \in Nat \ {0, 1} /\ HeaderSize \in Nat
  BY FramedPipeAssumption
<1>1. \A i \in 1..HeaderSize : (n \div Weight[i - 1]) % Base \in Byte
  <2> TAKE i \in 1..HeaderSize
  <2>1. i - 1 \in 0..HeaderSize
    BY <1>0
  <2>2. Weight[i - 1] \in Nat \ {0}
    BY <2>1, WeightIs
  <2> DEFINE w == Weight[i - 1]
             q == n \div w
  <2>3. q \in Nat
    <3> HIDE DEF w
    <3>1. w \in Nat \ {0}
      BY <2>2 DEF w
    <3> QED  BY <3>1
  <2> HIDE DEF q
  <2>4. q % Base \in 0..(Base - 1)
    BY <1>0, <2>3
  <2> QED  BY <2>3, <2>4 DEF q, Byte
<1> DEFINE e == encode_u32(n)
<1>2. e \in [1..HeaderSize -> Byte]
  BY <1>1 DEF encode_u32
<1> HIDE DEF e
<1>3. e \in Seq(Byte) /\ Len(e) = HeaderSize
  BY <1>0, <1>2
<1> QED  BY <1>3 DEF e

(* decode_u32 reads what encode_u32 has written, however long the header is.  *)
LEMMA DecodeEncode ==
  ASSUME NEW n \in 0..(Weight[HeaderSize] - 1), NEW b,
         \A i \in 1..HeaderSize : b[i] = encode_u32(n)[i]
  PROVE  decode_u32(b) = n
<1>0. Base \in Nat \ {0, 1} /\ HeaderSize \in Nat /\ n \in Nat /\ n < Weight[HeaderSize]
  <2>1. HeaderSize \in 0..HeaderSize
    BY FramedPipeAssumption
  <2>2. Weight[HeaderSize] \in Nat
    BY <2>1, WeightIs
  <2> QED  BY <2>2, FramedPipeAssumption
<1>1. \A k \in 0..HeaderSize : Weight[k] \in Nat \ {0}
  BY WeightIs
<1>2. \A k \in 1..HeaderSize : b[k] = (n \div Weight[k - 1]) % Base
  BY DEF encode_u32
<1> DEFINE g == [k \in 0..HeaderSize |-> n % Weight[k]]
           value[k \in 0..HeaderSize] == IF k = 0 THEN 0 ELSE value[k - 1] + b[k] * Weight[k - 1]
<1>3. \A k \in 0..HeaderSize : g[k] = IF k = 0 THEN 0 ELSE g[k - 1] + b[k] * Weight[k - 1]
  <2> TAKE k \in 0..HeaderSize
  <2>1. CASE k = 0
    <3>1. n % 1 = 0
      BY <1>0
    <3> QED  BY <2>1, <3>1, WeightIs
  <2>2. CASE k # 0
    <3>1. k \in 1..HeaderSize /\ k - 1 \in 0..HeaderSize
      BY <2>2, <1>0
    <3>2. g[k] = n % (Base * Weight[k - 1]) /\ g[k - 1] = n % Weight[k - 1]
      BY <3>1, WeightIs
    <3>3. Weight[k - 1] \in Nat \ {0}
      BY <3>1, <1>1
    <3> HIDE DEF g
    <3> DEFINE w == Weight[k - 1]
    <3>4. n % (Base * w) = (n % w) + ((n \div w) % Base) * w
      <4> HIDE DEF w
      <4>1. w \in Nat \ {0}
        BY <3>3 DEF w
      <4> QED  BY <1>0, <4>1, NextDigit
    <3>5. g[k] = g[k - 1] + b[k] * Weight[k - 1]
      BY <3>1, <3>2, <3>4, <1>2
    <3> QED  BY <2>2, <3>5
  <2> QED  BY <2>1, <2>2
<1>4. g = [k \in 0..HeaderSize |-> IF k = 0 THEN 0 ELSE g[k - 1] + b[k] * Weight[k - 1]]
  <2> HIDE DEF value
  <2>1. g = [k \in 0..HeaderSize |-> g[k]]
    OBVIOUS
  <2> HIDE DEF g
  <2> QED  BY <1>3, <2>1
<1> HIDE DEF g
<1>5. value = [k \in 0..HeaderSize |-> IF k = 0 THEN 0 ELSE value[k - 1] + b[k] * Weight[k - 1]]
  BY <1>4, Zenon DEF value
<1>6. decode_u32(b) = value[HeaderSize]
  BY Zenon DEF decode_u32, value
<1> HIDE DEF value
<1> DEFINE T == {k \in 0..HeaderSize : value[k] = g[k]}
<1>7. 0 \in T
  <2>1. 0 \in 0..HeaderSize
    BY <1>0
  <2>2. g[0] = 0
    BY <2>1, <1>3
  <2>3. value[0] = 0
    BY <2>1, <1>5
  <2> QED  BY <2>1, <2>2, <2>3
<1>8. ASSUME NEW k \in 0..(HeaderSize - 1), k \in T PROVE k + 1 \in T
  <2>1. k + 1 \in 0..HeaderSize /\ k + 1 # 0 /\ (k + 1) - 1 = k
    BY <1>0
  <2>2. g[k + 1] = g[k] + b[k + 1] * Weight[k]
    BY <2>1, <1>3
  <2>3. value[k + 1] = value[k] + b[k + 1] * Weight[k]
    BY <2>1, <1>5
  <2>4. value[k] = g[k]
    BY <1>8
  <2>5. value[k + 1] = g[k + 1]
    BY <2>2, <2>3, <2>4
  <2> QED  BY <2>1, <2>5
<1>9. 0..HeaderSize \subseteq T
  <2> HIDE DEF T
  <2> QED  BY <1>0, <1>7, <1>8, IntervalInduction
<1>10. HeaderSize \in 0..HeaderSize
  BY <1>0
<1>11. value[HeaderSize] = g[HeaderSize]
  BY <1>9, <1>10
<1>12. g[HeaderSize] = n % Weight[HeaderSize]
  BY <1>10 DEF g
<1>13. n % Weight[HeaderSize] = n
  <2> DEFINE m == Weight[HeaderSize]
  <2>1. m \in Nat \ {0} /\ n < m
    BY <1>0, <1>1, <1>10
  <2> HIDE DEF m
  <2>2. n \in 0..(m - 1) /\ n = m * 0 + n
    BY <1>0, <2>1
  <2>3. n % m = n
    BY <1>0, <2>1, <2>2, Remainder
  <2> QED  BY <2>3 DEF m
<1> QED  BY <1>6, <1>11, <1>12, <1>13

-----------------------------------------------------------------------------
(* Frames.                                                                   *)

FramesOf(u) == FlattenSeq([i \in 1..Len(u) |-> Frame(u[i])])

(* A frame is its header and its message.  *)
LEMMA FrameType ==
  ASSUME NEW m \in Message
  PROVE  /\ Frame(m) \in Seq(Byte) /\ Len(Frame(m)) = HeaderSize + Len(m)
         /\ m \in Seq(Byte) /\ Len(m) \in Nat \ {0} /\ Len(m) \in 0..(Weight[HeaderSize] - 1)
         /\ encode_u32(Len(m)) \in Seq(Byte) /\ Len(encode_u32(Len(m))) = HeaderSize
<1>1. m \in Seq(Byte) /\ Len(m) \in 1..(Weight[HeaderSize] - 1)
  BY FramedPipeAssumption
<1>2. Len(m) \in Nat \ {0} /\ Len(m) \in 0..(Weight[HeaderSize] - 1)
  BY <1>1
<1>3. encode_u32(Len(m)) \in Seq(Byte) /\ Len(encode_u32(Len(m))) = HeaderSize
  BY <1>2, EncodeType
<1> DEFINE h == encode_u32(Len(m))
<1> HIDE DEF h
<1>4. h \in Seq(Byte) /\ Len(h) = HeaderSize
  BY <1>3 DEF h
<1>5. h \o m \in Seq(Byte) /\ Len(h \o m) = HeaderSize + Len(m)
  BY <1>1, <1>4
<1> QED  BY <1>1, <1>2, <1>3, <1>5 DEF Frame, h

(* The frames of messages, one by one.  *)
LEMMA FrameSeq ==
  ASSUME NEW u \in Seq(Message)
  PROVE  [i \in 1..Len(u) |-> Frame(u[i])] \in Seq(Seq(Byte))
<1>1. \A i \in 1..Len(u) : Frame(u[i]) \in Seq(Byte)
  BY FrameType
<1>2. Len(u) \in Nat
  OBVIOUS
<1> DEFINE f == [i \in 1..Len(u) |-> Frame(u[i])]
<1>3. f \in [1..Len(u) -> Seq(Byte)]
  BY <1>1
<1> HIDE DEF f
<1>4. f \in Seq(Seq(Byte))
  BY <1>2, <1>3
<1> QED  BY <1>4 DEF f

(* The frames put together are bytes.  *)
LEMMA FramesType ==
  ASSUME NEW u \in Seq(Message)
  PROVE  FramesOf(u) \in Seq(Byte)
BY FrameSeq, FlattenType DEF FramesOf

(* No message, no byte.  *)
LEMMA FramesEmpty == FramesOf(<<>>) = <<>>
<1>1. [i \in 1..Len(<<>>) |-> Frame(<<>>[i])] = <<>>
  OBVIOUS
<1> QED  BY <1>1, FlattenEmpty DEF FramesOf

(* A message more, at the end.  *)
LEMMA FramesAppend ==
  ASSUME NEW u \in Seq(Message), NEW m \in Message
  PROVE  FramesOf(Append(u, m)) = FramesOf(u) \o Frame(m)
<1> DEFINE v == Append(u, m)
           f == [i \in 1..Len(u) |-> Frame(u[i])]
           g == [i \in 1..Len(v) |-> Frame(v[i])]
           x == Frame(m)
<1>1. v \in Seq(Message) /\ Len(v) = Len(u) + 1 /\ v[Len(u) + 1] = m /\ Len(u) \in Nat
      /\ \A i \in 1..Len(u) : v[i] = u[i]
  OBVIOUS
<1> HIDE DEF v
<1>2. f \in Seq(Seq(Byte)) /\ g \in Seq(Seq(Byte)) /\ x \in Seq(Byte)
  BY <1>1, FrameSeq, FrameType
<1>3. Len(f) = Len(u) /\ Len(g) = Len(u) + 1
  BY <1>1
<1>4. /\ \A i \in 1..Len(u) : f[i] = Frame(u[i]) /\ g[i] = Frame(u[i])
      /\ g[Len(u) + 1] = x
  BY <1>1
<1> HIDE DEF f, g, x
<1>5. g = Append(f, x)
  <2>1. Append(f, x) \in Seq(Seq(Byte)) /\ Len(Append(f, x)) = Len(g)
    BY <1>2, <1>3
  <2>2. \A i \in 1..Len(g) : g[i] = Append(f, x)[i]
    <3> TAKE i \in 1..Len(g)
    <3>1. CASE i = Len(u) + 1
      BY <3>1, <1>1, <1>2, <1>3, <1>4
    <3>2. CASE i # Len(u) + 1
      <4>1. i \in 1..Len(u)
        BY <3>2, <1>1, <1>3
      <4>2. Append(f, x)[i] = f[i]
        BY <4>1, <1>2, <1>3
      <4> QED  BY <4>1, <4>2, <1>4
    <3> QED  BY <3>1, <3>2
  <2> QED  BY <1>2, <2>1, <2>2, SeqEqual
<1>6. FlattenSeq(Append(f, x)) = FlattenSeq(f) \o x
  BY <1>2, FlattenAppend
<1>7. FramesOf(v) = FlattenSeq(g) /\ FramesOf(u) = FlattenSeq(f)
  BY DEF FramesOf, f, g
<1> QED  BY <1>5, <1>6, <1>7 DEF v, x

(* The first message's frame comes first.  *)
LEMMA FramesFirst ==
  ASSUME NEW u \in Seq(Message), u # <<>>
  PROVE  FramesOf(u) = Frame(Head(u)) \o FramesOf(Tail(u))
<1> DEFINE v == Tail(u)
           f == [i \in 1..Len(u) |-> Frame(u[i])]
           g == [i \in 1..Len(v) |-> Frame(v[i])]
<1>1. /\ v \in Seq(Message) /\ Len(v) = Len(u) - 1 /\ Len(u) \in Nat \ {0}
      /\ Head(u) = u[1] /\ \A i \in 1..Len(v) : v[i] = u[i + 1]
  OBVIOUS
<1> HIDE DEF v
<1>2. f \in Seq(Seq(Byte)) /\ g \in Seq(Seq(Byte))
  BY <1>1, FrameSeq
<1>3. Len(f) = Len(u) /\ Len(g) = Len(u) - 1
  BY <1>1
<1>4. /\ \A i \in 1..Len(u) : f[i] = Frame(u[i])
      /\ \A i \in 1..Len(v) : g[i] = Frame(u[i + 1])
  BY <1>1
<1> HIDE DEF f, g
<1>5. f # <<>> /\ Head(f) = Frame(Head(u))
  BY <1>1, <1>2, <1>3, <1>4
<1>6. Tail(f) = g
  <2>1. Tail(f) \in Seq(Seq(Byte)) /\ Len(Tail(f)) = Len(g)
    BY <1>1, <1>2, <1>3, <1>5
  <2>2. \A i \in 1..Len(g) : Tail(f)[i] = g[i]
    <3> TAKE i \in 1..Len(g)
    <3>1. i \in 1..Len(v) /\ i + 1 \in 1..Len(u)
      BY <1>1, <1>3
    <3>2. Tail(f)[i] = f[i + 1]
      BY <1>1, <1>2, <1>3, <1>5, <3>1
    <3> QED  BY <3>1, <3>2, <1>4
  <2> QED  BY <1>2, <2>1, <2>2, SeqEqual
<1>7. FlattenSeq(f) = Head(f) \o FlattenSeq(Tail(f))
  BY <1>2, <1>5, FlattenFirst
<1>8. FramesOf(u) = FlattenSeq(f) /\ FramesOf(v) = FlattenSeq(g)
  BY DEF FramesOf, f, g
<1> QED  BY <1>5, <1>6, <1>7, <1>8 DEF v

(* Four pieces, put together from the left and from the right.  *)
FromLeft(a, b, c, d)  == ((a \o b) \o c) \o d
FromRight(a, b, c, d) == a \o (b \o (c \o d))

(* Both ways give the same.  *)
LEMMA FourParts ==
  ASSUME NEW S, NEW a \in Seq(S), NEW b \in Seq(S), NEW c \in Seq(S), NEW d \in Seq(S)
  PROVE  FromLeft(a, b, c, d) = FromRight(a, b, c, d)
<1>1. a \o b \in Seq(S) /\ c \o d \in Seq(S)
  OBVIOUS
<1> DEFINE e == a \o b
           f == c \o d
<1>2. (e \o c) \o d = e \o f
  <2> HIDE DEF e
  <2>1. e \in Seq(S)
    BY <1>1 DEF e
  <2> QED  BY <2>1
<1>3. e \o f = a \o (b \o f)
  <2> HIDE DEF f
  <2>1. f \in Seq(S)
    BY <1>1 DEF f
  <2> QED  BY <2>1
<1> QED  BY <1>2, <1>3 DEF FromLeft, FromRight

(* The bytes on their way begin with the header of the message that comes    *)
(* next, as soon as there are enough of them.                                *)
LEMMA HeaderNext ==
  ASSUME NEW u \in Seq(Message), NEW x \in Seq(Byte), IsPrefix(x, FramesOf(u)),
         Len(x) >= HeaderSize
  PROVE  /\ u # <<>> /\ Head(u) \in Message
         /\ \A i \in 1..HeaderSize : x[i] = encode_u32(Len(Head(u)))[i]
<1>0. HeaderSize \in Nat \ {0}
  BY FramedPipeAssumption
<1>1. PICK z \in Seq(Byte) : FramesOf(u) = x \o z
  BY FramesType, PrefixRest
<1>2. u # <<>>
  <2> SUFFICES ASSUME u = <<>> PROVE FALSE
    OBVIOUS
  <2>1. Len(x \o z) = 0
    BY <1>1, FramesEmpty
  <2>2. Len(x \o z) = Len(x) + Len(z) /\ Len(x) \in Nat /\ Len(z) \in Nat
    OBVIOUS
  <2> QED  BY <2>1, <2>2, <1>0
<1>3. Head(u) \in Message /\ Tail(u) \in Seq(Message)
  BY <1>2
<1> DEFINE h == encode_u32(Len(Head(u)))
           r == Head(u) \o FramesOf(Tail(u))
<1>4. h \in Seq(Byte) /\ Len(h) = HeaderSize /\ Head(u) \in Seq(Byte)
  BY <1>3, FrameType
<1>5. FramesOf(Tail(u)) \in Seq(Byte)
  BY <1>3, FramesType
<1>6. FramesOf(u) = (h \o Head(u)) \o FramesOf(Tail(u))
  BY <1>2, FramesFirst DEF Frame
<1>7. FramesOf(u) = h \o r /\ r \in Seq(Byte)
  <2> DEFINE a == Head(u)
             b == FramesOf(Tail(u))
  <2>1. h \in Seq(Byte) /\ a \in Seq(Byte) /\ b \in Seq(Byte)
    BY <1>4, <1>5
  <2> HIDE DEF a, b, h
  <2>2. (h \o a) \o b = h \o (a \o b) /\ a \o b \in Seq(Byte)
    BY <2>1
  <2> QED  BY <1>6, <2>2 DEF a, b
<1> HIDE DEF h, r
<1>8. \A i \in 1..HeaderSize : x[i] = h[i]
  <2> TAKE i \in 1..HeaderSize
  <2>1. (x \o z)[i] = x[i]
    BY <1>0
  <2>2. (h \o r)[i] = h[i]
    BY <1>4, <1>7
  <2> QED  BY <2>1, <2>2, <1>1, <1>7
<1> QED  BY <1>2, <1>3, <1>8 DEF h

(* Once its last byte is among them, they begin with its frame, and the      *)
(* frames of the other messages come after it.                               *)
LEMMA FrameNext ==
  ASSUME NEW u \in Seq(Message), u # <<>>, NEW y \in Seq(Byte),
         IsPrefix(Frame(Head(u)) \o y, FramesOf(u))
  PROVE  /\ IsPrefix(y, FramesOf(Tail(u)))
         /\ Frame(Head(u)) \o y = FramesOf(u) => y = FramesOf(Tail(u))
<1> DEFINE f == Frame(Head(u))
           t == FramesOf(Tail(u))
<1>1. f \in Seq(Byte) /\ t \in Seq(Byte)
  <2>1. Head(u) \in Message /\ Tail(u) \in Seq(Message)
    OBVIOUS
  <2> QED  BY <2>1, FrameType, FramesType
<1>2. FramesOf(u) = f \o t
  BY FramesFirst
<1> HIDE DEF f, t
<1>3. f \o y \in Seq(Byte) /\ f \o t \in Seq(Byte)
  BY <1>1
<1>4. IsPrefix(f \o y, f \o t)
  BY <1>2 DEF f
<1>5. PICK z \in Seq(Byte) : f \o t = (f \o y) \o z
  <2> DEFINE p == f \o y
             q == f \o t
  <2>1. p \in Seq(Byte) /\ q \in Seq(Byte) /\ IsPrefix(p, q)
    BY <1>3, <1>4
  <2> HIDE DEF p, q
  <2>2. \E z \in Seq(Byte) : q = p \o z
    BY <2>1, PrefixRest
  <2> QED  BY <2>2 DEF p, q
<1>6. (f \o y) \o z = f \o (y \o z) /\ y \o z \in Seq(Byte)
  BY <1>1
<1>7. t = y \o z
  BY <1>1, <1>5, <1>6, SameCut
<1>8. IsPrefix(y, t)
  BY <1>7, PrefixJoin
<1>9. f \o y = f \o t => y = t
  BY <1>1, SameCut
<1> QED  BY <1>2, <1>8, <1>9 DEF f, t

-----------------------------------------------------------------------------
(* The pipe.                                                                 *)

(* What is on its way, and the messages, from the parts of a state.  *)
HeaderOf(n) == IF n = 0 THEN <<>> ELSE encode_u32(n)
Bytes(n, b, w, o) == HeaderOf(n) \o (b \o (w \o o))
Rest(s, d) == SubSeq(s, Len(d) + 1, Len(s))

Synced(u, x, closed) == IF closed THEN IsPrefix(x, FramesOf(u)) ELSE x = FramesOf(u)

NoneInvented == Len(taken) =< Len(sent)

FramedIInv == FramedTypeOK /\ NoneInvented /\ InSync

(* The header put back is bytes.  *)
LEMMA HeaderOfType ==
  ASSUME NEW n \in Nat
  PROVE  HeaderOf(n) \in Seq(Byte)
BY EncodeType DEF HeaderOf

(* Unread, put together from the right.  *)
LEMMA UnreadIs ==
  ASSUME FramedTypeOK
  PROVE  Unread = Bytes(msg_len, buf, net, outq) /\ Unread \in Seq(Byte)
<1>1. msg_len \in Nat /\ buf \in Seq(Byte) /\ net \in Seq(Byte) /\ outq \in Seq(Byte)
  <2>1. HeaderSize \in 0..HeaderSize
    BY FramedPipeAssumption
  <2>2. Weight[HeaderSize] \in Nat
    BY <2>1, WeightIs
  <2> QED  BY <2>2 DEF FramedTypeOK
<1> DEFINE h == HeaderOf(msg_len)
<1>2. h \in Seq(Byte)
  BY <1>1, HeaderOfType
<1>3. Unread = ((h \o buf) \o net) \o outq
  BY DEF Unread, HeaderOf
<1> HIDE DEF h
<1>4. FromLeft(h, buf, net, outq) = FromRight(h, buf, net, outq)
  <2>1. h \in Seq(Byte) /\ buf \in Seq(Byte) /\ net \in Seq(Byte) /\ outq \in Seq(Byte)
    BY <1>1, <1>2
  <2> QED  BY <2>1, FourParts, Zenon
<1>5. h \o (buf \o (net \o outq)) \in Seq(Byte)
  BY <1>1, <1>2
<1> QED  BY <1>3, <1>4, <1>5 DEF FromLeft, FromRight, Bytes, h

(* What is undelivered is the end of what was sent.  *)
LEMMA UntakenIs ==
  ASSUME FramedTypeOK, NoneInvented
  PROVE  /\ Untaken \in Seq(Message) /\ Len(Untaken) = Len(sent) - Len(taken)
         /\ \A i \in 1..(Len(sent) - Len(taken)) : Untaken[i] = sent[Len(taken) + i]
         /\ InSync <=> Synced(Untaken, Unread, writerClosed)
<1>1. sent \in Seq(Message) /\ Len(taken) \in 0..Len(sent)
  BY DEF FramedTypeOK, NoneInvented
<1> DEFINE n == Len(taken)
           u == SubSeq(sent, n + 1, Len(sent))
<1>2. /\ u \in Seq(Message) /\ Len(u) = Len(sent) - n
      /\ \A i \in 1..(Len(sent) - n) : u[i] = sent[n + i]
  <2> HIDE DEF n
  <2>1. n \in 0..Len(sent)
    BY <1>1 DEF n
  <2> QED  BY <1>1, <2>1, Cut
<1>3. InSync <=> Synced(Untaken, Unread, writerClosed)
  BY DEF InSync, Synced, FramesOf, Frames
<1> HIDE DEF u
<1>4. Untaken = u
  BY DEF Untaken, u
<1> QED  BY <1>2, <1>3, <1>4

(* Where a header has come in, the reader knows the message that comes next. *)
LEMMA ReaderKnows ==
  ASSUME FramedIInv, HeaderDue \/ msg_len # 0
  PROVE  /\ Untaken # <<>> /\ Head(Untaken) \in Message
         /\ Expected = Len(Head(Untaken)) /\ Body \in Seq(Byte)
         /\ Unread = encode_u32(Expected) \o (Body \o (net \o outq))
<1>1. /\ FramedTypeOK /\ Unread = Bytes(msg_len, buf, net, outq) /\ Unread \in Seq(Byte)
      /\ Untaken \in Seq(Message) /\ IsPrefix(Unread, FramesOf(Untaken))
  <2>1. FramedTypeOK /\ NoneInvented /\ InSync
    BY DEF FramedIInv
  <2>2. /\ Untaken \in Seq(Message) /\ Synced(Untaken, Unread, writerClosed)
        /\ Unread = Bytes(msg_len, buf, net, outq) /\ Unread \in Seq(Byte)
    BY <2>1, UntakenIs, UnreadIs
  <2>3. IsPrefix(Unread, FramesOf(Untaken))
    <3>1. CASE writerClosed
      BY <3>1, <2>2 DEF Synced
    <3>2. CASE ~writerClosed
      <4>1. Unread = FramesOf(Untaken) /\ Unread \o <<>> = Unread /\ <<>> \in Seq(Byte)
        BY <3>2, <2>2 DEF Synced
      <4>2. IsPrefix(Unread, Unread \o <<>>)
        BY <2>2, <4>1, PrefixJoin
      <4> QED  BY <4>1, <4>2
    <3> QED  BY <3>1, <3>2
  <2> QED  BY <2>1, <2>2, <2>3
<1>2. buf \in Seq(Byte) /\ net \in Seq(Byte) /\ outq \in Seq(Byte) /\ HeaderSize \in Nat \ {0}
      /\ msg_len \in 0..(Weight[HeaderSize] - 1)
  BY <1>1, FramedPipeAssumption DEF FramedTypeOK
<1> DEFINE r == net \o outq
           m == Head(Untaken)
           h == encode_u32(Len(m))
<1>3. r \in Seq(Byte)
  BY <1>2
<1> HIDE DEF r
<1>4. CASE HeaderDue
  <2>1. msg_len = 0 /\ HeaderSize \in 0..Len(buf) /\ Expected = decode_u32(buf)
        /\ Body = SubSeq(buf, HeaderSize + 1, Len(buf))
    BY <1>2, <1>4 DEF HeaderDue, Expected, Body
  <2> DEFINE a == SubSeq(buf, 1, HeaderSize)
             b == SubSeq(buf, HeaderSize + 1, Len(buf))
  <2>2. /\ a \in Seq(Byte) /\ Len(a) = HeaderSize /\ b \in Seq(Byte) /\ a \o b = buf
        /\ \A i \in 1..HeaderSize : a[i] = buf[i]
    BY <1>2, <2>1, Cut
  <2> HIDE DEF a, b
  <2>3. Unread = buf \o r
    <3>1. Unread = <<>> \o (buf \o r)
      BY <1>1, <2>1 DEF Bytes, HeaderOf, r
    <3>2. buf \o r \in Seq(Byte)
      BY <1>2, <1>3
    <3> DEFINE s == buf \o r
    <3> HIDE DEF s
    <3>3. s \in Seq(Byte) => <<>> \o s = s
      OBVIOUS
    <3> QED  BY <3>1, <3>2, <3>3 DEF s
  <2>4. Len(Unread) >= HeaderSize /\ \A i \in 1..HeaderSize : Unread[i] = buf[i]
    BY <2>1, <2>3, <1>2, <1>3
  <2>5. Untaken # <<>> /\ m \in Message /\ \A i \in 1..HeaderSize : Unread[i] = h[i]
    BY <1>1, <2>4, HeaderNext
  <2>6. \A i \in 1..HeaderSize : buf[i] = h[i]
    BY <2>4, <2>5
  <2>7. h \in Seq(Byte) /\ Len(h) = HeaderSize /\ Len(m) \in 0..(Weight[HeaderSize] - 1)
    BY <2>5, FrameType
  <2>8. decode_u32(buf) = Len(m)
    <3> DEFINE n == Len(m)
    <3>1. n \in 0..(Weight[HeaderSize] - 1) /\ \A i \in 1..HeaderSize : buf[i] = encode_u32(n)[i]
      BY <2>6, <2>7
    <3> HIDE DEF n
    <3>2. decode_u32(buf) = n
      BY <3>1, DecodeEncode
    <3> QED  BY <3>2 DEF n
  <2> HIDE DEF h
  <2>9. a = h
    <3>1. \A i \in 1..Len(a) : a[i] = h[i]
      BY <2>2, <2>6
    <3> QED  BY <2>2, <2>7, <3>1, SeqEqual
  <2>10. Unread = h \o (b \o r)
    <3>0. a \in Seq(Byte) /\ b \in Seq(Byte) /\ r \in Seq(Byte)
      BY <2>2, <1>3
    <3>1. (a \o b) \o r = a \o (b \o r)
      BY <3>0
    <3> QED  BY <2>2, <2>3, <2>9, <3>1
  <2>11. Expected = Len(m) /\ Body = b
    BY <2>1, <2>8 DEF b
  <2> QED  BY <2>2, <2>5, <2>10, <2>11 DEF h, r
<1>5. CASE ~HeaderDue
  <2>1. msg_len # 0 /\ Expected = msg_len /\ Body = buf
    BY <1>5 DEF Expected, Body
  <2> DEFINE e == encode_u32(msg_len)
             s == buf \o r
  <2>2. e \in Seq(Byte) /\ Len(e) = HeaderSize
    <3>1. msg_len \in Nat
      <4>1. HeaderSize \in 0..HeaderSize
        BY <1>2
      <4>2. Weight[HeaderSize] \in Nat
        BY <4>1, WeightIs
      <4> QED  BY <1>2, <4>2
    <3> QED  BY <3>1, EncodeType
  <2>3. Unread = e \o s
    BY <1>1, <2>1 DEF Bytes, HeaderOf, r
  <2>4. s \in Seq(Byte)
    BY <1>2, <1>3
  <2> HIDE DEF e, s
  <2>5. Len(Unread) >= HeaderSize /\ \A i \in 1..HeaderSize : Unread[i] = e[i]
    BY <2>2, <2>3, <2>4, <1>2
  <2>6. Untaken # <<>> /\ m \in Message /\ \A i \in 1..HeaderSize : Unread[i] = h[i]
    BY <1>1, <2>5, HeaderNext
  <2>7. Len(m) \in 0..(Weight[HeaderSize] - 1)
    BY <2>6, FrameType
  <2>8. msg_len = Len(m)
    <3> DEFINE n == Len(m)
    <3>1. n \in 0..(Weight[HeaderSize] - 1) /\ \A i \in 1..HeaderSize : e[i] = encode_u32(n)[i]
      BY <2>5, <2>6, <2>7
    <3> HIDE DEF n
    <3>2. decode_u32(e) = n
      BY <3>1, DecodeEncode
    <3>3. \A i \in 1..HeaderSize : e[i] = encode_u32(msg_len)[i]
      BY DEF e
    <3>4. decode_u32(e) = msg_len
      BY <1>2, <3>3, DecodeEncode
    <3> QED  BY <3>2, <3>4 DEF n
  <2> QED  BY <1>2, <2>1, <2>3, <2>6, <2>8 DEF e, s, r
<1> QED  BY <1>4, <1>5

(* What is on its way, from the parts of a state.  *)
LEMMA BytesIs ==
  ASSUME NEW n \in Nat, NEW b \in Seq(Byte), NEW w \in Seq(Byte), NEW o \in Seq(Byte)
  PROVE  Bytes(n, b, w, o) = FromLeft(HeaderOf(n), b, w, o) /\ Bytes(n, b, w, o) \in Seq(Byte)
<1> DEFINE h == HeaderOf(n)
<1>1. h \in Seq(Byte)
  BY HeaderOfType
<1> HIDE DEF h
<1>a. h \in Seq(Byte) /\ b \in Seq(Byte) /\ w \in Seq(Byte) /\ o \in Seq(Byte)
  BY <1>1
<1>2. FromLeft(h, b, w, o) = FromRight(h, b, w, o)
  BY <1>a, FourParts, Zenon
<1>3. h \o (b \o (w \o o)) \in Seq(Byte)
  BY <1>1
<1> QED  BY <1>2, <1>3 DEF FromRight, Bytes, h

(* The messages not taken, from the parts of a state.  *)
LEMMA RestIs ==
  ASSUME NEW s \in Seq(Message), NEW d \in Seq(Message), Len(d) =< Len(s)
  PROVE  /\ Rest(s, d) \in Seq(Message) /\ Len(Rest(s, d)) = Len(s) - Len(d)
         /\ \A i \in 1..(Len(s) - Len(d)) : Rest(s, d)[i] = s[Len(d) + i]
<1> DEFINE n == Len(d)
<1>1. n \in 0..Len(s)
  OBVIOUS
<1> HIDE DEF n
<1>2. /\ SubSeq(s, n + 1, Len(s)) \in Seq(Message) /\ Len(SubSeq(s, n + 1, Len(s))) = Len(s) - n
      /\ \A i \in 1..(Len(s) - n) : SubSeq(s, n + 1, Len(s))[i] = s[n + i]
  BY <1>1, Cut
<1> QED  BY <1>2 DEF Rest, n

(* A length that fits the header is a number.  *)
LEMMA LengthNat == Weight[HeaderSize] \in Nat \ {0} /\ 0..(Weight[HeaderSize] - 1) \subseteq Nat
<1>1. HeaderSize \in 0..HeaderSize
  BY FramedPipeAssumption
<1> QED  BY <1>1, WeightIs

(* The invariant in terms of the parts, before a step and after it.  *)
LEMMA InvNow ==
  ASSUME FramedIInv
  PROVE  /\ sent \in Seq(Message) /\ taken \in Seq(Message) /\ outq \in Seq(Byte)
         /\ net \in Seq(Byte) /\ buf \in Seq(Byte) /\ msg_len \in Nat
         /\ Len(taken) =< Len(sent)
         /\ Untaken = Rest(sent, taken) /\ Untaken \in Seq(Message)
         /\ Unread = Bytes(msg_len, buf, net, outq) /\ Unread \in Seq(Byte)
         /\ Synced(Untaken, Unread, writerClosed)
<1>1. FramedTypeOK /\ NoneInvented /\ InSync
  BY DEF FramedIInv
<1>2. msg_len \in Nat
  BY <1>1, LengthNat DEF FramedTypeOK
<1>3. /\ Untaken \in Seq(Message) /\ Synced(Untaken, Unread, writerClosed)
      /\ Unread = Bytes(msg_len, buf, net, outq) /\ Unread \in Seq(Byte)
  BY <1>1, UntakenIs, UnreadIs
<1>4. Untaken = Rest(sent, taken)
  BY DEF Untaken, Rest
<1> QED  BY <1>1, <1>2, <1>3, <1>4 DEF FramedTypeOK, NoneInvented

(* After it: what remains to be shown of a step is that it keeps Synced.  *)
LEMMA InvThen ==
  ASSUME FramedTypeOK', NoneInvented'
  PROVE  /\ Untaken' = Rest(sent', taken')
         /\ Unread' = Bytes(msg_len', buf', net', outq')
         /\ Synced(Untaken', Unread', writerClosed') => FramedIInv'
<1>1. msg_len' \in Nat /\ buf' \in Seq(Byte) /\ net' \in Seq(Byte) /\ outq' \in Seq(Byte)
  BY LengthNat DEF FramedTypeOK
<1>2. Untaken' = Rest(sent', taken')
  BY DEF Untaken, Rest
<1>3. Unread' = FromLeft(HeaderOf(msg_len'), buf', net', outq')
  BY DEF Unread, HeaderOf, FromLeft
<1> DEFINE n == msg_len'
           b == buf'
           w == net'
           o == outq'
<1>4. Bytes(n, b, w, o) = FromLeft(HeaderOf(n), b, w, o)
  <2>1. n \in Nat /\ b \in Seq(Byte) /\ w \in Seq(Byte) /\ o \in Seq(Byte)
    BY <1>1
  <2> HIDE DEF n, b, w, o
  <2> QED  BY <2>1, BytesIs, Zenon
<1>5. Synced(Untaken', Unread', writerClosed') => InSync'
  BY DEF InSync, Synced, FramesOf, Frames
<1> QED  BY <1>2, <1>3, <1>4, <1>5 DEF FramedIInv

-----------------------------------------------------------------------------
(* The steps.                                                                *)

(* In the beginning nothing is on its way.  *)
LEMMA FramedInitOK == FramedInit => FramedIInv
<1> SUFFICES ASSUME FramedInit PROVE FramedIInv
  OBVIOUS
<1>0. 0 \in 0..(Weight[HeaderSize] - 1) /\ Len(<<>>) = 0
  BY LengthNat
<1>1. FramedTypeOK /\ NoneInvented
  <2>1. FramedTypeOK
    <3>1. <<>> \in Seq(Message) /\ <<>> \in Seq(Byte)
      OBVIOUS
    <3> QED  BY <1>0, <3>1, Zenon DEF FramedInit, FramedTypeOK
  <2>2. NoneInvented
    BY <1>0 DEF FramedInit, NoneInvented
  <2> QED  BY <2>1, <2>2
<1>2. Untaken = <<>>
  <2>1. Untaken \in Seq(Message) /\ Len(Untaken) = Len(sent) - Len(taken)
    BY <1>1, UntakenIs
  <2>2. Len(Untaken) = 0
    BY <2>1 DEF FramedInit
  <2> QED  BY <2>1, <2>2
<1>3. Unread = <<>>
  BY DEF FramedInit, Unread
<1>4. Synced(Untaken, Unread, writerClosed)
  BY <1>2, <1>3, FramesEmpty DEF Synced, FramedInit
<1> QED  BY <1>1, <1>4, UntakenIs DEF FramedIInv

(* A step after which the same messages and the same bytes are on their way. *)
Moves == Untaken' = Untaken /\ Unread' = Unread

(* The first k bytes of b move to the end of a.  *)
Shifts(a, b, k, c, d) == c = a \o SubSeq(b, 1, k) /\ d = SubSeq(b, k + 1, Len(b))
SameBytes(a, b, c, d) == c \o d = a \o b

(* The bytes together are the same as before.  *)
LEMMA MoveAcross ==
  ASSUME NEW a \in Seq(Byte), NEW b \in Seq(Byte), NEW k \in 0..Len(b), NEW c, NEW d,
         Shifts(a, b, k, c, d)
  PROVE  c \in Seq(Byte) /\ d \in Seq(Byte) /\ SameBytes(a, b, c, d)
<1> DEFINE p == SubSeq(b, 1, k)
           q == SubSeq(b, k + 1, Len(b))
<1>1. p \in Seq(Byte) /\ q \in Seq(Byte) /\ p \o q = b
  BY Cut
<1>b. c = a \o p /\ d = q
  BY DEF Shifts
<1> HIDE DEF p, q
<1>2. a \o p \in Seq(Byte)
  BY <1>1
<1>a. p \in Seq(Byte) /\ q \in Seq(Byte)
  BY <1>1
<1>3. (a \o p) \o q = a \o (p \o q)
  BY <1>a
<1>4. (a \o p) \o q = a \o b
  BY <1>1, <1>3
<1> QED  BY <1>1, <1>2, <1>4, <1>b DEF SameBytes

(* send_message: a message more, and its frame behind all other bytes.  *)
LEMMA SendStep ==
  ASSUME FramedIInv, NEW m \in Message, SendMessage(m)
  PROVE  /\ FramedIInv' /\ ~writerClosed /\ writerClosed' = writerClosed
         /\ Untaken' = Append(Untaken, m) /\ delivered' = delivered
<1>1. /\ ~writerClosed /\ sent' = Append(sent, m) /\ outq' = outq \o Frame(m)
      /\ UNCHANGED <<taken, delivered, handler, net, buf, msg_len, extracting, writerClosed, readerClosed>>
  BY DEF SendMessage, dispatchVars
<1>2. /\ sent \in Seq(Message) /\ taken \in Seq(Message) /\ outq \in Seq(Byte)
      /\ net \in Seq(Byte) /\ buf \in Seq(Byte) /\ msg_len \in Nat
      /\ Len(taken) =< Len(sent)
      /\ Untaken = Rest(sent, taken) /\ Untaken \in Seq(Message)
      /\ Unread = Bytes(msg_len, buf, net, outq) /\ Unread \in Seq(Byte)
      /\ Synced(Untaken, Unread, writerClosed)
  BY InvNow
<1> DEFINE f == Frame(m)
<1>3. f \in Seq(Byte)
  BY FrameType
<1> HIDE DEF f
<1>4. outq' \in Seq(Byte) /\ sent' \in Seq(Message) /\ Len(sent') = Len(sent) + 1
  BY <1>1, <1>2, <1>3 DEF f
<1>5. FramedTypeOK' /\ NoneInvented'
  <2>1. FramedTypeOK
    BY DEF FramedIInv
  <2>2. Len(taken) =< Len(sent) + 1
    BY <1>2
  <2> QED  BY <1>1, <1>4, <2>1, <2>2 DEF FramedTypeOK, NoneInvented
<1>6. Untaken' = Rest(sent', taken) /\ Unread' = Bytes(msg_len, buf, net, outq \o f)
  BY <1>1, <1>5, InvThen DEF f
<1>7. Untaken' = Append(Untaken, m)
  <2> DEFINE s == Append(sent, m)
             d == taken
             u == Rest(sent, d)
             v == Rest(s, d)
  <2>1. /\ s \in Seq(Message) /\ Len(s) = Len(sent) + 1 /\ s[Len(sent) + 1] = m
        /\ \A i \in 1..Len(sent) : s[i] = sent[i]
    BY <1>2
  <2> HIDE DEF s, d
  <2>2. d \in Seq(Message) /\ Len(d) =< Len(sent) /\ Len(d) =< Len(s) /\ Len(d) \in Nat /\ Len(sent) \in Nat
    BY <1>2, <2>1 DEF d
  <2>3. /\ u \in Seq(Message) /\ Len(u) = Len(sent) - Len(d)
        /\ \A i \in 1..(Len(sent) - Len(d)) : u[i] = sent[Len(d) + i]
    BY <1>2, <2>2, RestIs
  <2>4. /\ v \in Seq(Message) /\ Len(v) = Len(s) - Len(d)
        /\ \A i \in 1..(Len(s) - Len(d)) : v[i] = s[Len(d) + i]
    BY <2>1, <2>2, RestIs
  <2> HIDE DEF u, v
  <2> DEFINE w == Append(u, m)
  <2>5. /\ w \in Seq(Message) /\ Len(w) = Len(u) + 1 /\ w[Len(u) + 1] = m
        /\ \A i \in 1..Len(u) : w[i] = u[i]
    BY <2>3
  <2> HIDE DEF w
  <2>6. \A i \in 1..Len(v) : v[i] = w[i]
    <3> TAKE i \in 1..Len(v)
    <3>1. CASE i = Len(u) + 1
      BY <3>1, <2>1, <2>2, <2>3, <2>4, <2>5
    <3>2. CASE i # Len(u) + 1
      <4>1. i \in 1..Len(u) /\ Len(d) + i \in 1..Len(sent)
        BY <3>2, <2>1, <2>2, <2>3, <2>4
      <4>2. v[i] = s[Len(d) + i] /\ w[i] = u[i] /\ u[i] = sent[Len(d) + i]
        BY <4>1, <2>1, <2>3, <2>4, <2>5
      <4> QED  BY <4>1, <4>2, <2>1
    <3> QED  BY <3>1, <3>2
  <2>7. Len(v) = Len(w)
    BY <2>1, <2>2, <2>3, <2>4, <2>5
  <2>8. v = w
    BY <2>4, <2>5, <2>6, <2>7, SeqEqual
  <2> QED  BY <1>1, <1>2, <1>6, <2>8 DEF s, d, u, v, w
<1>8. Unread' = Unread \o f
  <2> DEFINE h == HeaderOf(msg_len)
             x == h \o (buf \o (net \o outq))
             y == h \o (buf \o (net \o (outq \o f)))
  <2>1. h \in Seq(Byte)
    BY <1>2, HeaderOfType
  <2> HIDE DEF h
  <2>2. FromLeft(h, buf, net, outq \o f) = FromLeft(h, buf, net, outq) \o f
    <3> DEFINE e == (h \o buf) \o net
    <3>1. e \in Seq(Byte)
      BY <1>2, <2>1
    <3> HIDE DEF e
    <3>2. e \in Seq(Byte) /\ outq \in Seq(Byte) /\ f \in Seq(Byte)
      BY <1>2, <1>3, <3>1
    <3>3. e \o (outq \o f) = (e \o outq) \o f
      BY <3>2
    <3> QED  BY <3>3 DEF e, FromLeft
  <2>3. Bytes(msg_len, buf, net, outq) = FromLeft(h, buf, net, outq)
    BY <1>2, BytesIs, Zenon DEF h
  <2>4. Bytes(msg_len, buf, net, outq \o f) = FromLeft(h, buf, net, outq \o f)
    <3> DEFINE o == outq \o f
    <3>1. o \in Seq(Byte)
      BY <1>2, <1>3
    <3> HIDE DEF o
    <3> QED  BY <1>2, <3>1, BytesIs, Zenon DEF h, o
  <2> QED  BY <1>2, <1>6, <2>2, <2>3, <2>4
<1>9. Unread = FramesOf(Untaken)
  BY <1>1, <1>2 DEF Synced
<1>10. Unread' = FramesOf(Untaken')
  BY <1>2, <1>7, <1>8, <1>9, FramesAppend DEF f
<1>11. Synced(Untaken', Unread', writerClosed')
  BY <1>1, <1>10 DEF Synced
<1>12. FramedIInv'
  BY <1>5, <1>11, InvThen
<1> QED  BY <1>1, <1>7, <1>12

(* The kernel takes bytes: they move from outq to net.  *)
LEMMA FlushStep ==
  ASSUME FramedIInv, Flush
  PROVE  FramedIInv' /\ Moves /\ UNCHANGED <<taken, delivered, writerClosed>>
<1>1. PICK k \in 1..Len(outq) :
        /\ net' = net \o SubSeq(outq, 1, k)
        /\ outq' = SubSeq(outq, k + 1, Len(outq))
        /\ UNCHANGED <<sent, taken, delivered, handler, buf, msg_len, extracting, writerClosed, readerClosed>>
  BY DEF Flush, dispatchVars
<1>2. /\ sent \in Seq(Message) /\ taken \in Seq(Message) /\ outq \in Seq(Byte)
      /\ net \in Seq(Byte) /\ buf \in Seq(Byte) /\ msg_len \in Nat
      /\ Untaken = Rest(sent, taken)
      /\ Unread = Bytes(msg_len, buf, net, outq)
      /\ Synced(Untaken, Unread, writerClosed)
  BY InvNow
<1>3. k \in 0..Len(outq)
  BY <1>2
<1>4. net' \in Seq(Byte) /\ outq' \in Seq(Byte) /\ net' \o outq' = net \o outq
  <2>1. Shifts(net, outq, k, net', outq')
    BY <1>1 DEF Shifts
  <2>2. net' \in Seq(Byte) /\ outq' \in Seq(Byte) /\ SameBytes(net, outq, net', outq')
    BY <1>2, <1>3, <2>1, MoveAcross, Zenon
  <2> QED  BY <2>2 DEF SameBytes
<1>5. FramedTypeOK' /\ NoneInvented'
  <2>1. FramedTypeOK /\ NoneInvented
    BY DEF FramedIInv
  <2> QED  BY <1>1, <1>4, <2>1 DEF FramedTypeOK, NoneInvented
<1>6. Untaken' = Rest(sent', taken') /\ Unread' = Bytes(msg_len', buf', net', outq')
  BY <1>5, InvThen
<1>7. Moves
  <2>1. Untaken' = Untaken
    BY <1>1, <1>2, <1>6
  <2>2. Unread' = Unread
    BY <1>1, <1>2, <1>4, <1>6 DEF Bytes
  <2> QED  BY <2>1, <2>2 DEF Moves
<1>8. Synced(Untaken', Unread', writerClosed')
  BY <1>1, <1>2, <1>7 DEF Moves
<1> QED  BY <1>1, <1>5, <1>7, <1>8, InvThen

(* A chunk is read: bytes move from net to buf.  *)
LEMMA ReadChunkStep ==
  ASSUME FramedIInv, ReadChunk
  PROVE  FramedIInv' /\ Moves /\ UNCHANGED <<taken, delivered, writerClosed>>
<1>1. PICK k \in 1..Len(net) :
        /\ buf' = buf \o SubSeq(net, 1, k)
        /\ net' = SubSeq(net, k + 1, Len(net))
        /\ extracting' = TRUE
        /\ UNCHANGED <<sent, taken, delivered, handler, outq, msg_len, writerClosed, readerClosed>>
  BY DEF ReadChunk, dispatchVars
<1>2. /\ sent \in Seq(Message) /\ taken \in Seq(Message) /\ outq \in Seq(Byte)
      /\ net \in Seq(Byte) /\ buf \in Seq(Byte) /\ msg_len \in Nat
      /\ Untaken = Rest(sent, taken)
      /\ Unread = Bytes(msg_len, buf, net, outq)
      /\ Synced(Untaken, Unread, writerClosed)
  BY InvNow
<1>3. k \in 0..Len(net)
  BY <1>2
<1>4. buf' \in Seq(Byte) /\ net' \in Seq(Byte) /\ buf' \o net' = buf \o net
  <2>1. Shifts(buf, net, k, buf', net')
    BY <1>1 DEF Shifts
  <2>2. buf' \in Seq(Byte) /\ net' \in Seq(Byte) /\ SameBytes(buf, net, buf', net')
    BY <1>2, <1>3, <2>1, MoveAcross, Zenon
  <2> QED  BY <2>2 DEF SameBytes
<1>5. FramedTypeOK' /\ NoneInvented'
  <2>1. FramedTypeOK /\ NoneInvented
    BY DEF FramedIInv
  <2> QED  BY <1>1, <1>4, <2>1 DEF FramedTypeOK, NoneInvented
<1>6. Untaken' = Rest(sent', taken') /\ Unread' = Bytes(msg_len', buf', net', outq')
  BY <1>5, InvThen
<1>7. Moves
  <2>1. Untaken' = Untaken
    BY <1>1, <1>2, <1>6
  <2>2. buf' \o (net' \o outq) = buf \o (net \o outq)
    <3> DEFINE b == buf'
               w == net'
    <3>1. b \in Seq(Byte) /\ w \in Seq(Byte) /\ outq \in Seq(Byte)
      BY <1>2, <1>4
    <3>2. buf \in Seq(Byte) /\ net \in Seq(Byte) /\ outq \in Seq(Byte)
      BY <1>2
    <3> HIDE DEF b, w
    <3>3. (b \o w) \o outq = b \o (w \o outq)
      BY <3>1
    <3>4. (buf \o net) \o outq = buf \o (net \o outq)
      BY <3>2
    <3> QED  BY <1>4, <3>3, <3>4 DEF b, w
  <2>3. Unread' = Unread
    BY <1>1, <1>2, <1>6, <2>2 DEF Bytes
  <2> QED  BY <2>1, <2>3 DEF Moves
<1>8. Synced(Untaken', Unread', writerClosed')
  BY <1>1, <1>2, <1>7 DEF Moves
<1> QED  BY <1>1, <1>5, <1>7, <1>8, InvThen

(* What is queued is cut off: a prefix of the frames remains.  *)
LEMMA CloseStep ==
  ASSUME FramedIInv, CloseWriter
  PROVE  /\ FramedIInv' /\ Untaken' = Untaken /\ delivered' = delivered
         /\ ~writerClosed /\ writerClosed'
<1>1. /\ ~writerClosed /\ writerClosed' = TRUE /\ outq' = <<>>
      /\ UNCHANGED <<sent, taken, delivered, handler, net, buf, msg_len, extracting, readerClosed>>
  BY DEF CloseWriter, dispatchVars
<1>2. /\ sent \in Seq(Message) /\ taken \in Seq(Message) /\ outq \in Seq(Byte)
      /\ net \in Seq(Byte) /\ buf \in Seq(Byte) /\ msg_len \in Nat
      /\ Untaken = Rest(sent, taken)
      /\ Unread = Bytes(msg_len, buf, net, outq)
      /\ Synced(Untaken, Unread, writerClosed)
  BY InvNow
<1>3. FramedTypeOK' /\ NoneInvented'
  <2>1. FramedTypeOK /\ NoneInvented
    BY DEF FramedIInv
  <2>2. <<>> \in Seq(Byte)
    OBVIOUS
  <2> QED  BY <1>1, <2>1, <2>2, Zenon DEF FramedTypeOK, NoneInvented
<1>4. Untaken' = Untaken /\ Unread' = Bytes(msg_len, buf, net, <<>>)
  BY <1>1, <1>2, <1>3, InvThen
<1> DEFINE h == HeaderOf(msg_len)
           e == (h \o buf) \o net
<1>5. h \in Seq(Byte)
  BY <1>2, HeaderOfType
<1>6. e \in Seq(Byte)
  <2> HIDE DEF h
  <2> QED  BY <1>2, <1>5
<1>7. Unread = e \o outq
  BY <1>2, BytesIs DEF FromLeft
<1>8. Unread' = e
  <2>1. <<>> \in Seq(Byte)
    OBVIOUS
  <2>2. Bytes(msg_len, buf, net, <<>>) = FromLeft(h, buf, net, <<>>)
    BY <1>2, <2>1, BytesIs, Zenon
  <2>3. FromLeft(h, buf, net, <<>>) = e \o <<>>
    BY DEF FromLeft
  <2>4. e \o <<>> = e
    <3> HIDE DEF e
    <3> QED  BY <1>6
  <2> QED  BY <1>4, <2>2, <2>3, <2>4
<1>9. IsPrefix(e, e \o outq)
  <2> HIDE DEF e
  <2> QED  BY <1>2, <1>6, PrefixJoin
<1>10. Unread = FramesOf(Untaken)
  BY <1>1, <1>2 DEF Synced
<1>11. Synced(Untaken', Unread', writerClosed')
  <2> HIDE DEF e
  <2> QED  BY <1>1, <1>4, <1>7, <1>8, <1>9, <1>10 DEF Synced
<1> QED  BY <1>1, <1>3, <1>4, <1>11, InvThen

(* The reader closes, or onmessage is set: what is on its way stays.  *)
LEMMA ReaderStep ==
  ASSUME FramedIInv, ReadEof \/ CloseReader \/ SetHandler
  PROVE  FramedIInv' /\ Moves /\ UNCHANGED <<taken, delivered, writerClosed>>
<1>1. /\ readerClosed' \in BOOLEAN /\ handler' \in BOOLEAN
      /\ UNCHANGED <<sent, taken, delivered, outq, net, buf, msg_len, extracting, writerClosed>>
  BY DEF ReadEof, CloseReader, SetHandler, dispatchVars, FramedIInv, FramedTypeOK
<1>2. /\ Untaken = Rest(sent, taken)
      /\ Unread = Bytes(msg_len, buf, net, outq)
      /\ Synced(Untaken, Unread, writerClosed)
  BY InvNow
<1>3. FramedTypeOK' /\ NoneInvented'
  <2>1. FramedTypeOK /\ NoneInvented
    BY DEF FramedIInv
  <2> QED  BY <1>1, <2>1, Zenon DEF FramedTypeOK, NoneInvented
<1>4. Untaken' = Rest(sent', taken') /\ Unread' = Bytes(msg_len', buf', net', outq')
  BY <1>3, InvThen
<1>5. Untaken' = Untaken /\ Unread' = Unread
  BY <1>1, <1>2, <1>4
<1>6. Synced(Untaken', Unread', writerClosed')
  BY <1>1, <1>2, <1>5
<1> QED  BY <1>1, <1>3, <1>5, <1>6, InvThen DEF Moves

(* Three pieces.  *)
Joined(a, b, c) ==
  /\ (a \o b) \o c = a \o (b \o c)
  /\ a \o b \in Seq(Byte) /\ b \o c \in Seq(Byte) /\ Len(a \o b) = Len(a) + Len(b)

(* Grouping does not matter.  *)
LEMMA ThreeParts ==
  ASSUME NEW a \in Seq(Byte), NEW b \in Seq(Byte), NEW c \in Seq(Byte)
  PROVE  Joined(a, b, c)
<1>1. (a \o b) \o c = a \o (b \o c)
  OBVIOUS
<1>2. a \o b \in Seq(Byte) /\ b \o c \in Seq(Byte) /\ Len(a \o b) = Len(a) + Len(b)
  OBVIOUS
<1> QED  BY <1>1, <1>2 DEF Joined

(* The reader takes a frame's worth of bytes: they are the first message.  *)
Holds(u, x, k, b, r) ==
  /\ u \in Seq(Message) /\ u # <<>> /\ k = Len(Head(u)) /\ k =< Len(b)
  /\ x = encode_u32(k) \o (b \o r) /\ IsPrefix(x, FramesOf(u))

Takes(u, x, k, b, r) ==
  /\ SubSeq(b, 1, k) = Head(u)
  /\ SubSeq(b, k + 1, Len(b)) \in Seq(Byte)
  /\ x = Frame(Head(u)) \o (SubSeq(b, k + 1, Len(b)) \o r)

(* What is taken is the message, and what is left comes after its frame.  *)
LEMMA TakeFrame ==
  ASSUME NEW u, NEW b \in Seq(Byte), NEW r \in Seq(Byte), NEW k \in Nat, NEW x \in Seq(Byte),
         Holds(u, x, k, b, r)
  PROVE  Takes(u, x, k, b, r)
<1> DEFINE p == SubSeq(b, 1, k)
           q == SubSeq(b, k + 1, Len(b))
           m == Head(u)
           h == encode_u32(k)
           t == FramesOf(Tail(u))
<1>0. u \in Seq(Message) /\ u # <<>> /\ k = Len(m) /\ k =< Len(b)
  BY DEF Holds
<1>1. p \in Seq(Byte) /\ q \in Seq(Byte) /\ p \o q = b /\ Len(p) = k
  <2>1. k \in 0..Len(b)
    BY <1>0
  <2> QED  BY <2>1, Cut
<1>2. m \in Message /\ Tail(u) \in Seq(Message)
  BY <1>0
<1>3. /\ m \in Seq(Byte) /\ h \in Seq(Byte) /\ Len(h) = HeaderSize /\ Len(m) = k /\ t \in Seq(Byte)
      /\ HeaderSize \in Nat
  BY <1>0, <1>2, FrameType, FramesType, FramedPipeAssumption
<1>4. FramesOf(u) = (h \o m) \o t /\ Frame(m) = h \o m
  BY <1>0, FramesFirst DEF Frame
<1>5. PICK z \in Seq(Byte) : FramesOf(u) = x \o z
  <2>1. IsPrefix(x, FramesOf(u)) /\ FramesOf(u) \in Seq(Byte)
    BY <1>0, FramesType DEF Holds
  <2> QED  BY <2>1, PrefixRest
<1>6. x = h \o (b \o r)
  BY DEF Holds
<1> HIDE DEF p, q, m, h, t
<1> DEFINE v == q \o r
           hp == h \o p
           hm == h \o m
<1>a. h \in Seq(Byte) /\ p \in Seq(Byte) /\ q \in Seq(Byte) /\ r \in Seq(Byte) /\ m \in Seq(Byte)
  BY <1>1, <1>3
<1>7. v \in Seq(Byte) /\ hp \in Seq(Byte) /\ hm \in Seq(Byte) /\ Len(hp) = Len(hm)
  <2>1. Joined(p, q, r) /\ Joined(h, p, q) /\ Joined(h, m, r)
    BY <1>a, ThreeParts, Zenon
  <2> QED  BY <1>1, <1>3, <2>1 DEF Joined
<1>8. x = hp \o v
  <2>1. (p \o q) \o r = p \o v
    <3>1. Joined(p, q, r)
      BY <1>a, ThreeParts, Zenon
    <3> QED  BY <3>1, Zenon DEF Joined
  <2>2. h \o (p \o v) = hp \o v
    <3> HIDE DEF v
    <3>1. Joined(h, p, v)
      BY <1>7, <1>a, ThreeParts, Zenon
    <3> QED  BY <3>1, Zenon DEF Joined
  <2> QED  BY <1>1, <1>6, <2>1, <2>2, Zenon
<1> HIDE DEF v, hp, hm
<1>9. hp \o (v \o z) = hm \o t /\ v \o z \in Seq(Byte)
  <2>1. Joined(hp, v, z)
    BY <1>7, ThreeParts, Zenon
  <2>2. (hp \o v) \o z = hp \o (v \o z) /\ v \o z \in Seq(Byte)
    BY <2>1, Zenon DEF Joined
  <2>3. (hp \o v) \o z = hm \o t
    BY <1>4, <1>5, <1>8, Zenon DEF hm
  <2> QED  BY <2>2, <2>3, Zenon
<1> DEFINE w == v \o z
<1> HIDE DEF w
<1>10. hp = hm
  <2>1. w \in Seq(Byte) /\ hp \o w = hm \o t
    BY <1>9 DEF w
  <2> QED  BY <1>3, <1>7, <2>1, SameCut
<1>11. p = m
  <2>1. h \o p = h \o m
    BY <1>10 DEF hp, hm
  <2> QED  BY <1>1, <1>3, <2>1, SameCut
<1>12. x = (h \o m) \o v
  BY <1>8, <1>11 DEF hp
<1> QED  BY <1>1, <1>4, <1>11, <1>12 DEF Takes, p, q, m, h, v

(* readbuf_extract waits: at most the header has gone from buf to msg_len.  *)
LEMMA NeedsMoreStep ==
  ASSUME FramedIInv, ExtractNeedsMore
  PROVE  FramedIInv' /\ Moves /\ UNCHANGED <<taken, delivered, writerClosed>>
<1>1. /\ buf' = Body /\ msg_len' = Expected /\ extracting' = FALSE
      /\ UNCHANGED <<sent, taken, delivered, handler, outq, net, writerClosed, readerClosed>>
  BY DEF ExtractNeedsMore, dispatchVars
<1>2. /\ outq \in Seq(Byte) /\ net \in Seq(Byte) /\ buf \in Seq(Byte)
      /\ Untaken = Rest(sent, taken)
      /\ Unread = Bytes(msg_len, buf, net, outq)
      /\ Synced(Untaken, Unread, writerClosed)
  BY InvNow
<1>3. FramedTypeOK /\ NoneInvented
  BY DEF FramedIInv
<1>4. /\ Body \in Seq(Byte) /\ Expected \in 0..(Weight[HeaderSize] - 1)
      /\ Unread = Bytes(Expected, Body, net, outq)
  <2>1. CASE HeaderDue \/ msg_len # 0
    <3>1. /\ Head(Untaken) \in Message
          /\ Expected = Len(Head(Untaken)) /\ Body \in Seq(Byte)
          /\ Unread = encode_u32(Expected) \o (Body \o (net \o outq))
      BY <2>1, ReaderKnows
    <3>2. Len(Head(Untaken)) \in Nat \ {0} /\ Len(Head(Untaken)) \in 0..(Weight[HeaderSize] - 1)
      BY <3>1, FrameType
    <3> QED  BY <3>1, <3>2 DEF Bytes, HeaderOf
  <2>2. CASE ~(HeaderDue \/ msg_len # 0)
    BY <1>2, <1>3, <2>2 DEF Expected, Body, FramedTypeOK
  <2> QED  BY <2>1, <2>2
<1>5. FramedTypeOK' /\ NoneInvented'
  BY <1>1, <1>3, <1>4, Zenon DEF FramedTypeOK, NoneInvented
<1>6. Untaken' = Rest(sent', taken') /\ Unread' = Bytes(msg_len', buf', net', outq')
  BY <1>5, InvThen
<1>7. Untaken' = Untaken /\ Unread' = Unread
  BY <1>1, <1>2, <1>4, <1>6
<1>8. Synced(Untaken', Unread', writerClosed')
  BY <1>1, <1>2, <1>7
<1> QED  BY <1>1, <1>5, <1>7, <1>8, InvThen DEF Moves

(* readbuf_extract takes the oldest message that was not taken, and its frame *)
(* is what disappears from the bytes on their way.                           *)
LEMMA ExtractStep ==
  ASSUME FramedIInv, Extract
  PROVE  /\ FramedIInv' /\ writerClosed' = writerClosed
         /\ Untaken # <<>> /\ delivered' \in {delivered, Append(delivered, Head(Untaken))}
         /\ Untaken' = Tail(Untaken) /\ Unread' \in Seq(Byte)
         /\ Unread = Frame(Head(Untaken)) \o Unread'
<1>1. /\ taken' = Append(taken, SubSeq(Body, 1, Expected))
      /\ delivered' \in {delivered, Append(delivered, SubSeq(Body, 1, Expected))}
      /\ buf' = SubSeq(Body, Expected + 1, Len(Body))
      /\ msg_len' = 0
      /\ UNCHANGED <<sent, handler, outq, net, extracting, writerClosed, readerClosed>>
      /\ (HeaderDue \/ msg_len # 0) /\ ~(Len(Body) < Expected)
  BY DEF Extract, Incomplete, Dispatched
<1>2. /\ outq \in Seq(Byte) /\ net \in Seq(Byte) /\ buf \in Seq(Byte)
      /\ sent \in Seq(Message) /\ taken \in Seq(Message) /\ Len(taken) =< Len(sent)
      /\ Untaken = Rest(sent, taken) /\ Untaken \in Seq(Message)
      /\ Unread = Bytes(msg_len, buf, net, outq) /\ Unread \in Seq(Byte)
      /\ Synced(Untaken, Unread, writerClosed)
  BY InvNow
<1>3. FramedTypeOK /\ NoneInvented
  BY DEF FramedIInv
<1> DEFINE u == Untaken
           m == Head(u)
           r == net \o outq
           q == SubSeq(Body, Expected + 1, Len(Body))
<1>4. /\ u # <<>> /\ m \in Message /\ Expected = Len(m) /\ Body \in Seq(Byte)
      /\ Unread = encode_u32(Expected) \o (Body \o r)
  BY <1>1, ReaderKnows
<1>5. r \in Seq(Byte) /\ Expected \in Nat /\ Expected =< Len(Body)
  <2>1. r \in Seq(Byte)
    BY <1>2
  <2>2. Len(m) \in Nat /\ Len(Body) \in Nat
    BY <1>4, FrameType
  <2> QED  BY <1>1, <1>4, <2>1, <2>2
<1>6. IsPrefix(Unread, FramesOf(u))
  <2>1. CASE writerClosed
    BY <2>1, <1>2 DEF Synced
  <2>2. CASE ~writerClosed
    <3>1. Unread = FramesOf(u) /\ Unread \o <<>> = Unread /\ <<>> \in Seq(Byte)
      BY <2>2, <1>2 DEF Synced
    <3>2. IsPrefix(Unread, Unread \o <<>>)
      BY <1>2, <3>1, PrefixJoin
    <3> QED  BY <3>1, <3>2
  <2> QED  BY <2>1, <2>2
<1>7. SubSeq(Body, 1, Expected) = m /\ q \in Seq(Byte) /\ Unread = Frame(m) \o (q \o r)
  <2> HIDE DEF r
  <2>1. Holds(u, Unread, Expected, Body, r)
    BY <1>2, <1>4, <1>5, <1>6 DEF Holds
  <2>2. Takes(u, Unread, Expected, Body, r)
    BY <1>2, <1>4, <1>5, <2>1, TakeFrame
  <2> QED  BY <2>2 DEF Takes
<1> HIDE DEF q
<1>8. /\ taken' = Append(taken, m) /\ buf' = q
      /\ delivered' \in {delivered, Append(delivered, m)}
  BY <1>1, <1>7 DEF q
<1>9. /\ taken' \in Seq(Message) /\ Len(taken') = Len(taken) + 1
      /\ Len(taken') =< Len(sent)
  <2>1. Len(u) = Len(sent) - Len(taken) /\ Len(u) \in Nat \ {0}
    BY <1>2, <1>3, <1>4, UntakenIs
  <2>2. taken' \in Seq(Message) /\ Len(taken') = Len(taken) + 1 /\ Len(taken) \in Nat /\ Len(sent) \in Nat
    <3> HIDE DEF m
    <3> QED  BY <1>2, <1>4, <1>8
  <2> HIDE DEF u
  <2> QED  BY <2>1, <2>2
<1>10. FramedTypeOK' /\ NoneInvented'
  <2>1. 0 \in 0..(Weight[HeaderSize] - 1)
    BY LengthNat
  <2>2. delivered' \in Seq(Message)
    <3>1. delivered \in Seq(Message)
      BY <1>3 DEF FramedTypeOK
    <3>2. m \in Message /\ delivered' \in {delivered, Append(delivered, m)}
      BY <1>4, <1>8
    <3> HIDE DEF m
    <3>3. Append(delivered, m) \in Seq(Message)
      BY <3>1, <3>2
    <3> QED  BY <3>1, <3>2, <3>3
  <2>4. FramedTypeOK'
    BY <1>1, <1>3, <1>7, <1>8, <1>9, <2>1, <2>2, Zenon DEF FramedTypeOK
  <2>3. NoneInvented'
    BY <1>1, <1>9, Zenon DEF NoneInvented
  <2> QED  BY <2>3, <2>4
<1>11. Untaken' = Rest(sent, taken') /\ Unread' = Bytes(0, q, net, outq)
  BY <1>1, <1>8, <1>10, InvThen
<1>12. Unread' = q \o r /\ Unread' \in Seq(Byte)
  <2>1. Unread' = <<>> \o (q \o r)
    BY <1>11 DEF Bytes, HeaderOf
  <2> HIDE DEF r
  <2> DEFINE s == q \o r
  <2>2. s \in Seq(Byte)
    BY <1>5, <1>7
  <2> HIDE DEF s
  <2>3. <<>> \o s = s
    BY <2>2
  <2> QED  BY <2>1, <2>2, <2>3 DEF s
<1>13. Untaken' = Tail(u)
  <2> DEFINE s == sent
             d == taken
             e == taken'
             v == Rest(s, e)
             w == Tail(u)
  <2>1. /\ s \in Seq(Message) /\ d \in Seq(Message) /\ e \in Seq(Message) /\ Len(e) = Len(d) + 1
        /\ Len(e) =< Len(s) /\ Len(d) =< Len(s) /\ Len(d) \in Nat /\ Len(s) \in Nat
    BY <1>2, <1>9
  <2>2. u = Rest(s, d) /\ u # <<>>
    BY <1>2, <1>4
  <2>a. Untaken' = v
    BY <1>11
  <2> HIDE DEF s, d, e, u
  <2>3. /\ u \in Seq(Message) /\ Len(u) = Len(s) - Len(d)
        /\ \A i \in 1..(Len(s) - Len(d)) : u[i] = s[Len(d) + i]
    BY <2>1, <2>2, RestIs
  <2>4. /\ v \in Seq(Message) /\ Len(v) = Len(s) - Len(e)
        /\ \A i \in 1..(Len(s) - Len(e)) : v[i] = s[Len(e) + i]
    BY <2>1, RestIs
  <2>5. w \in Seq(Message) /\ Len(w) = Len(u) - 1 /\ \A i \in 1..(Len(u) - 1) : w[i] = u[i + 1]
    BY <2>2, <2>3
  <2> HIDE DEF v, w
  <2>6. \A i \in 1..Len(v) : v[i] = w[i]
    <3> TAKE i \in 1..Len(v)
    <3>1. i \in 1..(Len(u) - 1) /\ i + 1 \in 1..(Len(s) - Len(d)) /\ Len(e) + i = Len(d) + (i + 1)
      BY <2>1, <2>3, <2>4
    <3>2. v[i] = s[Len(e) + i] /\ w[i] = u[i + 1] /\ u[i + 1] = s[Len(d) + (i + 1)]
      BY <2>3, <2>4, <2>5, <3>1
    <3> QED  BY <3>1, <3>2
  <2>7. Len(v) = Len(w)
    BY <2>1, <2>3, <2>4, <2>5
  <2>8. v = w
    BY <2>4, <2>5, <2>6, <2>7, SeqEqual
  <2> QED  BY <2>8, <2>a DEF w
<1> DEFINE y == Unread'
<1>14. Unread = Frame(m) \o y /\ y \in Seq(Byte)
  BY <1>7, <1>12
<1>15. Synced(Tail(u), y, writerClosed)
  <2> HIDE DEF y
  <2>1. u \in Seq(Message)
    BY <1>2
  <2>2. IsPrefix(Frame(Head(u)) \o y, FramesOf(u))
    BY <1>6, <1>14
  <2>3. /\ IsPrefix(y, FramesOf(Tail(u)))
        /\ Frame(Head(u)) \o y = FramesOf(u) => y = FramesOf(Tail(u))
    <3> HIDE DEF u
    <3> QED  BY <1>4, <1>14, <2>1, <2>2, FrameNext
  <2>4. CASE writerClosed
    BY <2>3, <2>4 DEF Synced
  <2>5. CASE ~writerClosed
    <3>1. Frame(Head(u)) \o y = FramesOf(u)
      BY <1>2, <1>14, <2>5 DEF Synced
    <3> QED  BY <2>3, <2>5, <3>1 DEF Synced
  <2> QED  BY <2>4, <2>5
<1>16. Synced(Untaken', Unread', writerClosed')
  BY <1>1, <1>13, <1>15
<1> QED  BY <1>1, <1>4, <1>8, <1>10, <1>13, <1>14, <1>16, InvThen

(* Every step of the pipe keeps the invariant.  *)
LEMMA FramedStep == FramedIInv /\ [FramedNext]_framedVars => FramedIInv'
<1> SUFFICES ASSUME FramedIInv, [FramedNext]_framedVars PROVE FramedIInv'
  OBVIOUS
<1>1. CASE \E m \in Message : SendMessage(m)
  BY <1>1, SendStep
<1>2. CASE Flush
  BY <1>2, FlushStep
<1>3. CASE CloseWriter
  BY <1>3, CloseStep
<1>4. CASE ReadChunk
  BY <1>4, ReadChunkStep
<1>5. CASE Extract
  BY <1>5, ExtractStep
<1>6. CASE ExtractNeedsMore
  BY <1>6, NeedsMoreStep
<1>7. CASE ReadEof \/ CloseReader \/ SetHandler
  BY <1>7, ReaderStep
<1>8. CASE UNCHANGED framedVars
  BY <1>8 DEF framedVars, FramedIInv, FramedTypeOK, NoneInvented, InSync, Unread, Untaken, Frames
<1> QED  BY <1>1, <1>2, <1>3, <1>4, <1>5, <1>6, <1>7, <1>8 DEF FramedNext

(* Framing never loses its place: however the kernel cuts the stream of      *)
(* send_message and whenever the writer closes, what readbuf_extract has     *)
(* still to work off is the frames of the messages not taken, or a prefix.   *)
THEOREM FramingSafe == FramedSpec => []FramingInv
<1>1. FramedIInv => FramingInv
  BY DEF FramedIInv, FramingInv
<1> QED  BY <1>1, FramedInitOK, FramedStep, PTL DEF FramedSpec

-----------------------------------------------------------------------------
(* The channel.                                                              *)

(* The frames of the first n messages of u.  *)
FramesUpTo(u, n) == FlattenSeq([i \in 1..n |-> Frame(u[i])])

(* These are the frames of a prefix of u.  *)
LEMMA UpToIs ==
  ASSUME NEW u \in Seq(Message), NEW n \in 0..Len(u)
  PROVE  FramesUpTo(u, n) = FramesOf(SubSeq(u, 1, n)) /\ FramesUpTo(u, n) \in Seq(Byte)
<1> DEFINE v == SubSeq(u, 1, n)
<1>1. v \in Seq(Message) /\ Len(v) = n /\ \A i \in 1..n : v[i] = u[i]
  BY Cut
<1> HIDE DEF v
<1>2. [i \in 1..Len(v) |-> Frame(v[i])] = [i \in 1..n |-> Frame(u[i])]
  BY <1>1
<1>3. FramesUpTo(u, n) = FramesOf(v)
  BY <1>2 DEF FramesUpTo, FramesOf
<1>4. FramesOf(v) \in Seq(Byte)
  BY <1>1, FramesType
<1> QED  BY <1>3, <1>4 DEF v

(* All of them.  *)
LEMMA UpToAll ==
  ASSUME NEW u \in Seq(Message)
  PROVE  FramesUpTo(u, Len(u)) = FramesOf(u)
BY DEF FramesUpTo, FramesOf

(* One frame more.  *)
LEMMA UpToNext ==
  ASSUME NEW u \in Seq(Message), NEW n \in 0..(Len(u) - 1)
  PROVE  /\ Len(FramesUpTo(u, n)) \in Nat /\ Len(FramesUpTo(u, n + 1)) \in Nat
         /\ Len(FramesUpTo(u, n)) =< Len(FramesUpTo(u, n + 1))
<1>0. n \in 0..Len(u) /\ n + 1 \in 0..Len(u) /\ n + 1 \in 1..Len(u) /\ n \in Nat
  OBVIOUS
<1> DEFINE v == SubSeq(u, 1, n)
           k == n + 1
           w == SubSeq(u, 1, k)
           m == u[k]
<1>1. v \in Seq(Message) /\ Len(v) = n /\ \A i \in 1..n : v[i] = u[i]
  BY <1>0, Cut
<1>2. w \in Seq(Message) /\ Len(w) = k /\ \A i \in 1..k : w[i] = u[i]
  <2>1. k \in 0..Len(u)
    BY <1>0
  <2> HIDE DEF k
  <2> QED  BY <2>1, Cut
<1>3. m \in Message
  BY <1>0
<1> HIDE DEF v, w, m
<1>4. w = Append(v, m)
  <2>1. /\ Append(v, m) \in Seq(Message) /\ Len(Append(v, m)) = n + 1
        /\ \A i \in 1..n : Append(v, m)[i] = v[i]
        /\ Append(v, m)[n + 1] = m
    BY <1>0, <1>1, <1>3
  <2>2. \A i \in 1..Len(w) : w[i] = Append(v, m)[i]
    <3> TAKE i \in 1..Len(w)
    <3>1. CASE i = n + 1
      BY <3>1, <2>1, <1>2 DEF m
    <3>2. CASE i # n + 1
      <4>1. i \in 1..n /\ i \in 1..k
        BY <3>2, <1>0, <1>2
      <4> QED  BY <4>1, <2>1, <1>1, <1>2
    <3> QED  BY <3>1, <3>2
  <2> QED  BY <1>2, <2>1, <2>2, SeqEqual
<1>5. FramesOf(w) = FramesOf(v) \o Frame(m)
  BY <1>1, <1>3, <1>4, FramesAppend
<1> DEFINE a == FramesOf(v)
           f == Frame(m)
<1>6. a \in Seq(Byte) /\ f \in Seq(Byte)
  BY <1>1, <1>3, FramesType, FrameType
<1> HIDE DEF a, f
<1>7. Len(a) \in Nat /\ Len(a \o f) \in Nat /\ Len(a) =< Len(a \o f)
  BY <1>6
<1>8. FramesUpTo(u, n) = a /\ FramesUpTo(u, n + 1) = a \o f
  <2>1. FramesUpTo(u, n) = FramesOf(v)
    BY <1>0, UpToIs DEF v
  <2>2. FramesUpTo(u, n + 1) = FramesOf(w)
    BY <1>0, UpToIs DEF w
  <2> QED  BY <2>1, <2>2, <1>5 DEF a, f
<1> QED  BY <1>7, <1>8

(* A prefix has no more bytes than all.  *)
LEMMA UpToGrows ==
  ASSUME NEW u \in Seq(Message), NEW k \in 0..Len(u)
  PROVE  Len(FramesUpTo(u, k)) \in Nat /\ Len(FramesUpTo(u, k)) =< Len(FramesOf(u))
<1> DEFINE L(n) == Len(FramesUpTo(u, n))
           T == {n \in 0..Len(u) : \A j \in 0..n : L(j) =< L(n)}
<1>0. Len(u) \in Nat /\ \A n \in 0..Len(u) : L(n) \in Nat
  <2> SUFFICES ASSUME NEW n \in 0..Len(u) PROVE L(n) \in Nat
    OBVIOUS
  <2>1. FramesUpTo(u, n) \in Seq(Byte)
    BY UpToIs
  <2> QED  BY <2>1
<1>1. 0 \in T
  BY <1>0
<1>2. ASSUME NEW n \in 0..(Len(u) - 1), n \in T PROVE n + 1 \in T
  <2>1. L(n) \in Nat /\ L(n + 1) \in Nat /\ L(n) =< L(n + 1)
    BY UpToNext
  <2> HIDE DEF L
  <2>2. \A j \in 0..n : L(j) =< L(n) /\ L(j) \in Nat
    BY <1>0, <1>2
  <2>3. \A j \in 0..(n + 1) : L(j) =< L(n + 1)
    <3> TAKE j \in 0..(n + 1)
    <3>1. CASE j = n + 1
      BY <3>1, <2>1
    <3>2. CASE j # n + 1
      <4>1. j \in 0..n
        BY <3>2
      <4> QED  BY <4>1, <2>1, <2>2
    <3> QED  BY <3>1, <3>2
  <2>4. n + 1 \in 0..Len(u)
    BY <1>0
  <2> QED  BY <2>3, <2>4
<1>3. 0..Len(u) \subseteq T
  <2> HIDE DEF T
  <2> QED  BY <1>0, <1>1, <1>2, IntervalInduction
<1>4. Len(u) \in 0..Len(u)
  BY <1>0
<1>5. L(k) =< L(Len(u))
  <2> HIDE DEF L
  <2> QED  BY <1>3, <1>4
<1> QED  BY <1>0, <1>5, UpToAll

(* n is the number of complete frames in x, which has the frames of u.  *)
Complete(u, x, n) ==
  /\ \A k \in 1..n : Len(FramesUpTo(u, k)) =< Len(x)
  /\ n = Len(u) \/ Len(FramesUpTo(u, n + 1)) > Len(x)

ArrivingOf(u, x) == CHOOSE n \in 0..Len(u) : Complete(u, x, n)

(* There is such a number.  *)
LEMMA ArrivingIs ==
  ASSUME NEW u \in Seq(Message), NEW x \in Seq(Byte)
  PROVE  ArrivingOf(u, x) \in 0..Len(u) /\ Complete(u, x, ArrivingOf(u, x))
<1> DEFINE L(n) == Len(FramesUpTo(u, n))
           T == {n \in 0..Len(u) : n = Len(u) \/ L(n + 1) > Len(x)}
<1>0. Len(u) \in Nat /\ Len(x) \in Nat /\ \A n \in 0..Len(u) : L(n) \in Nat
  BY UpToGrows
<1> HIDE DEF L
<1>1. T # {} /\ T \subseteq Nat
  <2>1. Len(u) \in T
    BY <1>0
  <2> QED  BY <2>1
<1>2. PICK n \in T : \A j \in T : n =< j
  <2> HIDE DEF T
  <2> QED  BY <1>1, LeastNumber
<1>3. \A k \in 1..n : L(k) =< Len(x)
  <2> TAKE k \in 1..n
  <2>1. n \in 0..Len(u) /\ k - 1 \in 0..Len(u) /\ k \in 0..Len(u) /\ k - 1 # Len(u) /\ (k - 1) + 1 = k
    BY <1>0
  <2>2. ~(k - 1 \in T)
    <3> HIDE DEF T
    <3>1. k - 1 \in T => n =< k - 1
      BY <1>2
    <3> QED  BY <1>0, <2>1, <3>1
  <2>3. ~(L(k) > Len(x))
    BY <2>1, <2>2
  <2> QED  BY <1>0, <2>1, <2>3
<1>4. n \in 0..Len(u) /\ Complete(u, x, n)
  BY <1>2, <1>3 DEF Complete, L
<1> QED  BY <1>4, Zenon DEF ArrivingOf

(* There is one only.  *)
LEMMA ArrivingOnly ==
  ASSUME NEW u \in Seq(Message), NEW x \in Seq(Byte), NEW n \in 0..Len(u), Complete(u, x, n)
  PROVE  ArrivingOf(u, x) = n
<1> DEFINE a == ArrivingOf(u, x)
           L(i) == Len(FramesUpTo(u, i))
<1>1. a \in 0..Len(u) /\ Complete(u, x, a)
  BY ArrivingIs
<1>2. Len(u) \in Nat /\ Len(x) \in Nat /\ \A i \in 0..Len(u) : L(i) \in Nat
  BY UpToGrows
<1>3. /\ \A k \in 1..n : L(k) =< Len(x)
      /\ n = Len(u) \/ L(n + 1) > Len(x)
      /\ \A k \in 1..a : L(k) =< Len(x)
      /\ a = Len(u) \/ L(a + 1) > Len(x)
  BY <1>1 DEF Complete
<1> HIDE DEF a, L
<1>4. ~(a < n)
  <2> SUFFICES ASSUME a < n PROVE FALSE
    OBVIOUS
  <2>1. a + 1 \in 1..n /\ a # Len(u) /\ a + 1 \in 0..Len(u)
    BY <1>1, <1>2
  <2>2. L(a + 1) =< Len(x) /\ L(a + 1) > Len(x) /\ L(a + 1) \in Nat
    BY <1>2, <1>3, <2>1
  <2> QED  BY <1>2, <2>2
<1>5. ~(n < a)
  <2> SUFFICES ASSUME n < a PROVE FALSE
    OBVIOUS
  <2>1. n + 1 \in 1..a /\ n # Len(u) /\ n + 1 \in 0..Len(u)
    BY <1>1, <1>2
  <2>2. L(n + 1) =< Len(x) /\ L(n + 1) > Len(x) /\ L(n + 1) \in Nat
    BY <1>2, <1>3, <2>1
  <2> QED  BY <1>2, <2>2
<1>6. a = n
  BY <1>1, <1>2, <1>4, <1>5
<1> QED  BY <1>6 DEF a

(* With the writer open every message on its way will arrive.  *)
LEMMA ArrivingOpen ==
  ASSUME NEW u \in Seq(Message)
  PROVE  ArrivingOf(u, FramesOf(u)) = Len(u)
<1> DEFINE x == FramesOf(u)
<1>1. x \in Seq(Byte) /\ Len(u) \in 0..Len(u)
  BY FramesType
<1>2. \A k \in 1..Len(u) : Len(FramesUpTo(u, k)) =< Len(x)
  <2> TAKE k \in 1..Len(u)
  <2>1. k \in 0..Len(u)
    OBVIOUS
  <2> QED  BY <2>1, UpToGrows
<1> DEFINE n == Len(u)
<1>3. Complete(u, x, n)
  BY <1>2 DEF Complete
<1> HIDE DEF x, n
<1>4. ArrivingOf(u, x) = n
  BY <1>1, <1>3, ArrivingOnly DEF n
<1> QED  BY <1>4 DEF x, n

(* The first k + 1 elements of a sequence: the head and the first k of the rest. *)
LEMMA CutFirst ==
  ASSUME NEW S, NEW u \in Seq(S), u # <<>>, NEW k \in 0..(Len(u) - 1)
  PROVE  /\ SubSeq(u, 1, k + 1) \in Seq(S) /\ SubSeq(u, 1, k + 1) # <<>>
         /\ Head(SubSeq(u, 1, k + 1)) = Head(u)
         /\ Tail(SubSeq(u, 1, k + 1)) = SubSeq(Tail(u), 1, k)
<1> DEFINE n == k + 1
           v == SubSeq(u, 1, n)
           t == Tail(u)
           w == SubSeq(t, 1, k)
<1>1. n \in 0..Len(u) /\ k \in Nat /\ Len(u) \in Nat
  OBVIOUS
<1>2. v \in Seq(S) /\ Len(v) = n /\ \A i \in 1..n : v[i] = u[i]
  <2> HIDE DEF n
  <2> QED  BY <1>1, Cut
<1>3. t \in Seq(S) /\ Len(t) = Len(u) - 1 /\ Head(u) = u[1] /\ \A i \in 1..(Len(u) - 1) : t[i] = u[i + 1]
  OBVIOUS
<1> HIDE DEF t
<1>4. w \in Seq(S) /\ Len(w) = k /\ \A i \in 1..k : w[i] = t[i]
  <2>1. k \in 0..Len(t)
    BY <1>3
  <2> QED  BY <1>3, <2>1, Cut
<1> HIDE DEF v, w
<1>5. v # <<>> /\ Head(v) = v[1] /\ Tail(v) \in Seq(S) /\ Len(Tail(v)) = k
      /\ \A i \in 1..k : Tail(v)[i] = v[i + 1]
  BY <1>1, <1>2
<1>6. Head(v) = Head(u)
  <2>1. v[1] = u[1]
    BY <1>1, <1>2
  <2> QED  BY <1>3, <1>5, <2>1
<1>7. Tail(v) = w
  <2>1. \A i \in 1..k : Tail(v)[i] = w[i]
    <3> TAKE i \in 1..k
    <3>1. i + 1 \in 1..n /\ i \in 1..(Len(u) - 1)
      BY <1>1
    <3> QED  BY <1>2, <1>3, <1>4, <1>5, <3>1
  <2> QED  BY <1>4, <1>5, <2>1, SeqEqual
<1> QED  BY <1>2, <1>5, <1>6, <1>7 DEF v, w, t

(* The first frame, and the first k of the others.  *)
LEMMA UpToFirst ==
  ASSUME NEW u \in Seq(Message), u # <<>>, NEW k \in 0..(Len(u) - 1)
  PROVE  FramesUpTo(u, k + 1) = Frame(Head(u)) \o FramesUpTo(Tail(u), k)
<1>0. k \in 0..Len(Tail(u)) /\ k + 1 \in 0..Len(u) /\ Tail(u) \in Seq(Message)
  OBVIOUS
<1> DEFINE v == SubSeq(u, 1, k + 1)
<1>1. v \in Seq(Message) /\ v # <<>> /\ Head(v) = Head(u) /\ Tail(v) = SubSeq(Tail(u), 1, k)
  BY CutFirst
<1>2. FramesUpTo(u, k + 1) = FramesOf(v)
  BY <1>0, UpToIs
<1>3. FramesUpTo(Tail(u), k) = FramesOf(SubSeq(Tail(u), 1, k))
  BY <1>0, UpToIs
<1> HIDE DEF v
<1>4. FramesOf(v) = Frame(Head(v)) \o FramesOf(Tail(v))
  BY <1>1, FramesFirst
<1> QED  BY <1>1, <1>2, <1>3, <1>4

(* When the first frame is taken out, one frame less is complete.  *)
FirstTaken(u, x, y) == x = Frame(Head(u)) \o y

(* One frame less is complete.  *)
LEMMA ArrivingNext ==
  ASSUME NEW u \in Seq(Message), u # <<>>, NEW y \in Seq(Byte), NEW x,
         FirstTaken(u, x, y)
  PROVE  /\ ArrivingOf(u, x) \in 1..Len(u)
         /\ ArrivingOf(Tail(u), y) = ArrivingOf(u, x) - 1
<1> DEFINE f == Frame(Head(u))
           t == Tail(u)
           a == ArrivingOf(u, x)
           L(i) == Len(FramesUpTo(u, i))
           M(i) == Len(FramesUpTo(t, i))
<1>1. f \in Seq(Byte) /\ t \in Seq(Message) /\ Len(t) = Len(u) - 1 /\ Len(u) \in Nat \ {0}
  <2>1. Head(u) \in Message /\ t \in Seq(Message) /\ Len(t) = Len(u) - 1 /\ Len(u) \in Nat \ {0}
    OBVIOUS
  <2> QED  BY <2>1, FrameType
<1>2. x \in Seq(Byte) /\ Len(x) = Len(f) + Len(y) /\ Len(f) \in Nat /\ Len(y) \in Nat /\ Len(x) \in Nat
  <2> HIDE DEF f
  <2>1. x = f \o y
    BY DEF f, FirstTaken
  <2> QED  BY <1>1, <2>1
<1>3. a \in 0..Len(u) /\ Complete(u, x, a)
  BY <1>2, ArrivingIs
<1>4. \A k \in 0..(Len(u) - 1) : L(k + 1) = Len(f) + M(k) /\ M(k) \in Nat
  <2> TAKE k \in 0..(Len(u) - 1)
  <2>1. FramesUpTo(u, k + 1) = f \o FramesUpTo(t, k)
    BY UpToFirst
  <2>2. FramesUpTo(t, k) \in Seq(Byte)
    <3>1. k \in 0..Len(t)
      BY <1>1
    <3> HIDE DEF t
    <3> QED  BY <1>1, <3>1, UpToIs
  <2> DEFINE g == FramesUpTo(t, k)
  <2> HIDE DEF f, g
  <2>3. g \in Seq(Byte) /\ f \in Seq(Byte)
    BY <1>1, <2>2 DEF g
  <2>4. Len(f \o g) = Len(f) + Len(g) /\ Len(g) \in Nat
    BY <2>3
  <2> QED  BY <2>1, <2>4 DEF g
<1>5. M(0) = 0
  <2>1. [i \in 1..0 |-> Frame(t[i])] = <<>>
    OBVIOUS
  <2> QED  BY <2>1, FlattenEmpty DEF FramesUpTo
<1>6. /\ \A k \in 1..a : L(k) =< Len(x)
      /\ a = Len(u) \/ L(a + 1) > Len(x)
  BY <1>3 DEF Complete
<1> HIDE DEF f, a, L, M
<1>7. a # 0
  <2> SUFFICES ASSUME a = 0 PROVE FALSE
    OBVIOUS
  <2>1. 0 \in 0..(Len(u) - 1) /\ a # Len(u)
    BY <1>1
  <2>2. L(0 + 1) = Len(f)
    BY <1>2, <1>4, <1>5, <2>1
  <2>3. L(0 + 1) > Len(x)
    BY <1>6, <2>1
  <2> QED  BY <1>2, <2>2, <2>3
<1>8. \A k \in 1..(a - 1) : M(k) =< Len(y)
  <2> TAKE k \in 1..(a - 1)
  <2>1. k \in 0..(Len(u) - 1) /\ k + 1 \in 1..a
    BY <1>1, <1>3
  <2>2. L(k + 1) = Len(f) + M(k) /\ L(k + 1) =< Len(x) /\ M(k) \in Nat
    BY <2>1, <1>4, <1>6
  <2> QED  BY <1>2, <2>2
<1>9. a - 1 = Len(t) \/ M((a - 1) + 1) > Len(y)
  <2> HIDE DEF t
  <2> SUFFICES ASSUME a - 1 # Len(t) PROVE M((a - 1) + 1) > Len(y)
    OBVIOUS
  <2>1. a # Len(u) /\ a \in 0..(Len(u) - 1) /\ (a - 1) + 1 = a
    BY <1>1, <1>3
  <2>2. L(a + 1) = Len(f) + M(a) /\ L(a + 1) > Len(x) /\ M(a) \in Nat
    BY <1>4, <1>6, <2>1
  <2>3. M(a) > Len(y)
    BY <1>2, <2>2
  <2> QED  BY <2>1, <2>3
<1> DEFINE b == a - 1
<1>10. b \in 0..Len(t) /\ a \in 1..Len(u)
  BY <1>1, <1>3, <1>7
<1>11. Complete(t, y, b)
  BY <1>8, <1>9 DEF Complete, M
<1> HIDE DEF t, b
<1>12. ArrivingOf(t, y) = b
  BY <1>1, <1>10, <1>11, ArrivingOnly
<1> QED  BY <1>10, <1>12 DEF t, b, a

-----------------------------------------------------------------------------
(* The refinement.                                                           *)

(* Arriving, from the parts of a state, before a step.  *)
LEMMA ArrivingHere == Arriving = ArrivingOf(Untaken, Unread)
BY DEF Arriving, ArrivingOf, Complete, Frames, FramesUpTo

(* And after it.  *)
LEMMA ArrivingThen == Arriving' = ArrivingOf(Untaken', Unread')
BY DEF Arriving, ArrivingOf, Complete, Frames, FramesUpTo

(* While the writer is open, the queue of the channel is what is undelivered.  *)
LEMMA QueueOpen ==
  ASSUME FramedIInv, ~writerClosed
  PROVE  SubSeq(Untaken, 1, Arriving) = Untaken
<1>1. Untaken \in Seq(Message) /\ Synced(Untaken, Unread, writerClosed)
  BY InvNow
<1>2. Unread = FramesOf(Untaken)
  BY <1>1 DEF Synced
<1>3. Arriving = Len(Untaken)
  BY <1>1, <1>2, ArrivingHere, ArrivingOpen
<1> QED  BY <1>1, <1>3, SubSeqFull

(* The same after a step.  *)
LEMMA QueueOpenThen ==
  ASSUME FramedIInv', ~writerClosed'
  PROVE  SubSeq(Untaken', 1, Arriving') = Untaken'
<1> DEFINE u == Untaken'
<1>0. FramedTypeOK' /\ NoneInvented' /\ InSync'
  BY DEF FramedIInv
<1>1. u \in Seq(Message)
  <2>1. u = Rest(sent', taken')
    BY <1>0, InvThen
  <2>2. sent' \in Seq(Message) /\ taken' \in Seq(Message) /\ Len(taken') =< Len(sent')
    BY <1>0 DEF FramedTypeOK, NoneInvented
  <2> QED  BY <2>1, <2>2, RestIs
<1>2. Unread' = FramesOf(u)
  BY <1>0 DEF InSync, FramesOf, Frames
<1>3. Arriving' = Len(u)
  <2> HIDE DEF u
  <2>1. Arriving' = ArrivingOf(u, FramesOf(u))
    BY <1>2, ArrivingThen DEF u
  <2> QED  BY <1>1, <2>1, ArrivingOpen
<1> HIDE DEF u
<1>4. SubSeq(u, 1, Len(u)) = u
  BY <1>1, SubSeqFull
<1> QED  BY <1>3, <1>4 DEF u

(* No more arrive than were sent.  *)
LEMMA ArrivingBound ==
  ASSUME FramedIInv'
  PROVE  Arriving' \in 0..Len(Untaken')
<1> DEFINE u == Untaken'
           x == Unread'
<1>0. FramedTypeOK' /\ NoneInvented'
  BY DEF FramedIInv
<1>1. u \in Seq(Message)
  <2>1. u = Rest(sent', taken')
    BY <1>0, InvThen
  <2>2. sent' \in Seq(Message) /\ taken' \in Seq(Message) /\ Len(taken') =< Len(sent')
    BY <1>0 DEF FramedTypeOK, NoneInvented
  <2> QED  BY <2>1, <2>2, RestIs
<1>2. x \in Seq(Byte)
  <2>1. x = Bytes(msg_len', buf', net', outq')
    BY <1>0, InvThen
  <2>2. msg_len' \in Nat /\ buf' \in Seq(Byte) /\ net' \in Seq(Byte) /\ outq' \in Seq(Byte)
    BY <1>0, LengthNat DEF FramedTypeOK
  <2> QED  BY <2>1, <2>2, BytesIs
<1> HIDE DEF u, x
<1>3. ArrivingOf(u, x) \in 0..Len(u)
  BY <1>1, <1>2, ArrivingIs
<1> QED  BY <1>3, ArrivingThen DEF u, x

(* The pipe begins as an empty, open channel.  *)
LEMMA ChannelInit == FramedInit => Channel!ChanInit
<1> SUFFICES ASSUME FramedInit PROVE Channel!ChanInit
  OBVIOUS
<1>1. Untaken = <<>>
  BY DEF FramedInit, Untaken
<1>2. FramedIInv /\ ~writerClosed
  BY FramedInitOK DEF FramedInit
<1>3. SubSeq(Untaken, 1, Arriving) = <<>>
  BY <1>1, <1>2, QueueOpen
<1> QED  BY <1>3 DEF FramedInit, Channel!ChanInit

(* send_message is Send.  *)
LEMMA ChannelSend ==
  ASSUME FramedIInv, NEW m \in Message, SendMessage(m)
  PROVE  Channel!Send(m)
<1>1. /\ FramedIInv' /\ ~writerClosed /\ writerClosed' = writerClosed
      /\ Untaken' = Append(Untaken, m) /\ delivered' = delivered
  BY SendStep
<1>2. SubSeq(Untaken, 1, Arriving) = Untaken
  BY <1>1, QueueOpen
<1>3. SubSeq(Untaken', 1, Arriving') = Untaken'
  BY <1>1, QueueOpenThen
<1> QED  BY <1>1, <1>2, <1>3 DEF Channel!Send

(* The close is Close: it drops the messages whose frame is not complete.  *)
LEMMA ChannelClose ==
  ASSUME FramedIInv, CloseWriter
  PROVE  Channel!Close
<1>1. /\ FramedIInv' /\ Untaken' = Untaken /\ delivered' = delivered
      /\ ~writerClosed /\ writerClosed'
  BY CloseStep
<1>2. SubSeq(Untaken, 1, Arriving) = Untaken
  BY <1>1, QueueOpen
<1>3. Arriving' \in 0..Len(Untaken)
  BY <1>1, ArrivingBound
<1>4. \E n \in 0..Len(Untaken) : SubSeq(Untaken', 1, Arriving') = SubSeq(Untaken, 1, n)
  BY <1>1, <1>3
<1> QED  BY <1>1, <1>2, <1>4 DEF Channel!Close

(* A step that moves bytes is none of the channel.  *)
LEMMA ChannelMove ==
  ASSUME Moves, UNCHANGED <<taken, delivered, writerClosed>>
  PROVE  UNCHANGED Channel!chanVars
<1>1. Arriving' = Arriving
  BY ArrivingHere, ArrivingThen DEF Moves
<1> QED  BY <1>1 DEF Moves, Channel!chanVars

(* readbuf_extract returning 1 is Deliver, or Drop.  *)
LEMMA ChannelDeliver ==
  ASSUME FramedIInv, Extract
  PROVE  Channel!Deliver \/ Channel!Drop
<1> DEFINE u == Untaken
           a == ArrivingOf(u, Unread)
           y == Unread'
<1>1. /\ writerClosed' = writerClosed /\ u # <<>>
      /\ delivered' \in {delivered, Append(delivered, Head(u))}
      /\ Untaken' = Tail(u) /\ y \in Seq(Byte) /\ FirstTaken(u, Unread, y)
  BY ExtractStep DEF FirstTaken
<1>2. u \in Seq(Message)
  BY InvNow
<1>3. a \in 1..Len(u) /\ ArrivingOf(Tail(u), y) = a - 1
  <2> DEFINE x == Unread
  <2>1. FirstTaken(u, x, y)
    BY <1>1
  <2> HIDE DEF u, x, y
  <2>2. ArrivingOf(u, x) \in 1..Len(u) /\ ArrivingOf(Tail(u), y) = ArrivingOf(u, x) - 1
    BY <1>1, <1>2, <2>1, ArrivingNext
  <2> QED  BY <2>2 DEF x
<1>4. Arriving = a /\ Arriving' = a - 1
  BY <1>1, <1>3, ArrivingHere, ArrivingThen
<1> DEFINE k == a - 1
           q == SubSeq(u, 1, k + 1)
<1>5. k \in 0..(Len(u) - 1) /\ k + 1 = a
  <2> HIDE DEF u, a
  <2> QED  BY <1>2, <1>3
<1>6. q # <<>> /\ Head(q) = Head(u) /\ Tail(q) = SubSeq(Tail(u), 1, k)
  <2> HIDE DEF u, k
  <2> QED  BY <1>1, <1>2, <1>5, CutFirst
<1>7. SubSeq(Untaken, 1, Arriving) = q
  BY <1>4, <1>5
<1>8. SubSeq(Untaken', 1, Arriving') = Tail(q)
  BY <1>1, <1>4, <1>6
<1> HIDE DEF q
<1> QED  BY <1>1, <1>6, <1>7, <1>8 DEF Channel!Deliver, Channel!Drop

(* Every step of the pipe is one of the channel, or none.  *)
LEMMA ChannelStep ==
  FramedIInv /\ [FramedNext]_framedVars => [Channel!ChanNext]_(Channel!chanVars)
<1> SUFFICES ASSUME FramedIInv, [FramedNext]_framedVars
             PROVE  [Channel!ChanNext]_(Channel!chanVars)
  OBVIOUS
<1>1. CASE \E m \in Message : SendMessage(m)
  BY <1>1, ChannelSend DEF Channel!ChanNext
<1>2. CASE Flush
  BY <1>2, FlushStep, ChannelMove
<1>3. CASE CloseWriter
  BY <1>3, ChannelClose DEF Channel!ChanNext
<1>4. CASE ReadChunk
  BY <1>4, ReadChunkStep, ChannelMove
<1>5. CASE Extract
  BY <1>5, ChannelDeliver DEF Channel!ChanNext
<1>6. CASE ExtractNeedsMore
  BY <1>6, NeedsMoreStep, ChannelMove
<1>7. CASE ReadEof \/ CloseReader \/ SetHandler
  BY <1>7, ReaderStep, ChannelMove
<1>8. CASE UNCHANGED framedVars
  <2>1. Moves /\ UNCHANGED <<taken, delivered, writerClosed>>
    BY <1>8 DEF framedVars, Moves, Untaken, Unread
  <2> QED  BY <2>1, ChannelMove
<1> QED  BY <1>1, <1>2, <1>3, <1>4, <1>5, <1>6, <1>7, <1>8 DEF FramedNext

(* The framed pipe of qn-worker.c is a message channel: what postMessage     *)
(* was given arrives in order, once and unchanged, but for what the receiver *)
(* has no handler for or cannot read; what the close of the pipe drops is a  *)
(* suffix.                                                                   *)
THEOREM PipeIsChannel == FramedSpec => ImplementsChannel
<1>1. FramedInit => FramedIInv
  BY FramedInitOK
<1>2. FramedIInv /\ [FramedNext]_framedVars => FramedIInv'
  BY FramedStep
<1>3. FramedInit => Channel!ChanInit
  BY ChannelInit
<1>4. FramedIInv /\ [FramedNext]_framedVars => [Channel!ChanNext]_(Channel!chanVars)
  BY ChannelStep
<1> QED  BY <1>1, <1>2, <1>3, <1>4, PTL DEF FramedSpec, ImplementsChannel, Channel!ChanSpec
=============================================================================
