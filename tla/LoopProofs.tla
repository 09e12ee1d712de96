----------------------------- MODULE LoopProofs -----------------------------
(***************************************************************************)
(* What is proved of the event loop and of the two kinds of handles it      *)
(* serves that live outside a composition: the poll entries of qn-vm.c and  *)
(* the streams.  Each part is about a specification of its own; they share  *)
(* no variable.                                                             *)
(*                                                                         *)
(* The loop, for any number of timers, operations, promises and jobs: type  *)
(* correctness, NeverSleepsOnJob and CleanExit.  None of the last two is    *)
(* inductive by itself.  LoopInv adds where JavaScript can be on the stack  *)
(* (so that the loop's own phases are not disturbed), that the idle handle  *)
(* agrees with the queue in the poll, and in which phase each transient     *)
(* state of a timer or operation can be seen.                               *)
(***************************************************************************)
EXTENDS EventLoop, PollHandlers, StreamHandle, TLAPS

(* JavaScript is called from these phases only.  *)
JsPhases ==
  /\ js = "main" <=> pc = "eval"
  /\ js = "job" => pc \in {"drain", "check"}
  /\ js = "cb" => pc \in {"fire1", "fire", "pending", "pending2", "dispatch", "closing"}

(* In the poll the idle handle runs if a job is pending.  *)
IdleCoversJobs == pc = "poll" => (jobs = 0 \/ idle = TRUE)

(* What a phase has collected is worked off before the phase ends.  *)
Transient ==
  /\ \A o \in Ops : /\ op[o] = "event" => pc = "dispatch"
                    /\ op[o] = "due" => pc \in {"pending", "pending2"}
                    /\ op[o] = "finishing" => pc = "closing"
  /\ \A t \in Timers : /\ timer[t] = "ready" => pc \in {"fire1", "fire"}
                       /\ timer[t] = "finishing" => pc = "closing"

LoopInv == TypeOK /\ JsPhases /\ IdleCoversJobs /\ Transient /\ CleanExit

-----------------------------------------------------------------------------
(* The initial state satisfies the inductive invariant.  *)
LEMMA InitLoopInv == Init => LoopInv
<1> SUFFICES ASSUME Init PROVE LoopInv
  OBVIOUS
<1> USE MaxJobsAssumption DEF Init
<1>1. TypeOK
  <2>1. MaxJobs \in Nat
    BY MaxJobsAssumption
  <2>2. jobs \in 0..MaxJobs
    BY <2>1
  <2>3. pc \in Phases /\ js \in JsStates /\ idle \in BOOLEAN
    BY DEF Phases, JsStates
  <2>4. timer \in [Timers -> TimerStates] /\ op \in [Ops -> OpStates]
    BY DEF TimerStates, OpStates
  <2> QED
    BY <2>2, <2>3, <2>4 DEF TypeOK
<1>2. JsPhases /\ IdleCoversJobs /\ CleanExit
  BY DEF JsPhases, IdleCoversJobs, CleanExit
<1>3. Transient
  BY DEF Transient
<1> QED
  BY <1>1, <1>2, <1>3 DEF LoopInv

(* A call that JavaScript makes keeps it: no phase with a claim of its own   *)
(* has JavaScript on the stack.                                              *)
LEMMA JsCallLoopInv == LoopInv /\ JsCall => LoopInv'
<1> SUFFICES ASSUME LoopInv, JsCall PROVE LoopInv'
  OBVIOUS
<1> USE MaxJobsAssumption
        DEF LoopInv, TypeOK, JsPhases, IdleCoversJobs, Transient, CleanExit,
            Phases, JsStates, TimerStates, OpStates, InJs, loopVars, TimersIn, OpsIn
<1>1. ASSUME NEW t \in Timers, SetTimeout(t) PROVE LoopInv'
  BY <1>1 DEF SetTimeout
<1>2. ASSUME NEW t \in Timers, ClearTimeout(t) PROVE LoopInv'
  BY <1>2 DEF ClearTimeout
<1>3. ASSUME NEW t \in Timers, TimerRef(t) \/ TimerUnref(t) PROVE LoopInv'
  BY <1>3 DEF TimerRef, TimerUnref
<1>4. ASSUME NEW o \in Ops, StartOp(o) \/ CloseOp(o) PROVE LoopInv'
  BY <1>4 DEF StartOp, CloseOp
<1>5. ASSUME NEW p \in Promises, TrackRejection(p) \/ HandleRejection(p) PROVE LoopInv'
  BY <1>5 DEF TrackRejection, HandleRejection
<1>6. CASE EnqueueJob
  BY <1>6 DEF EnqueueJob
<1> QED
  BY <1>1, <1>2, <1>3, <1>4, <1>5, <1>6 DEF JsCall

(* So does JavaScript that ends.  *)
LEMMA JsEndsLoopInv == LoopInv /\ JsEnds => LoopInv'
<1> SUFFICES ASSUME LoopInv, JsEnds PROVE LoopInv'
  OBVIOUS
<1> USE MaxJobsAssumption
        DEF LoopInv, TypeOK, JsPhases, IdleCoversJobs, Transient, CleanExit,
            Phases, JsStates, TimerStates, OpStates, InJs, TimersIn, OpsIn
<1>1. CASE JsReturn
  BY <1>1 DEF JsReturn
<1>2. CASE MainThrows
  BY <1>2 DEF MainThrows
<1>3. CASE JobThrows
  BY <1>3 DEF JobThrows, AfterJobs
<1> QED
  BY <1>1, <1>2, <1>3 DEF JsEnds

(* The steps of qn_vm_loop and of the phases of uv_run.  *)
LEMMA LoopStepLoopInv == LoopInv /\ LoopStep => LoopInv'
<1> SUFFICES ASSUME LoopInv, LoopStep PROVE LoopInv'
  OBVIOUS
<1> USE MaxJobsAssumption
        DEF LoopInv, TypeOK, JsPhases, IdleCoversJobs, Transient, CleanExit,
            Phases, JsStates, TimerStates, OpStates, InJs, loopVars, TimersIn, OpsIn
<1>1. CASE ExecuteJob
  BY <1>1 DEF ExecuteJob
<1>2. CASE JobsDrained
  BY <1>2 DEF JobsDrained, AfterJobs
<1>3. CASE RejectionExit
  BY <1>3 DEF RejectionExit
<1>4. CASE LoopStart
  BY <1>4 DEF LoopStart
<1>5. CASE EnterUvRun
  BY <1>5 DEF EnterUvRun, MaybeIdle, LoopAlive, UvRunReturns
<1>6. CASE CollectTimers
  BY <1>6 DEF CollectTimers
<1>7. CASE TimersDone
  BY <1>7 DEF TimersDone, StartPending, LoopAlive, UvRunReturns
<1>8. CASE PendingDone
  BY <1>8 DEF PendingDone
<1>9. CASE PrepareCb
  BY <1>9 DEF PrepareCb, MaybeIdle
<1>10. CASE DispatchDone
  BY <1>10 DEF DispatchDone, StartPending
<1>11. CASE CheckCb
  BY <1>11 DEF CheckCb, MaybeIdle, StartClosing
<1>12. CASE ClosingDone
  BY <1>12 DEF ClosingDone
<1>13. CASE VmFree
  BY <1>13 DEF VmFree
<1>14. ASSUME NEW t \in Timers, TimerCb(t) PROVE LoopInv'
  BY <1>14 DEF TimerCb
<1>15. ASSUME NEW t \in Timers, TimerCloseCb(t) PROVE LoopInv'
  BY <1>15 DEF TimerCloseCb
<1>16. ASSUME NEW o \in Ops, PendingCb(o) PROVE LoopInv'
  BY <1>16 DEF PendingCb
<1>17. ASSUME NEW o \in Ops, DispatchCb(o) PROVE LoopInv'
  BY <1>17 DEF DispatchCb
<1>18. ASSUME NEW o \in Ops, OpCloseCb(o) PROVE LoopInv'
  BY <1>18 DEF OpCloseCb
<1> QED
  BY <1>1, <1>2, <1>3, <1>4, <1>5, <1>6, <1>7, <1>8, <1>9, <1>10, <1>11, <1>12,
     <1>13, <1>14, <1>15, <1>16, <1>17, <1>18 DEF LoopStep

(* The poll returns with any set of events.  *)
LEMMA PollReturnsLoopInv == LoopInv /\ PollReturns => LoopInv'
BY MaxJobsAssumption
DEF PollReturns, LoopInv, TypeOK, JsPhases, IdleCoversJobs, Transient, CleanExit,
    Phases, JsStates, TimerStates, OpStates, TimersIn, OpsIn

(* Steps that change nothing.  *)
LEMMA StutterLoopInv == LoopInv /\ UNCHANGED vars => LoopInv'
BY DEF vars, LoopInv, TypeOK, JsPhases, IdleCoversJobs, Transient, CleanExit,
       TimersIn, OpsIn

(* LoopInv is an inductive invariant of the event loop.  *)
THEOREM LoopInvariant == Spec => []LoopInv
<1>1. LoopInv /\ [Next]_vars => LoopInv'
  BY JsCallLoopInv, JsEndsLoopInv, LoopStepLoopInv, PollReturnsLoopInv, StutterLoopInv
  DEF Next, Ended
<1> QED
  BY InitLoopInv, <1>1, PTL DEF Spec

(* The variables keep their types, the job queue its bound: execute_jobs      *)
(* takes no job from an empty queue.                                         *)
THEOREM TypeCorrect == Spec => []TypeOK
<1>1. LoopInv => TypeOK
  BY DEF LoopInv
<1> QED
  BY LoopInvariant, <1>1, PTL

(* qn_vm_loop never blocks in the poll while a job is pending.  *)
THEOREM NoSleepOnJob == Spec => []NeverSleepsOnJob
<1>1. LoopInv => NeverSleepsOnJob
  BY DEF LoopInv, TypeOK, IdleCoversJobs, NeverSleepsOnJob, Sleeping, ZeroTimeout
<1> QED
  BY LoopInvariant, <1>1, PTL

(* qn_vm_loop returns with an empty queue, no request or handle of an        *)
(* operation, and no timer whose close callback is outstanding.              *)
THEOREM ExitIsClean == Spec => []CleanExit
<1>1. LoopInv => CleanExit
  BY DEF LoopInv
<1> QED
  BY LoopInvariant, <1>1, PTL

-----------------------------------------------------------------------------
(* setReadHandler and setWriteHandler, for any number of descriptors and     *)
(* entries.  PollInv adds to the properties what happens to an entry between *)
(* poll_free_entry and poll_close_cb, which the list does not show any more  *)
(* but a poll_cb on the stack may still point to.                            *)

(* The list holds the live entries; each has a handler and a uv_poll_t.  *)
LinkedIsLive ==
  \A p \in Polls :
    /\ poll[p].linked <=> poll[p].mem = "live"
    /\ poll[p].linked => poll[p].fns # {} /\ poll[p].inited /\ poll[p].fd \in Fds

(* One entry per descriptor.  *)
OnePerFd ==
  \A p, q \in Polls :
    poll[p].linked /\ poll[q].linked /\ poll[p].fd = poll[q].fd => p = q

(* An entry that has been unlinked has no handler and watches nothing.  *)
UnlinkedIsIdle ==
  \A p \in Polls : ~poll[p].linked => poll[p].fns = {} /\ poll[p].events = {}

WatchedIsHandled == \A p \in Polls : poll[p].events \subseteq poll[p].fns

(* The entry of the poll_cb on the stack; without one there is no event.  *)
StackEntry ==
  /\ cb # NoCb => cb.p \in Polls /\ poll[cb.p].mem # "free"
  /\ cb.todo # {} => cb # NoCb

PollInv ==
  /\ PollTypeOK /\ LinkedIsLive /\ OnePerFd /\ UnlinkedIsIdle /\ WatchedIsHandled
  /\ StackEntry

-----------------------------------------------------------------------------
(* No entry exists before the first handler is set.  *)
LEMMA InitPollInv == PollInit => PollInv
BY PollHandlersAssumption
DEF PollInit, PollInv, PollTypeOK, LinkedIsLive, OnePerFd, UnlinkedIsIdle, WatchedIsHandled,
    StackEntry, FreePoll, PollRecord, NoCb, NoFd, NoPoll, Dirs

(* What may become of one entry: enough for the invariant, whatever the       *)
(* operation.                                                                *)
EntryOK(p, r) ==
  /\ r \in PollRecord
  /\ r.mem = "free" => r = FreePoll /\ cb = NoCb
  /\ r.linked <=> r.mem = "live"
  /\ r.linked => r.fns # {} /\ r.inited /\ r.fd \in Fds
  /\ r.linked => \A q \in Polls \ {p} : poll[q].linked => poll[q].fd # r.fd
  /\ ~r.linked => r.fns = {} /\ r.events = {}
  /\ r.events \subseteq r.fns

(* An operation that leaves such an entry behind, and the stack alone, keeps  *)
(* PollInv.                                                                  *)
LEMMA EntryUpdate ==
  ASSUME PollInv, NEW p \in Polls, NEW r, EntryOK(p, r),
         poll' = [poll EXCEPT ![p] = r], UNCHANGED <<cb, running>>
  PROVE  PollInv'
<1>1. poll \in [Polls -> PollRecord] /\ r \in PollRecord
  BY DEF PollInv, PollTypeOK, EntryOK
<1>2. \A q \in Polls : poll'[q] = IF q = p THEN r ELSE poll[q]
  BY <1>1
<1>3. PollTypeOK'
  <2>1. poll' \in [Polls -> PollRecord]
    BY <1>1
  <2>2. \A q \in Polls : poll'[q].mem = "free" => poll'[q] = FreePoll
    BY <1>2 DEF PollInv, PollTypeOK, EntryOK
  <2> QED
    BY <2>1, <2>2 DEF PollInv, PollTypeOK, FreePoll, PollRecord
<1>4. LinkedIsLive'
  BY <1>2 DEF PollInv, LinkedIsLive, EntryOK
<1>5. OnePerFd'
  BY <1>2 DEF PollInv, OnePerFd, EntryOK
<1>6. UnlinkedIsIdle' /\ WatchedIsHandled'
  BY <1>2 DEF PollInv, UnlinkedIsIdle, WatchedIsHandled, EntryOK
<1>7. StackEntry'
  BY <1>2 DEF PollInv, StackEntry, EntryOK, NoCb
<1> QED
  BY <1>3, <1>4, <1>5, <1>6, <1>7 DEF PollInv

(* Clearing a handler: the entry is recomputed, or unlinked with no handler   *)
(* left; it is not freed, so that poll_cb may go on with it.                  *)
LEMMA ClearHandlerPollInv ==
  ASSUME NEW fd \in Fds, NEW d \in Dirs, PollInv, ClearHandler(fd, d)
  PROVE  PollInv'
<1> DEFINE Cleared(p) == [poll[p] EXCEPT !.fns = @ \ {d}]
           After(p) == IF Cleared(p).fns = {} THEN PollFreeEntry(Cleared(p))
                                              ELSE PollUpdate(Cleared(p))
<1>1. PICK p \in Found(fd) : poll' = [poll EXCEPT ![p] = After(p)]
  BY DEF ClearHandler
<1>2. p \in Polls /\ poll[p].linked /\ poll[p].inited /\ poll[p].mem = "live"
  BY DEF Found, PollInv, LinkedIsLive
<1>3. poll[p] \in PollRecord
  BY <1>2 DEF PollInv, PollTypeOK
<1>4. EntryOK(p, After(p))
  <2>1. CASE poll[p].fns \ {d} = {}
    BY <1>2, <1>3, <2>1 DEF PollFreeEntry, PollRecord, EntryOK
  <2>2. CASE poll[p].fns \ {d} # {}
    <3>1. \A q \in Polls \ {p} : poll[q].linked => poll[q].fd # poll[p].fd
      BY <1>2 DEF PollInv, OnePerFd
    <3>2. poll[p].fd \in Fds
      BY <1>2 DEF PollInv, LinkedIsLive
    <3>3. Cleared(p).fns = poll[p].fns \ {d}
      BY <1>3 DEF PollRecord
    <3>4. After(p) = PollUpdate(Cleared(p))
      BY <3>3, <2>2
    <3>5. After(p) = [mem |-> "live", fd |-> poll[p].fd, linked |-> TRUE,
                      fns |-> poll[p].fns \ {d}, inited |-> TRUE,
                      events |-> poll[p].fns \ {d}]
      BY <1>2, <1>3, <2>2, <3>4 DEF PollUpdate, PollRecord
    <3> HIDE DEF After
    <3> QED
      BY <1>3, <2>2, <3>1, <3>2, <3>5 DEF PollRecord, EntryOK
  <2> QED
    BY <2>1, <2>2
<1> HIDE DEF After
<1> QED
  BY <1>1, <1>2, <1>4, EntryUpdate DEF ClearHandler

(* Setting a handler: on the entry that is found, or on a new one when there  *)
(* is none, which keeps the descriptor's entry unique.                        *)
LEMMA SetHandlerPollInv ==
  ASSUME NEW fd \in Fds, NEW d \in Dirs, PollInv, SetHandler(fd, d)
  PROVE  PollInv'
<1> DEFINE Added(p) == [mem |-> "live", fd |-> fd, linked |-> TRUE,
                        fns |-> poll[p].fns \union {d}, inited |-> TRUE,
                        events |-> poll[p].fns \union {d}]
           Fresh == [mem |-> "live", fd |-> fd, linked |-> TRUE, fns |-> {d},
                   inited |-> TRUE, events |-> {d}]
<1>1. poll \in [Polls -> PollRecord]
  BY DEF PollInv, PollTypeOK
<1>2. ASSUME NEW p \in Found(fd),
             poll' = [poll EXCEPT ![p] = PollUpdate([poll[p] EXCEPT !.fns = @ \union {d}])]
      PROVE  PollInv'
  <2>1. p \in Polls /\ poll[p].linked /\ poll[p].fd = fd
    BY DEF Found
  <2>2. poll[p] \in PollRecord /\ poll[p].mem = "live"
    BY <1>1, <2>1 DEF PollInv, LinkedIsLive
  <2>3. PollUpdate([poll[p] EXCEPT !.fns = @ \union {d}]) = Added(p)
    <3>1. poll[p].fns \union {d} # {}
      OBVIOUS
    <3> QED
      BY <2>1, <2>2, <3>1 DEF PollUpdate, PollRecord
  <2>4. poll' = [poll EXCEPT ![p] = Added(p)]
    <3> HIDE DEF Added
    <3> QED
      BY <1>2, <2>3
  <2>5. \A q \in Polls \ {p} : poll[q].linked => poll[q].fd # fd
    BY <2>1 DEF PollInv, OnePerFd
  <2>6. EntryOK(p, Added(p))
    BY <2>2, <2>5 DEF EntryOK, PollRecord
  <2> HIDE DEF Added
  <2> QED
    BY <2>1, <2>4, <2>6, EntryUpdate DEF SetHandler
<1>3. ASSUME Found(fd) = {}, NEW p \in Polls, poll[p].mem = "free",
             poll' = [poll EXCEPT ![p] = PollUpdate(
                  [FreePoll EXCEPT !.mem = "live", !.fd = fd, !.linked = TRUE,
                                   !.fns = {d}])]
      PROVE  PollInv'
  <2>1. PollUpdate([FreePoll EXCEPT !.mem = "live", !.fd = fd, !.linked = TRUE,
                                    !.fns = {d}]) = Fresh
    BY DEF PollUpdate, FreePoll
  <2>2. \A q \in Polls : poll[q].linked => poll[q].fd # fd
    BY <1>3 DEF Found
  <2>3. EntryOK(p, Fresh)
    BY <2>2 DEF EntryOK, PollRecord
  <2>4. poll' = [poll EXCEPT ![p] = Fresh]
    BY <1>3, <2>1
  <2> HIDE DEF Fresh
  <2> QED
    BY <2>3, <2>4, EntryUpdate DEF SetHandler
<1> QED
  BY <1>2, <1>3 DEF SetHandler

(* The steps of the loop: poll_cb, its handlers, and poll_close_cb.  *)
LEMMA LoopPollInv ==
  ASSUME PollInv,
         \/ HandlerReturns \/ JsTurn \/ PollCbStep \/ PollCbReturns
         \/ \E p \in Polls : PollCb(p) \/ PollError(p) \/ PollCloseCb(p)
  PROVE  PollInv'
<1> USE PollHandlersAssumption
<1>1. CASE HandlerReturns \/ JsTurn
  BY <1>1 DEF PollInv, PollTypeOK, LinkedIsLive, OnePerFd, UnlinkedIsIdle,
              WatchedIsHandled, StackEntry, HandlerReturns, JsTurn
<1>2. CASE PollCbStep
  BY <1>2 DEF PollInv, PollTypeOK, LinkedIsLive, OnePerFd, UnlinkedIsIdle,
              WatchedIsHandled, StackEntry, PollCbStep, NoCb, NoPoll
<1>3. CASE PollCbReturns
  BY <1>3 DEF PollInv, PollTypeOK, LinkedIsLive, OnePerFd, UnlinkedIsIdle,
              WatchedIsHandled, StackEntry, PollCbReturns, NoCb
<1>4. ASSUME NEW p \in Polls, PollCb(p) PROVE PollInv'
  <2>1. poll[p].mem # "free"
    BY <1>4 DEF PollCb, PollInv, PollTypeOK, FreePoll
  <2> QED
    BY <1>4, <2>1 DEF PollInv, PollTypeOK, LinkedIsLive, OnePerFd, UnlinkedIsIdle,
                      WatchedIsHandled, StackEntry, PollCb, NoCb, NoPoll, PollRecord
<1>5. ASSUME NEW p \in Polls, PollError(p) PROVE PollInv'
  <2>1. poll[p] \in PollRecord /\ poll[p].linked /\ poll[p].mem = "live"
    BY <1>5 DEF PollError, PollInv, PollTypeOK, UnlinkedIsIdle, LinkedIsLive
  <2>2. \A q \in Polls \ {p} : poll[q].linked => poll[q].fd # poll[p].fd
    BY <2>1 DEF PollInv, OnePerFd
  <2>3. EntryOK(p, [poll[p] EXCEPT !.events = {}])
    BY <2>1, <2>2 DEF EntryOK, PollRecord, PollInv, LinkedIsLive
  <2>4. poll' = [poll EXCEPT ![p] = [poll[p] EXCEPT !.events = {}]]
    BY <1>5 DEF PollError
  <2> QED
    BY <1>5, <2>3, <2>4, EntryUpdate DEF PollError
<1>6. ASSUME NEW p \in Polls, PollCloseCb(p) PROVE PollInv'
  <2>1. EntryOK(p, FreePoll)
    BY <1>6 DEF PollCloseCb, EntryOK, PollRecord, FreePoll
  <2> QED
    BY <1>6, <2>1, EntryUpdate DEF PollCloseCb
<1> QED
  BY <1>1, <1>2, <1>3, <1>4, <1>5, <1>6

(* PollInv is an inductive invariant.  *)
THEOREM PollInvariant == PollSpec => []PollInv
<1>1. PollInv /\ UNCHANGED pollVars => PollInv'
  BY DEF PollInv, PollTypeOK, LinkedIsLive, OnePerFd, UnlinkedIsIdle, WatchedIsHandled,
         StackEntry, pollVars
<1>2. PollInv /\ [PollNext]_pollVars => PollInv'
  BY ClearHandlerPollInv, SetHandlerPollInv, LoopPollInv, <1>1 DEF PollNext
<1> QED
  BY InitPollInv, <1>2, PTL DEF PollSpec

(* poll_find returns only live entries with a handler, one per descriptor.   *)
THEOREM ListStaysLive == PollSpec => []ListIsLive
<1>1. PollInv => ListIsLive
  BY DEF PollInv, LinkedIsLive, OnePerFd, ListIsLive, Found
<1> QED
  BY PollInvariant, <1>1, PTL

(* poll_cb never points to freed memory while a handler runs.  *)
THEOREM NoFreedEntryOnStack == PollSpec => []EntryOutlivesCallback
<1>1. PollInv => EntryOutlivesCallback
  BY DEF PollInv, StackEntry, EntryOutlivesCallback
<1> QED
  BY PollInvariant, <1>1, PTL

(* Nothing is watched that nobody handles, and no descriptor by two handles. *)
THEOREM NoWatchIsIdle == PollSpec => []NoIdleWatch
<1>1. PollInv => NoIdleWatch
  BY DEF PollInv, UnlinkedIsIdle, OnePerFd, WatchedIsHandled, NoIdleWatch
<1> QED
  BY PollInvariant, <1>1, PTL

(* A handler that was cleared is not called by the poll_cb on the stack.     *)
THEOREM NoCallOfCleared == PollSpec => ClearedIsNotCalled
<1>1. PollInv /\ [PollNext]_pollVars
        => [cb.todo # {} /\ ~running /\ running' => poll[cb.p].linked]_pollVars
  <2> SUFFICES ASSUME PollInv, [PollNext]_pollVars, cb.todo # {}, ~running, running'
               PROVE  poll[cb.p].linked
    OBVIOUS
  <2>1. cb # NoCb /\ cb.p \in Polls
    BY DEF PollInv, StackEntry
  <2>2. PollCbStep
    BY <2>1 DEF PollNext, pollVars, ClearHandler, SetHandler, HandlerReturns, JsTurn, PollCb,
                PollError, PollCloseCb, PollCbReturns
  <2>3. poll[cb.p].fns # {}
    BY <2>2 DEF PollCbStep
  <2> QED
    BY <2>1, <2>3 DEF PollInv, UnlinkedIsIdle
<1> QED
  BY PollInvariant, <1>1, PTL DEF PollSpec, ClearedIsNotCalled

(* The list, the stack and what is watched stay sound together.  *)
THEOREM EntriesStaySound == PollSpec => []EntriesInv
<1>1. PollInv => PollTypeOK
  BY DEF PollInv
<1>2. PollTypeOK /\ ListIsLive /\ EntryOutlivesCallback /\ NoIdleWatch => EntriesInv
  BY DEF EntriesInv
<1> QED
  BY PollInvariant, ListStaysLive, NoFreedEntryOnStack, NoWatchIsIdle, <1>1, <1>2, PTL

-----------------------------------------------------------------------------
(* Memory safety of the QNStream, for any number of streams.  That a struct  *)
(* is freed only when libuv and the collector have both given it up holds    *)
(* with any number of threads; that its object is pinned and released once   *)
(* needs that there is one thread only, because the list is shared.          *)
(*                                                                           *)
(* The proof is about one record at a time: StreamOK is kept by each of the  *)
(* functions that the operations are made of.                                *)

(* The two flags say what libuv and the collector have done, the struct is    *)
(* freed exactly when both are set, and nothing is pending on a closed handle. *)
StreamOK(r) ==
  /\ r \in StreamRecord
  /\ r.mem = "none" => r = Unused
  /\ r.mem # "none" => r.owner \in Threads
  /\ r.closed <=> r.handle = "closed"
  /\ r.finalized <=> r.obj = "gone"
  /\ r.mem = "freed" <=> r.closed /\ r.finalized
  /\ r.obj # "alive" => ~r.this_val /\ ~r.userRef
  /\ r.handle # "open" => ~r.watching
  /\ r.handle \in {"none", "closed"} => r.reqs = {}

StreamInv ==
  /\ phase \in [Threads -> {"run", "freeing", "done"}]
  /\ st \in [Streams -> StreamRecord]
  /\ \A s \in Streams : StreamOK(st[s])

-----------------------------------------------------------------------------
(* A stream that libuv or JavaScript knows of is allocated.  *)
LEMMA Allocated ==
  ASSUME NEW r, StreamOK(r), r.handle # "none" \/ r.obj # "none" \/ r.owner \in Threads
  PROVE  r.mem # "none"
BY ThreadsAssumption DEF StreamOK, Unused, NoThread

(* uv_close keeps a stream consistent.  *)
LEMMA UvCloseOK == ASSUME NEW r, StreamOK(r) PROVE StreamOK(UvClose(r))
<1>1. CASE r.handle = "open"
  <2>1. r.mem # "none"
    BY <1>1, Allocated
  <2> QED
    BY <1>1, <2>1 DEF StreamOK, UvClose, StreamRecord
<1>2. CASE r.handle # "open"
  BY <1>2 DEF UvClose
<1> QED
  BY <1>1, <1>2

(* The finalizer, when JavaScript cannot reach the object any more.  *)
LEMMA FinalizerOK ==
  ASSUME NEW r, StreamOK(r), r.obj = "alive", ~r.userRef
  PROVE  StreamOK(Finalizer(r))
<1> DEFINE f == [r EXCEPT !.releases = IF r.this_val THEN @ + 1 ELSE @,
                          !.this_val = FALSE, !.finalized = TRUE, !.obj = "gone"]
<1>1. r \in StreamRecord
  BY DEF StreamOK
<1>2. f \in StreamRecord /\ r.mem # "none"
  <2>1. (IF r.this_val THEN r.releases + 1 ELSE r.releases) \in Nat
    BY <1>1 DEF StreamRecord
  <2> QED
    BY <1>1, <2>1, Allocated DEF StreamRecord
<1>3. CASE r.closed
  <2> DEFINE g == [f EXCEPT !.mem = "freed"]
  <2>1. Finalizer(r) = g
    BY <1>1, <1>3 DEF Finalizer, MaybeFree, StreamRecord
  <2>2. /\ f.closed /\ f.finalized /\ f.obj = "gone" /\ f.this_val = FALSE
        /\ f.owner = r.owner /\ f.handle = r.handle /\ f.userRef = r.userRef
        /\ f.watching = r.watching /\ f.reqs = r.reqs
    BY <1>1, <1>3 DEF StreamRecord
  <2>3. StreamOK(g)
    <3> HIDE DEF f
    <3> QED
      BY <1>2, <1>3, <2>2 DEF StreamOK, StreamRecord
  <2> QED
    BY <2>1, <2>3
<1>4. CASE ~r.closed
  <2>1. StreamOK(f)
    BY <1>1, <1>2, <1>4 DEF StreamOK, StreamRecord
  <2>2. Finalizer(r) = UvClose(f)
    BY <1>1, <1>4 DEF Finalizer, StreamRecord
  <2> HIDE DEF f
  <2> QED
    BY <2>1, <2>2, UvCloseOK
<1> QED
  BY <1>3, <1>4

(* JS_FreeValue of this_val, with the finalizer inside if it was the last.  *)
LEMMA FreeThisValOK ==
  ASSUME NEW r, StreamOK(r), r.obj = "alive"
  PROVE  StreamOK(FreeThisVal(r))
<1> DEFINE f == [r EXCEPT !.releases = @ + 1]
<1>1. StreamOK(f) /\ f.obj = "alive" /\ f.userRef = r.userRef
  BY DEF StreamOK, StreamRecord, Unused
<1>2. FreeThisVal(r) = IF f.userRef THEN f ELSE Finalizer(f)
  BY DEF FreeThisVal
<1> HIDE DEF f
<1> QED
  BY <1>1, <1>2, FinalizerOK

(* It does not deallocate the record.  *)
LEMMA FreeThisValMem ==
  ASSUME NEW r, StreamOK(r), r.mem # "none" PROVE FreeThisVal(r).mem # "none"
BY DEF FreeThisVal, Finalizer, MaybeFree, UvClose, StreamOK, StreamRecord

(* Setting this_val to undefined.  *)
LEMMA UndefinedThisValOK ==
  ASSUME NEW r, StreamOK(r), r.mem # "none"
  PROVE  StreamOK([r EXCEPT !.this_val = FALSE])
BY DEF StreamOK, StreamRecord

(* The close callback, once the requests have been called back.  *)
LEMMA CloseCbOfOK ==
  ASSUME NEW r, StreamOK(r), r.handle = "closing", r.reqs = {}
  PROVE  StreamOK(CloseCbOf(r))
<1> DEFINE c == [r EXCEPT !.handle = "closed", !.closed = TRUE]
           u == [c EXCEPT !.this_val = FALSE]
<1>1. r \in StreamRecord /\ r.mem # "none"
  BY Allocated DEF StreamOK
<1>2. CASE ~r.finalized /\ r.this_val
  <2>1. StreamOK(u) /\ u.obj = "alive"
    BY <1>1, <1>2 DEF StreamOK, StreamRecord
  <2>2. CloseCbOf(r) = FreeThisVal(u)
    BY <1>1, <1>2 DEF CloseCbOf, StreamRecord
  <2> HIDE DEF u
  <2> QED
    BY <2>1, <2>2, FreeThisValOK
<1>3. CASE ~(~r.finalized /\ r.this_val)
  <2>1. CloseCbOf(r) = IF r.finalized THEN [c EXCEPT !.mem = "freed"] ELSE c
    BY <1>1, <1>3 DEF CloseCbOf, MaybeFree, StreamRecord
  <2>2. /\ c \in StreamRecord /\ c.closed /\ c.handle = "closed" /\ c.obj = r.obj
        /\ c.owner = r.owner /\ c.mem = r.mem /\ c.finalized = r.finalized
        /\ c.this_val = r.this_val /\ c.userRef = r.userRef
        /\ c.watching = r.watching /\ c.reqs = r.reqs
    BY <1>1 DEF StreamRecord
  <2>3. StreamOK(IF r.finalized THEN [c EXCEPT !.mem = "freed"] ELSE c)
    <3> HIDE DEF c
    <3>1. CASE r.finalized
      BY <1>1, <2>2, <3>1 DEF StreamOK, StreamRecord
    <3>2. CASE ~r.finalized
      BY <1>1, <2>2, <3>2 DEF StreamOK
    <3> QED
      BY <3>1, <3>2
  <2> QED
    BY <2>1, <2>3
<1> QED
  BY <1>2, <1>3

(* The walk of qn_stream_cleanup.  *)
LEMMA CleanupOfOK == ASSUME NEW r, StreamOK(r) PROVE StreamOK(CleanupOf(r))
<1>1. CASE r.mem = "live" /\ r.this_val
  <2>1. r.obj = "alive"
    BY <1>1 DEF StreamOK
  <2>2. StreamOK(FreeThisVal(r)) /\ FreeThisVal(r).mem # "none"
    BY <1>1, <2>1, FreeThisValOK, FreeThisValMem
  <2> QED
    BY <1>1, <2>2, UndefinedThisValOK DEF CleanupOf
<1>2. CASE ~(r.mem = "live" /\ r.this_val)
  BY <1>2 DEF CleanupOf
<1> QED
  BY <1>1, <1>2

(* qn_stream_new with and without an object.  *)
LEMMA NewOK ==
  ASSUME NEW t \in Threads PROVE StreamOK(Wrapped(t)) /\ StreamOK(Unwrapped(t))
BY DEF StreamOK, Wrapped, Unwrapped, Unused, StreamRecord, Kinds

-----------------------------------------------------------------------------
(* A step that makes of one stream a consistent one keeps the invariant.  *)
LEMMA SetOK ==
  ASSUME StreamInv, NEW s \in Streams, NEW r, StreamOK(r), Set(s, r), UNCHANGED phase
  PROVE  StreamInv'
<1>1. r \in StreamRecord
  BY DEF StreamOK
<1> QED
  BY <1>1 DEF StreamInv, Set

(* The operations of js_uv_stream_op.  *)
LEMMA OperationOK ==
  ASSUME StreamInv, NEW s \in Streams,
         \/ \E t \in Threads : New(t, s)
         \/ Watch(s) \/ ReadStop(s) \/ Close(s) \/ DropRef(s)
         \/ \E k \in Kinds : Request(s, k)
  PROVE  StreamInv'
<1>1. StreamOK(st[s]) /\ st[s] \in StreamRecord
  BY DEF StreamInv
<1>2. Reachable(s) => st[s].mem # "none"
  BY <1>1, Allocated DEF Reachable, StreamOK
<1>3. ASSUME NEW t \in Threads, New(t, s) PROVE StreamInv'
  BY <1>3, NewOK, SetOK DEF New
<1>4. CASE Watch(s)
  <2>1. StreamOK([st[s] EXCEPT !.watching = TRUE])
    BY <1>1, <1>4, Allocated DEF StreamOK, StreamRecord, Watch
  <2> QED
    BY <1>4, <2>1, SetOK DEF Watch
<1>5. CASE ReadStop(s)
  <2>1. StreamOK([st[s] EXCEPT !.watching = FALSE])
    BY <1>1, <1>5, <1>2 DEF StreamOK, StreamRecord, ReadStop
  <2> QED
    BY <1>5, <2>1, SetOK DEF ReadStop
<1>6. CASE Close(s)
  BY <1>1, <1>6, UvCloseOK, SetOK DEF Close
<1>7. CASE DropRef(s)
  <2> DEFINE r == [st[s] EXCEPT !.userRef = FALSE]
  <2>1. StreamOK(r) /\ r.obj = "alive" /\ ~r.userRef
    BY <1>1, <1>7, <1>2 DEF StreamOK, StreamRecord, DropRef, Reachable
  <2>2. StreamOK(IF r.this_val THEN r ELSE Finalizer(r))
    <3> HIDE DEF r
    <3> QED
      BY <2>1, FinalizerOK
  <2>3. Set(s, IF r.this_val THEN r ELSE Finalizer(r)) /\ UNCHANGED phase
    BY <1>7 DEF DropRef
  <2> HIDE DEF r
  <2> QED
    BY <2>2, <2>3, SetOK
<1>8. ASSUME NEW k \in Kinds, Request(s, k) PROVE StreamInv'
  <2>1. StreamOK([st[s] EXCEPT !.reqs = @ \union {k}])
    BY <1>1, <1>8 DEF StreamOK, StreamRecord, Unused, Request
  <2> QED
    BY <1>8, <2>1, SetOK DEF Request
<1> QED
  BY <1>3, <1>4, <1>5, <1>6, <1>7, <1>8

(* The callbacks of libuv.  *)
LEMMA CallbackOK ==
  ASSUME StreamInv, NEW s \in Streams,
         \/ ReadEof(s) \/ CloseCb(s)
         \/ \E k \in Kinds : RequestCb(s, k)
         \/ \E c \in Streams : Connection(s, c)
  PROVE  StreamInv'
<1>1. StreamOK(st[s]) /\ st[s] \in StreamRecord
  BY DEF StreamInv
<1>2. CASE ReadEof(s)
  <2>1. StreamOK([st[s] EXCEPT !.watching = FALSE])
    BY <1>1, <1>2, Allocated DEF StreamOK, StreamRecord, ReadEof
  <2> QED
    BY <1>2, <2>1, SetOK DEF ReadEof
<1>3. CASE CloseCb(s)
  BY <1>1, <1>3, CloseCbOfOK, SetOK DEF CloseCb
<1>4. ASSUME NEW k \in Kinds, RequestCb(s, k) PROVE StreamInv'
  <2>1. StreamOK([st[s] EXCEPT !.reqs = @ \ {k}])
    BY <1>1, <1>4 DEF StreamOK, StreamRecord, Unused, RequestCb
  <2> QED
    BY <1>4, <2>1, SetOK DEF RequestCb
<1>5. ASSUME NEW c \in Streams, Connection(s, c) PROVE StreamInv'
  <2>1. st[s].owner \in Threads
    BY <1>1, <1>5 DEF StreamOK, StreamRecord, Connection, Owned
  <2> QED
    BY <1>5, <2>1, NewOK, SetOK DEF Connection
<1> QED
  BY <1>2, <1>3, <1>4, <1>5

(* The end of a thread.  *)
LEMMA ThreadEndOK ==
  ASSUME StreamInv, NEW t \in Threads, Cleanup(t) \/ FreeRuntime(t)
  PROVE  StreamInv'
<1>1. \A s \in Streams : StreamOK(st[s]) /\ st[s] \in StreamRecord
  BY DEF StreamInv
<1>2. phase' \in [Threads -> {"run", "freeing", "done"}]
  BY DEF StreamInv, Cleanup, FreeRuntime
<1>3. CASE Cleanup(t)
  <2>1. \A s \in Streams : StreamOK(CleanupOf(st[s]))
    BY <1>1, CleanupOfOK
  <2>2. \A s \in Streams : CleanupOf(st[s]) \in StreamRecord
    BY <2>1 DEF StreamOK
  <2>3. st' = [s \in Streams |-> CleanupOf(st[s])]
    BY <1>3 DEF Cleanup
  <2> QED
    BY <1>2, <2>1, <2>2, <2>3 DEF StreamInv
<1>4. CASE FreeRuntime(t)
  <2> DEFINE r(s) == [st[s] EXCEPT !.userRef = FALSE]
             g(s) == IF st[s].owner = t /\ st[s].obj = "alive" THEN Finalizer(r(s))
                                                               ELSE st[s]
  <2>1. ASSUME NEW s \in Streams, st[s].obj = "alive"
        PROVE  StreamOK(r(s)) /\ r(s).obj = "alive" /\ ~r(s).userRef
    <3>1. StreamOK(st[s]) /\ st[s] \in StreamRecord /\ st[s].mem # "none"
      BY <1>1, <2>1, Allocated
    <3> QED
      BY <2>1, <3>1 DEF StreamOK, StreamRecord
  <2>2. \A s \in Streams : StreamOK(g(s))
    <3> HIDE DEF r
    <3> QED
      BY <1>1, <2>1, FinalizerOK
  <2>3. st' = [s \in Streams |-> g(s)]
    BY <1>4 DEF FreeRuntime
  <2>4. \A s \in Streams : g(s) \in StreamRecord
    <3> HIDE DEF g
    <3> QED
      BY <2>2 DEF StreamOK
  <2> HIDE DEF g
  <2> QED
    BY <1>2, <2>2, <2>3, <2>4 DEF StreamInv
<1> QED
  BY <1>3, <1>4

(* StreamInv is an inductive invariant, whatever the number of threads.  *)
THEOREM StreamInvariant == StreamSpec => []StreamInv
<1>1. StreamInit => StreamInv
  BY DEF StreamInit, StreamInv, StreamOK, StreamRecord, Unused, Kinds
<1>2. StreamInv /\ UNCHANGED streamVars => StreamInv'
  BY DEF StreamInv, streamVars
<1>3. StreamInv /\ [StreamNext]_streamVars => StreamInv'
  BY <1>2, OperationOK, CallbackOK, ThreadEndOK DEF StreamNext, StreamEnded
<1> QED
  BY <1>1, <1>3, PTL DEF StreamSpec

(* qn_stream_maybe_free frees the struct only after both sides have given it *)
(* up, when no request can call back with a pointer to it.                   *)
THEOREM FreedOnlyWhenBothDone == StreamSpec => []FreedWhenBothDone
<1>1. StreamInv => FreedWhenBothDone
  BY DEF StreamInv, StreamOK, FreedWhenBothDone
<1> QED
  BY StreamInvariant, <1>1, PTL

(* The record of every struct keeps its type; one not allocated is empty.    *)
THEOREM StreamTypeCorrect == StreamSpec => []StreamTypeOK
<1>1. StreamInv => StreamTypeOK
  BY DEF StreamInv, StreamOK, StreamTypeOK
<1> QED
  BY StreamInvariant, <1>1, PTL

-----------------------------------------------------------------------------
(* One thread: the reference in this_val.                                    *)

OneThread == \A t, u \in Threads : t = u

(* While libuv has the handle the reference is there; it is counted once.  *)
Pinned(r) ==
  /\ r.obj # "none" /\ r.handle \in {"open", "closing"} => r.this_val /\ r.obj = "alive"
  /\ r.releases <= 1
  /\ r.this_val => r.releases = 0

PinInv == StreamInv /\ \A s \in Streams : Owned(s) => Pinned(st[s])

(* What a step may make of a stream r: it keeps its owner.  *)
PinnedStep(r, q) == q.owner = r.owner /\ (Pinned(r) => Pinned(q))

(* JavaScript loses the object and this_val does not hold it: the handle has  *)
(* been closed, and the finalizer finds no reference to give back.            *)
LEMMA FinalizerPinned ==
  ASSUME NEW r, StreamOK(r), r.obj = "alive", ~r.this_val
  PROVE  PinnedStep(r, Finalizer(r))
<1> DEFINE f == [r EXCEPT !.finalized = TRUE, !.obj = "gone"]
<1>1. r \in StreamRecord /\ r.this_val = FALSE
  BY DEF StreamOK, StreamRecord
<1>2. Finalizer(r) = IF f.closed THEN MaybeFree(f) ELSE UvClose(f)
  BY <1>1 DEF Finalizer, StreamRecord
<1>3. f.owner = r.owner /\ f.handle = r.handle /\ f.this_val = r.this_val
      /\ f.releases = r.releases /\ f \in StreamRecord /\ f.obj = "gone"
  BY <1>1 DEF StreamRecord
<1>4. PinnedStep(r, MaybeFree(f)) /\ PinnedStep(r, UvClose(f))
  <2> HIDE DEF f
  <2> QED
    BY <1>1, <1>3 DEF PinnedStep, Pinned, MaybeFree, UvClose, StreamRecord
<1> HIDE DEF f
<1> QED
  BY <1>2, <1>4

(* The close callback gives the reference back once, also when the finalizer  *)
(* runs inside JS_FreeValue, since this_val is undefined by then.             *)
LEMMA CloseCbPinned ==
  ASSUME NEW r, StreamOK(r), r.handle = "closing", r.reqs = {}
  PROVE  PinnedStep(r, CloseCbOf(r))
<1> DEFINE c == [r EXCEPT !.handle = "closed", !.closed = TRUE]
           u == [c EXCEPT !.this_val = FALSE]
           f == [u EXCEPT !.releases = @ + 1]
<1>1. r \in StreamRecord /\ r.mem # "none"
  BY Allocated DEF StreamOK
<1>2. CASE ~r.finalized /\ r.this_val
  <2>1. /\ StreamOK(f) /\ f.obj = "alive" /\ f.this_val = FALSE /\ f.owner = r.owner
        /\ f.handle = "closed" /\ f.releases = r.releases + 1 /\ f.userRef = r.userRef
    <3>1. /\ StreamOK(u) /\ u.obj = "alive" /\ u.this_val = FALSE /\ u.mem # "none"
          /\ u.owner = r.owner /\ u.handle = "closed" /\ u.releases = r.releases
          /\ u.userRef = r.userRef
      BY <1>1, <1>2 DEF StreamOK, StreamRecord
    <3> HIDE DEF u
    <3> QED
      BY <3>1 DEF StreamOK, StreamRecord
  <2>2. CloseCbOf(r) = IF f.userRef THEN f ELSE Finalizer(f)
    BY <1>1, <1>2 DEF CloseCbOf, FreeThisVal, StreamRecord
  <2>3. r.releases \in Nat
    BY <1>1 DEF StreamRecord
  <2> HIDE DEF f
  <2>4. PinnedStep(r, f)
    BY <1>2, <2>1, <2>3 DEF PinnedStep, Pinned
  <2>5. PinnedStep(f, Finalizer(f))
    BY <2>1, FinalizerPinned
  <2> QED
    BY <2>2, <2>4, <2>5 DEF PinnedStep
<1>3. CASE ~(~r.finalized /\ r.this_val)
  BY <1>1, <1>3 DEF CloseCbOf, MaybeFree, StreamRecord, PinnedStep, Pinned
<1> QED
  BY <1>2, <1>3

(* A step on one stream.  *)
LEMMA SetPinned ==
  ASSUME PinInv, NEW s \in Streams, NEW r, Set(s, r), UNCHANGED phase, StreamInv',
         \/ PinnedStep(st[s], r)
         \/ Pinned(r)
  PROVE  PinInv'
BY DEF PinInv, StreamInv, Set, Owned, PinnedStep

(* The steps of js_uv_stream_op and of libuv.  *)
LEMMA StepPinned ==
  ASSUME PinInv, NEW s \in Streams, StreamInv',
         \/ \E t \in Threads : New(t, s)
         \/ Watch(s) \/ ReadStop(s) \/ Close(s) \/ DropRef(s)
         \/ ReadEof(s) \/ CloseCb(s)
         \/ \E k \in Kinds : Request(s, k) \/ RequestCb(s, k)
         \/ \E c \in Streams : Connection(s, c)
  PROVE  PinInv'
<1>1. StreamOK(st[s]) /\ st[s] \in StreamRecord
  BY DEF PinInv, StreamInv
<1>2. \A t : Pinned(Wrapped(t)) /\ Pinned(Unwrapped(t))
  BY DEF Pinned, Wrapped, Unwrapped, Unused
<1>3. ASSUME NEW t \in Threads, New(t, s) PROVE PinInv'
  BY <1>2, <1>3, SetPinned DEF New
<1>4. CASE Watch(s) \/ ReadStop(s) \/ ReadEof(s)
  <2>1. \A b \in BOOLEAN : PinnedStep(st[s], [st[s] EXCEPT !.watching = b])
    BY <1>1 DEF PinnedStep, Pinned, StreamRecord
  <2> QED
    BY <1>4, <2>1, SetPinned DEF Watch, ReadStop, ReadEof
<1>5. CASE Close(s)
  <2>1. PinnedStep(st[s], UvClose(st[s]))
    BY <1>1 DEF PinnedStep, Pinned, UvClose, StreamRecord
  <2> QED
    BY <1>5, <2>1, SetPinned DEF Close
<1>6. CASE DropRef(s)
  <2> DEFINE r == [st[s] EXCEPT !.userRef = FALSE]
  <2>1. st[s].mem # "none" /\ st[s].obj = "alive"
    BY <1>1, <1>6, Allocated DEF StreamOK, DropRef, Reachable
  <2>2. StreamOK(r) /\ r.obj = "alive" /\ PinnedStep(st[s], r)
    BY <1>1, <2>1 DEF StreamOK, StreamRecord, PinnedStep, Pinned
  <2>3. Set(s, IF r.this_val THEN r ELSE Finalizer(r)) /\ UNCHANGED phase
    BY <1>6 DEF DropRef
  <2> HIDE DEF r
  <2>4. ~r.this_val => PinnedStep(r, Finalizer(r))
    BY <2>2, FinalizerPinned
  <2>5. PinnedStep(st[s], IF r.this_val THEN r ELSE Finalizer(r))
    BY <2>2, <2>4 DEF PinnedStep
  <2> QED
    BY <2>3, <2>5, SetPinned
<1>7. CASE CloseCb(s)
  BY <1>1, <1>7, CloseCbPinned, SetPinned DEF CloseCb
<1>8. ASSUME NEW k \in Kinds, Request(s, k) \/ RequestCb(s, k) PROVE PinInv'
  <2>1. \A x \in SUBSET Kinds : PinnedStep(st[s], [st[s] EXCEPT !.reqs = x])
    BY <1>1 DEF PinnedStep, Pinned, StreamRecord
  <2>2. st[s].reqs \union {k} \in SUBSET Kinds /\ st[s].reqs \ {k} \in SUBSET Kinds
    BY <1>1 DEF StreamRecord
  <2> QED
    BY <1>8, <2>1, <2>2, SetPinned DEF Request, RequestCb
<1>9. ASSUME NEW c \in Streams, Connection(s, c) PROVE PinInv'
  BY <1>2, <1>9, SetPinned DEF Connection
<1> QED
  BY <1>3, <1>4, <1>5, <1>6, <1>7, <1>8, <1>9

(* The end of the only thread: no stream is left that is owned by one.  *)
LEMMA EndPinned ==
  ASSUME OneThread, PinInv, StreamInv', NEW t \in Threads, Cleanup(t) \/ FreeRuntime(t)
  PROVE  PinInv'
<1>1. phase'[t] # "run"
  BY DEF PinInv, StreamInv, Cleanup, FreeRuntime
<1>2. \A s \in Streams : st'[s].owner \in Threads \union {NoThread}
  BY DEF StreamInv, StreamOK, StreamRecord
<1>3. \A s \in Streams : ~Owned(s)'
  BY <1>1, <1>2 DEF OneThread, Owned
<1> QED
  BY <1>3 DEF PinInv

(* With one thread, PinInv is inductive.  *)
THEOREM PinInvariant == ASSUME OneThread PROVE StreamSpec => []PinInv
<1>1. StreamInit => PinInv
  <2>1. StreamInit => StreamInv
    BY DEF StreamInit, StreamInv, StreamOK, StreamRecord, Unused, Kinds
  <2> QED
    BY <2>1 DEF PinInv, StreamInit, Owned, Unused
<1>2. PinInv /\ StreamInv' /\ UNCHANGED streamVars => PinInv'
  BY DEF PinInv, streamVars, Owned
<1>3. PinInv /\ StreamInv' /\ [StreamNext]_streamVars => PinInv'
  BY <1>2, StepPinned, EndPinned DEF StreamNext, StreamEnded
<1> QED
  BY <1>1, <1>3, StreamInvariant, PTL DEF StreamSpec

(* With one thread, the object of a stream is pinned by this_val as long as  *)
(* libuv has its handle.                                                     *)
THEOREM PinnedInOneThread == ASSUME OneThread PROVE StreamSpec => []PinnedWhileOpen
<1>1. PinInv => PinnedWhileOpen
  BY DEF PinInv, Pinned, PinnedWhileOpen
<1> QED
  BY PinInvariant, <1>1, PTL

(* With one thread, the close callback and the finalizer between them give   *)
(* the reference in this_val back at most once while the loop runs.          *)
THEOREM ReleasedOnceInOneThread ==
  ASSUME OneThread PROVE StreamSpec => []ReleasedOnceWhileRunning
<1>1. PinInv => ReleasedOnceWhileRunning
  BY DEF PinInv, Pinned, ReleasedOnceWhileRunning
<1> QED
  BY PinInvariant, <1>1, PTL

(* In a process with one thread the two-phase destruction is safe: pinned    *)
(* while libuv has the handle, freed when both owners are done.              *)
THEOREM LifetimeInOneThread == ASSUME OneThread PROVE StreamSpec => []LifetimeInv
<1>1. StreamTypeOK /\ PinnedWhileOpen /\ FreedWhenBothDone => LifetimeInv
  BY DEF LifetimeInv
<1> QED
  BY StreamTypeCorrect, PinnedInOneThread, FreedOnlyWhenBothDone, <1>1, PTL
=============================================================================
