----------------------------- MODULE EventLoop -----------------------------
(***************************************************************************)
(* The event loop of one qn thread (libuv/qn-vm.c): how JavaScript jobs    *)
(* (promise reactions) and unhandled rejections are served from inside     *)
(* uv_run by a prepare, an idle and a check handle.                        *)
(*                                                                         *)
(* JavaScript is a nondeterministic program: while it is on the stack      *)
(* (js # "none") it makes any sequence of calls of the runtime, one action *)
(* per call, and then returns to the C code that called it.  The phases of *)
(* uv_run are those of libuv 1.48 and later (timers last, ready timers     *)
(* collected before any of them is called); libuv is not part of src/.     *)
(***************************************************************************)
EXTENDS Naturals

CONSTANTS
  Timers,    \* QNTimer structs
  Ops,       \* libuv requests and handles that call JavaScript back
  Promises,  \* promises that may be rejected
  MaxJobs    \* bound on the length of the job queue

ASSUME MaxJobsAssumption == MaxJobs \in Nat

VARIABLES
  pc,      \* where qn_vm_loop / uv_run is
  js,      \* the JavaScript on the stack: none, the script, a callback, a job
  jobs,    \* number of jobs in the runtime's queue
  rej,     \* promises in the list at rejection_head
  idle,    \* whether g_idle is started
  timer,   \* state of each QNTimer
  tref,    \* timers that keep the loop alive
  op       \* state of each request or handle

vars == <<pc, js, jobs, rej, idle, timer, tref, op>>

Phases == {"eval", "drain", "drained", "enter", "timers1", "fire1", "pending",
           "prepare", "poll", "dispatch", "pending2", "check", "checked", "closing",
           "timers", "fire", "exited", "freed", "dead"}
JsStates    == {"none", "main", "cb", "job"}
TimerStates == {"free", "armed", "ready", "closing", "finishing"}
OpStates    == {"none", "active", "event", "fed", "due", "closing", "finishing"}

TypeOK ==
  /\ pc \in Phases
  /\ js \in JsStates
  /\ jobs \in 0..MaxJobs
  /\ rej \subseteq Promises
  /\ idle \in BOOLEAN
  /\ timer \in [Timers -> TimerStates]
  /\ tref \subseteq Timers
  /\ op \in [Ops -> OpStates]

TimersIn(S) == {t \in Timers : timer[t] \in S}
OpsIn(S)    == {o \in Ops : op[o] \in S}

(* qn_vm_init, then qn_vm_eval_binary starts the entry script.  *)
Init ==
  /\ pc = "eval"
  /\ js = "main"
  /\ jobs = 0
  /\ rej = {}
  /\ idle = FALSE
  /\ timer = [t \in Timers |-> "free"]
  /\ tref = {}
  /\ op = [o \in Ops |-> "none"]

-----------------------------------------------------------------------------
(* Calls JavaScript makes while it is on the stack.                         *)

InJs == js # "none"
loopVars == <<pc, js>>

(* setTimeout.  A timer starts out referenced.  *)
SetTimeout(t) ==
  /\ InJs
  /\ timer[t] = "free"
  /\ timer' = [timer EXCEPT ![t] = "armed"]
  /\ tref' = tref \union {t}
  /\ UNCHANGED <<loopVars, jobs, rej, idle, op>>

(* clearTimeout finds a timer that is not closed, stops it and closes it.  *)
ClearTimeout(t) ==
  /\ InJs
  /\ timer[t] \in {"armed", "ready"}
  /\ timer' = [timer EXCEPT ![t] = "closing"]
  /\ UNCHANGED <<loopVars, jobs, rej, idle, tref, op>>

TimerRef(t) ==
  /\ InJs
  /\ timer[t] \in {"armed", "ready"}
  /\ tref' = tref \union {t}
  /\ UNCHANGED <<loopVars, jobs, rej, idle, timer, op>>

TimerUnref(t) ==
  /\ InJs
  /\ timer[t] \in {"armed", "ready"}
  /\ tref' = tref \ {t}
  /\ UNCHANGED <<loopVars, jobs, rej, idle, timer, op>>

(* A write, connect, fs or dns operation starts.  When the system call has *)
(* already failed or finished, libuv feeds the callback to the pending     *)
(* queue instead of waiting for the poll.                                  *)
StartOp(o) ==
  /\ InJs
  /\ op[o] = "none"
  /\ \E s \in {"active", "fed"} : op' = [op EXCEPT ![o] = s]
  /\ UNCHANGED <<loopVars, jobs, rej, idle, timer, tref>>

(* uv_close with a request in flight: the callback runs with ECANCELED     *)
(* in the closing phase (STREAM_CLOSE).                                    *)
CloseOp(o) ==
  /\ InJs
  /\ op[o] \in {"active", "event", "fed", "due"}
  /\ op' = [op EXCEPT ![o] = "closing"]
  /\ UNCHANGED <<loopVars, jobs, rej, idle, timer, tref>>

(* A promise with a reaction settles, or a settled one gets a reaction.  *)
EnqueueJob ==
  /\ InJs
  /\ jobs < MaxJobs
  /\ jobs' = jobs + 1
  /\ UNCHANGED <<loopVars, rej, idle, timer, tref, op>>

(* rejection_tracker, is_handled = 0: a promise without a reaction is       *)
(* rejected.  No job is queued.                                             *)
TrackRejection(p) ==
  /\ InJs
  /\ p \notin rej
  /\ rej' = rej \union {p}
  /\ UNCHANGED <<loopVars, jobs, idle, timer, tref, op>>

(* rejection_tracker, is_handled = 1: a reaction is attached afterwards, and *)
(* the engine queues its job.                                               *)
HandleRejection(p) ==
  /\ InJs
  /\ jobs < MaxJobs
  /\ p \in rej
  /\ rej' = rej \ {p}
  /\ jobs' = jobs + 1
  /\ UNCHANGED <<loopVars, idle, timer, tref, op>>

JsCall ==
  \/ \E t \in Timers : \/ SetTimeout(t)
                       \/ ClearTimeout(t)
                       \/ TimerRef(t)
                       \/ TimerUnref(t)
  \/ \E o \in Ops : StartOp(o) \/ CloseOp(o)
  \/ \E p \in Promises : TrackRejection(p) \/ HandleRejection(p)
  \/ EnqueueJob

(* JavaScript returns to its caller.  An exception of a callback is dumped  *)
(* by qn_call_handler and the loop goes on.                                 *)
JsReturn ==
  /\ InJs
  /\ js' = "none"
  /\ pc' = IF js = "main" THEN "drain" ELSE pc
  /\ UNCHANGED <<jobs, rej, idle, timer, tref, op>>

(* qn_vm_eval_binary: the entry script throws, the process exits with 1.  *)
MainThrows ==
  /\ js = "main"
  /\ js' = "none"
  /\ pc' = "dead"
  /\ UNCHANGED <<jobs, rej, idle, timer, tref, op>>

-----------------------------------------------------------------------------
(* execute_jobs, rejection_check and maybe_idle.                            *)

(* One turn of the loop in execute_jobs: a job is taken and called.  *)
ExecuteJob ==
  /\ ~InJs
  /\ pc \in {"drain", "check"}
  /\ jobs > 0
  /\ jobs' = jobs - 1
  /\ js' = "job"
  /\ UNCHANGED <<pc, rej, idle, timer, tref, op>>

(* Where execute_jobs returns to.  *)
AfterJobs == IF pc = "drain" THEN "drained" ELSE "checked"

(* JS_ExecutePendingJob returns 0: the queue is empty.  *)
JobsDrained ==
  /\ ~InJs
  /\ pc \in {"drain", "check"}
  /\ jobs = 0
  /\ pc' = AfterJobs
  /\ UNCHANGED <<js, jobs, rej, idle, timer, tref, op>>

(* It returns -1: the error is dumped and the rest of the queue is left.  *)
JobThrows ==
  /\ js = "job"
  /\ js' = "none"
  /\ pc' = AfterJobs
  /\ UNCHANGED <<jobs, rej, idle, timer, tref, op>>

(* maybe_idle: g_idle is started when a job is pending, stopped otherwise.  *)
MaybeIdle ==
  \/ jobs > 0 /\ idle' = TRUE
  \/ jobs = 0 /\ idle' = FALSE

(* rejection_check with an entry in the list: report and exit(1).  *)
RejectionExit ==
  /\ pc \in {"drained", "checked"}
  /\ rej # {}
  /\ pc' = "dead"
  /\ UNCHANGED <<js, jobs, rej, idle, timer, tref, op>>

-----------------------------------------------------------------------------
(* The loop: qn_vm_loop and the phases of uv_run.                           *)

(* uv__loop_alive: a referenced active handle, a request or a closing       *)
(* handle.  g_prepare and g_check are unreferenced.                         *)
LoopAlive(idling) ==
  \/ idling
  \/ TimersIn({"armed"}) \intersect tref # {}
  \/ TimersIn({"closing"}) # {}
  \/ OpsIn({"active", "fed", "closing"}) # {}

(* Mutant: qn_vm_loop does not ask for jobs that the last phase has queued.  *)
UvRunReturnsOnce == "exited"

(* uv_run has returned r = 0: the do-while of qn_vm_loop.  *)
UvRunReturns == IF jobs > 0 THEN "enter" ELSE "exited"

(* qn_vm_loop before uv_run: the jobs of the entry script are drained.  *)
LoopStart ==
  /\ pc = "drained"
  /\ rej = {}
  /\ pc' = "enter"
  /\ UNCHANGED <<js, jobs, rej, idle, timer, tref, op>>

(* maybe_idle(); uv_run(g_loop, UV_RUN_DEFAULT).  *)
EnterUvRun ==
  /\ pc = "enter"
  /\ MaybeIdle
  /\ pc' = IF LoopAlive(idle') THEN "timers1" ELSE UvRunReturns
  /\ UNCHANGED <<js, jobs, rej, timer, tref, op>>

(* uv__run_timers collects the timers that are due.  *)
CollectTimers ==
  /\ pc \in {"timers1", "timers"}
  /\ \E due \in SUBSET TimersIn({"armed"}) :
       timer' = [t \in Timers |-> IF t \in due THEN "ready" ELSE timer[t]]
  /\ pc' = IF pc = "timers1" THEN "fire1" ELSE "fire"
  /\ UNCHANGED <<js, jobs, rej, idle, tref, op>>

(* timer_cb: the timer is closed before its function is called.  *)
TimerCb(t) ==
  /\ ~InJs
  /\ pc \in {"fire1", "fire"}
  /\ timer[t] = "ready"
  /\ timer' = [timer EXCEPT ![t] = "closing"]
  /\ js' = "cb"
  /\ UNCHANGED <<pc, jobs, rej, idle, tref, op>>

(* uv__run_pending takes the queue it finds; what its callbacks feed waits  *)
(* for the next round.                                                      *)
StartPending ==
  op' = [o \in Ops |-> IF op[o] = "fed" THEN "due" ELSE op[o]]

TimersDone ==
  /\ ~InJs
  /\ pc \in {"fire1", "fire"}
  /\ TimersIn({"ready"}) = {}
  /\ \/ /\ pc = "fire1" \/ LoopAlive(idle)
        /\ pc' = "pending"
        /\ StartPending
     \/ /\ pc = "fire" /\ ~LoopAlive(idle)
        /\ pc' = UvRunReturns
        /\ UNCHANGED op
  /\ UNCHANGED <<js, jobs, rej, idle, timer, tref>>

PendingCb(o) ==
  /\ ~InJs
  /\ pc \in {"pending", "pending2"}
  /\ op[o] = "due"
  /\ op' = [op EXCEPT ![o] = "none"]
  /\ js' = "cb"
  /\ UNCHANGED <<pc, jobs, rej, idle, timer, tref>>

PendingDone ==
  /\ ~InJs
  /\ pc \in {"pending", "pending2"}
  /\ OpsIn({"due"}) = {}
  /\ pc' = IF pc = "pending" THEN "prepare" ELSE "check"
  /\ UNCHANGED <<js, jobs, rej, idle, timer, tref, op>>

(* Mutant: prepare_cb does not start the idle handle.  *)
PrepareCbNoIdle ==
  /\ pc = "prepare"
  /\ pc' = "poll"
  /\ UNCHANGED <<js, jobs, rej, idle, timer, tref, op>>

PrepareCb ==
  /\ pc = "prepare"
  /\ MaybeIdle
  /\ pc' = "poll"
  /\ UNCHANGED <<js, jobs, rej, timer, tref, op>>

(* uv__backend_timeout is zero: the poll only looks.  *)
ZeroTimeout ==
  \/ ~LoopAlive(idle)
  \/ idle
  \/ OpsIn({"fed", "closing"}) # {}
  \/ TimersIn({"closing"}) # {}

(* The poll returns with some events: at once, for a timer that is due, or   *)
(* because there is an event.                                                *)
PollReturns ==
  /\ pc = "poll"
  /\ \E ev \in SUBSET OpsIn({"active"}) :
       /\ ZeroTimeout \/ TimersIn({"armed"}) # {} \/ ev # {}
       /\ op' = [o \in Ops |-> IF o \in ev THEN "event" ELSE op[o]]
  /\ pc' = "dispatch"
  /\ UNCHANGED <<js, jobs, rej, idle, timer, tref>>

(* An event is dispatched.  A server or a reading stream stays active, a     *)
(* request that is finished goes.                                            *)
DispatchCb(o) ==
  /\ ~InJs
  /\ pc = "dispatch"
  /\ op[o] = "event"
  /\ \E s \in {"none", "active"} : op' = [op EXCEPT ![o] = s]
  /\ js' = "cb"
  /\ UNCHANGED <<pc, jobs, rej, idle, timer, tref>>

(* After its events uv_run serves the pending queue once more.  *)
DispatchDone ==
  /\ ~InJs
  /\ pc = "dispatch"
  /\ OpsIn({"event"}) = {}
  /\ pc' = "pending2"
  /\ StartPending
  /\ UNCHANGED <<js, jobs, rej, idle, timer, tref>>

(* uv__run_closing_handles takes the list it finds; what its callbacks      *)
(* close waits for the next iteration.                                      *)
StartClosing ==
  /\ timer' = [t \in Timers |->
                 IF timer[t] = "closing" THEN "finishing" ELSE timer[t]]
  /\ op' = [o \in Ops |-> IF op[o] = "closing" THEN "finishing" ELSE op[o]]

(* The rest of check_cb after execute_jobs and rejection_check.  *)
CheckCb ==
  /\ pc = "checked"
  /\ rej = {}
  /\ MaybeIdle
  /\ pc' = "closing"
  /\ StartClosing
  /\ UNCHANGED <<js, jobs, rej, tref>>

(* timer_close_cb unlinks and frees the timer.  *)
TimerCloseCb(t) ==
  /\ ~InJs
  /\ pc = "closing"
  /\ timer[t] = "finishing"
  /\ timer' = [timer EXCEPT ![t] = "free"]
  /\ tref' = tref \ {t}
  /\ UNCHANGED <<loopVars, jobs, rej, idle, op>>

(* A closed stream first calls back its cancelled requests (qn_write_cb,     *)
(* qn_connect_cb, qn_shutdown_cb).                                          *)
OpCloseCb(o) ==
  /\ ~InJs
  /\ pc = "closing"
  /\ op[o] = "finishing"
  /\ op' = [op EXCEPT ![o] = "none"]
  /\ js' = "cb"
  /\ UNCHANGED <<pc, jobs, rej, idle, timer, tref>>

ClosingDone ==
  /\ ~InJs
  /\ pc = "closing"
  /\ TimersIn({"finishing"}) = {}
  /\ OpsIn({"finishing"}) = {}
  /\ pc' = "timers"
  /\ UNCHANGED <<js, jobs, rej, idle, timer, tref, op>>

(* qn_vm_free: every QNTimer in the list is freed, closed or not.  *)
VmFree ==
  /\ pc = "exited"
  /\ pc' = "freed"
  /\ timer' = [t \in Timers |-> "free"]
  /\ tref' = {}
  /\ rej' = {}
  /\ idle' = FALSE
  /\ UNCHANGED <<js, jobs, op>>

(* The process has ended.  *)
Ended == pc \in {"freed", "dead"} /\ UNCHANGED vars

LoopStep ==
  \/ ExecuteJob \/ JobsDrained \/ RejectionExit \/ LoopStart \/ EnterUvRun
  \/ CollectTimers \/ TimersDone \/ PendingDone \/ PrepareCb
  \/ DispatchDone \/ CheckCb \/ ClosingDone \/ VmFree
  \/ \E t \in Timers : TimerCb(t) \/ TimerCloseCb(t)
  \/ \E o \in Ops : PendingCb(o) \/ DispatchCb(o) \/ OpCloseCb(o)

JsEnds == JsReturn \/ MainThrows \/ JobThrows

Next == JsCall \/ JsEnds \/ LoopStep \/ PollReturns \/ Ended

(* Synchronous JavaScript returns, and uv_run takes its next phase; only a   *)
(* poll with a positive timeout may wait for ever.                           *)
Fairness ==
  /\ WF_vars(JsReturn)
  /\ WF_vars(LoopStep)
  /\ WF_vars(ZeroTimeout /\ PollReturns)

Spec == Init /\ [][Next]_vars /\ Fairness

-----------------------------------------------------------------------------
(* Properties.                                                              *)

Sleeping == pc = "poll" /\ ~ZeroTimeout

(* The loop never blocks in the poll while a job is pending, whichever phase *)
(* the job was queued in: "the idle handle prevents libuv from blocking in   *)
(* I/O poll when there are pending JS jobs".                                 *)
NeverSleepsOnJob == Sleeping => jobs = 0

(* qn_vm_loop runs "until all handles are closed and no jobs remain": it     *)
(* returns with an empty job queue, nothing in flight, and no timer that is  *)
(* closed but whose close callback is outstanding.  qn_vm_free relies on the *)
(* last part: it frees closed timers without waiting for timer_close_cb.     *)
CleanExit ==
  pc = "exited" =>
    /\ jobs = 0
    /\ OpsIn(OpStates \ {"none"}) = {}
    /\ TimersIn({"ready", "closing", "finishing"}) = {}
    /\ TimersIn({"armed"}) \intersect tref = {}

(* A job that is queued is eventually followed by the execution of a job, or *)
(* the process ends: no phase of uv_run strands the queue.                   *)
JobsServed == (jobs > 0) ~> (js = "job" \/ pc = "dead")
=============================================================================
