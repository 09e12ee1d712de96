------------------------------- MODULE Worker -------------------------------
(***************************************************************************)
(* The life of one Web Worker (libuv/qn-worker.c, node/qn/worker.js): the   *)
(* Worker object in the parent's thread, the worker thread with a runtime   *)
(* and a loop of its own, and the socketpair between them.                  *)
(*                                                                         *)
(* The two threads interleave freely.  A channel is the number of messages  *)
(* in it: their order and their bytes are the subject of FramedPipe.        *)
(***************************************************************************)
EXTENDS Naturals

CONSTANT MaxMsgs  \* bound: messages in flight in one direction

ASSUME MaxMsgsAssumption == MaxMsgs \in Nat \ {0}

VARIABLES
  \* the parent's thread
  pjs,         \* JavaScript is on the stack
  proc,        \* "run", or "ended" once the main thread has returned
  phandle,     \* QNWorker.pipe as libuv sees it
  pipe_closed, \* QNWorker.pipe_closed
  terminated,  \* QNWorker.terminated
  onmessage,   \* whether a handler is set
  reading,     \* the while loop of worker_read_cb is running
  inbuf,       \* complete messages in QNWorker.readbuf
  userRef,     \* JavaScript references to the Worker object
  thisVal,     \* QNWorker.this_val is not undefined
  releases,    \* how often the reference in this_val was given back
  struct,      \* the QNWorker
  \* the worker's thread
  wst,         \* where worker_thread_entry is
  wjs,         \* JavaScript is on the worker's stack
  wfd,         \* the worker's end of the socketpair
  wclosed,     \* QNWorkerSelf.pipe_closed
  others,      \* a timer, server, ... keeps the worker's loop alive
  wdelivered,  \* worker_self_read_cb still has messages to dispatch
  \* the socketpair
  p2w, w2p

parentVars == <<pjs, proc, phandle, pipe_closed, terminated, onmessage, reading,
                inbuf, userRef, thisVal, releases, struct>>
workerVars == <<wst, wjs, wfd, wclosed, others, wdelivered>>
vars == <<parentVars, workerVars, p2w, w2p>>

TypeOK ==
  /\ pjs \in BOOLEAN
  /\ proc \in {"run", "ended"}
  /\ phandle \in {"none", "open", "closing", "closed"}
  /\ pipe_closed \in BOOLEAN
  /\ terminated \in BOOLEAN
  /\ onmessage \in BOOLEAN
  /\ reading \in BOOLEAN
  /\ inbuf \in 0..MaxMsgs
  /\ userRef \in BOOLEAN
  /\ thisVal \in BOOLEAN
  /\ releases \in Nat
  /\ struct \in {"none", "live", "freed"}
  /\ wst \in {"none", "start", "script", "loop", "gone", "aborted"}
  /\ wjs \in BOOLEAN
  /\ wfd \in {"none", "open", "closed"}
  /\ wclosed \in BOOLEAN
  /\ others \in BOOLEAN
  /\ wdelivered \in 0..MaxMsgs
  /\ p2w \in 0..MaxMsgs
  /\ w2p \in 0..MaxMsgs

Init ==
  /\ pjs = TRUE /\ proc = "run"
  /\ phandle = "none" /\ pipe_closed = FALSE /\ terminated = FALSE
  /\ onmessage = FALSE /\ reading = FALSE /\ inbuf = 0
  /\ userRef = FALSE /\ thisVal = FALSE /\ releases = 0 /\ struct = "none"
  /\ wst = "none" /\ wjs = FALSE /\ wfd = "none" /\ wclosed = FALSE
  /\ others = FALSE /\ wdelivered = 0
  /\ p2w = 0 /\ w2p = 0

-----------------------------------------------------------------------------
(* The parent's thread.                                                      *)

Parent == proc = "run"
HoldsWorker == pjs /\ userRef /\ Parent

(* js_worker_create: socketpair, object, this_val, read start, thread.  When  *)
(* uv_thread_create fails both ends are closed and the object is dropped.    *)
Create ==
  /\ pjs /\ Parent /\ struct = "none"
  /\ struct' = "live"
  /\ thisVal' = TRUE
  /\ \/ /\ phandle' = "open" /\ userRef' = TRUE
        /\ wst' = "start" /\ wfd' = "open"
        /\ UNCHANGED pipe_closed
     \/ /\ phandle' = "closing" /\ pipe_closed' = TRUE
        /\ wst' = "gone" /\ wfd' = "closed"
        /\ UNCHANGED userRef
  /\ UNCHANGED <<pjs, proc, terminated, onmessage, reading, inbuf, releases,
                 wjs, wclosed, others, wdelivered, p2w, w2p>>

(* js_worker_postMessage; it throws when terminated or pipe_closed.  *)
PostMessage ==
  /\ HoldsWorker
  /\ ~terminated /\ ~pipe_closed
  /\ wfd = "open" /\ p2w < MaxMsgs
  /\ p2w' = p2w + 1
  /\ UNCHANGED <<parentVars, workerVars, w2p>>

(* Mutant: terminate() gives the prevent-GC reference back itself.  *)
TerminateReleases ==
  /\ HoldsWorker
  /\ ~terminated
  /\ terminated' = TRUE
  /\ pipe_closed' = TRUE
  /\ thisVal' = FALSE
  /\ phandle' = IF pipe_closed THEN phandle ELSE "closing"
  /\ UNCHANGED <<pjs, proc, onmessage, reading, inbuf, userRef, releases,
                 struct, workerVars, p2w, w2p>>

(* js_worker_terminate: uv_close closes the descriptor at once, drops what    *)
(* has not been written and leaves the close callback for later.             *)
Terminate ==
  /\ HoldsWorker
  /\ ~terminated
  /\ terminated' = TRUE
  /\ pipe_closed' = TRUE
  /\ phandle' = IF pipe_closed THEN phandle ELSE "closing"
  /\ \E n \in 0..p2w : p2w' = IF pipe_closed THEN p2w ELSE n
  /\ UNCHANGED <<pjs, proc, onmessage, reading, inbuf, userRef, thisVal, releases,
                 struct, workerVars, w2p>>

(* js_worker_setOnMessage.  *)
SetOnMessage ==
  /\ HoldsWorker
  /\ \E b \in BOOLEAN : onmessage' = b
  /\ UNCHANGED <<pjs, proc, phandle, pipe_closed, terminated, reading, inbuf,
                 userRef, thisVal, releases, struct, workerVars, p2w, w2p>>

(* The last JavaScript reference goes.  The object is finalized if this_val  *)
(* does not hold it (qn_worker_finalizer).                                   *)
DropRef ==
  /\ HoldsWorker
  /\ userRef' = FALSE
  /\ struct' = IF thisVal THEN struct ELSE "freed"
  /\ UNCHANGED <<pjs, proc, phandle, pipe_closed, terminated, onmessage, reading,
                 inbuf, thisVal, releases, workerVars, p2w, w2p>>

(* Some callback of the parent's loop runs JavaScript, and returns.  *)
ParentTurn ==
  /\ Parent /\ ~pjs /\ ~reading
  /\ pjs' = TRUE
  /\ UNCHANGED <<proc, phandle, pipe_closed, terminated, onmessage, reading, inbuf,
                 userRef, thisVal, releases, struct, workerVars, p2w, w2p>>

ParentReturns ==
  /\ pjs /\ Parent
  /\ pjs' = FALSE
  /\ UNCHANGED <<proc, phandle, pipe_closed, terminated, onmessage, reading, inbuf,
                 userRef, thisVal, releases, struct, workerVars, p2w, w2p>>

(* Mutant: the reading is not stopped when the pipe is being closed.  *)
WorkerReadCbClosing ==
  /\ Parent /\ ~pjs /\ ~reading
  /\ phandle \in {"open", "closing"}
  /\ w2p > 0
  /\ \E n \in 1..w2p : w2p' = w2p - n /\ inbuf' = n
  /\ reading' = TRUE
  /\ UNCHANGED <<pjs, proc, phandle, pipe_closed, terminated, onmessage, userRef,
                 thisVal, releases, struct, workerVars, p2w>>

(* worker_read_cb, nread > 0.  *)
WorkerReadCb ==
  /\ Parent /\ ~pjs /\ ~reading
  /\ phandle = "open"
  /\ w2p > 0
  /\ \E n \in 1..w2p : w2p' = w2p - n /\ inbuf' = n
  /\ reading' = TRUE
  /\ UNCHANGED <<pjs, proc, phandle, pipe_closed, terminated, onmessage, userRef,
                 thisVal, releases, struct, workerVars, p2w>>

(* One turn of its while loop: readbuf_extract, then onmessage if there is   *)
(* one and the value can be read.  The loop does not look at terminated.     *)
Dispatch ==
  /\ reading /\ ~pjs /\ Parent
  /\ inbuf > 0
  /\ inbuf' = inbuf - 1
  /\ pjs' \in {FALSE, onmessage}
  /\ UNCHANGED <<proc, phandle, pipe_closed, terminated, onmessage, reading, userRef,
                 thisVal, releases, struct, workerVars, p2w, w2p>>

ReadCbReturns ==
  /\ reading /\ ~pjs /\ Parent
  /\ inbuf = 0
  /\ reading' = FALSE
  /\ UNCHANGED <<pjs, proc, phandle, pipe_closed, terminated, onmessage, inbuf,
                 userRef, thisVal, releases, struct, workerVars, p2w, w2p>>

(* worker_read_cb, nread < 0: the worker has closed its end.  *)
WorkerReadEof ==
  /\ Parent /\ ~pjs /\ ~reading
  /\ phandle = "open"
  /\ wfd = "closed" /\ w2p = 0
  /\ pipe_closed' = TRUE
  /\ phandle' = "closing"
  /\ UNCHANGED <<pjs, proc, terminated, onmessage, reading, inbuf, userRef, thisVal,
                 releases, struct, workerVars, p2w, w2p>>

(* worker_close_cb gives the reference in this_val back and only then sets   *)
(* it to undefined.  If it was the last one, the finalizer runs in between,  *)
(* sees this_val still set and gives it back again before freeing w.         *)
WorkerCloseCb ==
  /\ Parent /\ ~pjs /\ ~reading
  /\ phandle = "closing"
  /\ phandle' = "closed"
  /\ thisVal' = FALSE
  /\ releases' = releases + (IF userRef THEN 1 ELSE 2)
  /\ struct' = IF userRef THEN struct ELSE "freed"
  /\ UNCHANGED <<pjs, proc, pipe_closed, terminated, onmessage, reading, inbuf,
                 userRef, workerVars, p2w, w2p>>

(* The main thread's loop ends when the pipe does not keep it alive, and the *)
(* process with it.                                                          *)
MainExits ==
  /\ Parent /\ ~pjs /\ ~reading
  /\ phandle \in {"none", "closed"}
  /\ proc' = "ended"
  /\ UNCHANGED <<pjs, phandle, pipe_closed, terminated, onmessage, reading, inbuf,
                 userRef, thisVal, releases, struct, workerVars, p2w, w2p>>

(* rejection_check of either thread finds an unhandled rejection and calls   *)
(* exit(1), which ends both.                                                 *)
RejectionExit ==
  /\ Parent
  /\ \/ ~pjs /\ ~reading
     \/ wst = "loop" /\ ~wjs /\ wdelivered = 0
  /\ proc' = "ended"
  /\ UNCHANGED <<pjs, phandle, pipe_closed, terminated, onmessage, reading, inbuf,
                 userRef, thisVal, releases, struct, workerVars, p2w, w2p>>

-----------------------------------------------------------------------------
(* The worker's thread.                                                      *)

(* worker_thread_entry up to uv_read_start.  If the runtime or the context   *)
(* cannot be created the thread ends; td->fd is not closed (cleanup_td).     *)
WorkerStart ==
  /\ Parent /\ wst = "start"
  /\ wst' \in {"script", "aborted"}
  /\ UNCHANGED <<parentVars, wjs, wfd, wclosed, others, wdelivered, p2w, w2p>>

(* The script is loaded and evaluated.  A script that does not compile or    *)
(* throws is reported and the loop runs all the same.                        *)
WorkerEval ==
  /\ Parent /\ wst = "script" /\ ~wjs
  /\ wst' = "loop"
  /\ wjs' = TRUE
  /\ UNCHANGED <<parentVars, wfd, wclosed, others, wdelivered, p2w, w2p>>

(* It cannot be read, transformed or resolved: goto cleanup_self.  The pipe   *)
(* handle is never closed, so uv_loop_close in qn_vm_free fails.             *)
WorkerLoadFails ==
  /\ Parent /\ wst = "script"
  /\ wst' = "gone"
  /\ UNCHANGED <<parentVars, wjs, wfd, wclosed, others, wdelivered, p2w, w2p>>

InWorkerJs == Parent /\ wst = "loop" /\ wjs

(* self.postMessage; it throws when pipe_closed.  Bytes for a parent that    *)
(* has closed are refused with EPIPE.                                        *)
SelfPostMessage ==
  /\ InWorkerJs
  /\ ~wclosed
  /\ w2p < MaxMsgs
  /\ w2p' = IF phandle = "open" THEN w2p + 1 ELSE w2p
  /\ UNCHANGED <<parentVars, workerVars, p2w>>

(* Mutant: the flag is set, uv_close is not called.  *)
CloseSelfFlagOnly ==
  /\ wclosed' = TRUE
  /\ UNCHANGED <<wfd, w2p>>

(* uv_close on the worker's pipe; what has not been written is dropped.  *)
CloseSelf ==
  /\ wclosed' = TRUE
  /\ wfd' = "closed"
  /\ \E n \in 0..w2p : w2p' = n

(* self.close().  *)
SelfClose ==
  /\ InWorkerJs
  /\ ~wclosed
  /\ CloseSelf
  /\ UNCHANGED <<parentVars, wst, wjs, others, wdelivered, p2w>>

(* The script starts or stops a timer, a server, a request.  *)
WorkerHandles ==
  /\ InWorkerJs
  /\ others' = ~others
  /\ UNCHANGED <<parentVars, wst, wjs, wfd, wclosed, wdelivered, p2w, w2p>>

WorkerReturns ==
  /\ InWorkerJs
  /\ wjs' = FALSE
  /\ UNCHANGED <<parentVars, wst, wfd, wclosed, others, wdelivered, p2w, w2p>>

WorkerLoop == Parent /\ wst = "loop" /\ ~wjs

(* worker_self_read_cb, nread > 0, then one turn of its while loop per       *)
(* message; a message that finds no self.onmessage is dropped.               *)
SelfReadCb ==
  /\ WorkerLoop /\ wdelivered = 0
  /\ ~wclosed
  /\ p2w > 0
  /\ \E n \in 1..p2w : p2w' = p2w - n /\ wdelivered' = n
  /\ UNCHANGED <<parentVars, wst, wjs, wfd, wclosed, others, w2p>>

SelfDispatch ==
  /\ WorkerLoop
  /\ wdelivered > 0
  /\ wdelivered' = wdelivered - 1
  /\ wjs' \in BOOLEAN
  /\ UNCHANGED <<parentVars, wst, wfd, wclosed, others, p2w, w2p>>

(* Mutant: EOF from the parent is ignored.  *)
SelfReadEofIgnored ==
  /\ WorkerLoop /\ wdelivered = 0
  /\ ~wclosed
  /\ phandle \in {"closing", "closed"} /\ p2w = 0
  /\ UNCHANGED vars

(* worker_self_read_cb, nread < 0: the parent has closed.  *)
SelfReadEof ==
  /\ WorkerLoop /\ wdelivered = 0
  /\ ~wclosed
  /\ phandle \in {"closing", "closed"} /\ p2w = 0
  /\ CloseSelf
  /\ UNCHANGED <<parentVars, wst, wjs, others, wdelivered, p2w>>

(* Another handle of the worker's loop calls JavaScript.  *)
WorkerTurn ==
  /\ WorkerLoop /\ wdelivered = 0
  /\ others
  /\ wjs' = TRUE
  /\ UNCHANGED <<parentVars, wst, wfd, wclosed, others, wdelivered, p2w, w2p>>

(* qn_vm_loop returns when no handle is left; cleanup; the thread ends.  *)
WorkerExits ==
  /\ WorkerLoop /\ wdelivered = 0
  /\ wclosed /\ ~others
  /\ wst' = "gone"
  /\ UNCHANGED <<parentVars, wjs, wfd, wclosed, others, wdelivered, p2w, w2p>>

Ended == proc = "ended" /\ UNCHANGED vars

ParentLoopStep ==
  \/ WorkerReadCb \/ Dispatch \/ ReadCbReturns \/ WorkerReadEof \/ WorkerCloseCb

WorkerLoopStep ==
  \/ WorkerStart \/ WorkerEval \/ SelfReadCb \/ SelfDispatch \/ SelfReadEof
  \/ WorkerExits

Next ==
  \/ Create \/ PostMessage \/ Terminate \/ SetOnMessage \/ DropRef
  \/ ParentTurn \/ ParentReturns \/ ParentLoopStep \/ MainExits \/ RejectionExit
  \/ WorkerLoopStep \/ WorkerLoadFails \/ WorkerTurn
  \/ SelfPostMessage \/ SelfClose \/ WorkerHandles \/ WorkerReturns
  \/ Ended

(* JavaScript returns in both threads and both loops serve their descriptors *)
(* (libuv dispatches a readable or closing handle in each turn, hence strong *)
(* fairness against the turns that other callbacks take).                    *)
Fairness ==
  /\ WF_vars(ParentReturns)
  /\ WF_vars(WorkerReturns)
  /\ SF_vars(Dispatch) /\ SF_vars(ReadCbReturns)
  /\ SF_vars(WorkerReadCb) /\ SF_vars(WorkerReadEof) /\ SF_vars(WorkerCloseCb)
  /\ WF_vars(WorkerStart) /\ WF_vars(WorkerEval)
  /\ SF_vars(SelfReadCb) /\ SF_vars(SelfDispatch) /\ SF_vars(SelfReadEof)
  /\ WF_vars(WorkerExits)

Spec == Init /\ [][Next]_vars /\ Fairness

-----------------------------------------------------------------------------
(* Properties.                                                               *)

(* The QNWorker, which embeds the uv_pipe_t, is never freed while libuv has  *)
(* the handle, and neither callback is left with a freed struct: this_val    *)
(* "prevents GC collection while pipe is active".                            *)
StructOutlivesPipe ==
  struct = "freed" => phandle = "closed" /\ ~reading /\ ~thisVal

(* After terminate() the parent is given at most the messages of the read    *)
(* callback that is on the stack: no new one is started.                     *)
NoReadAfterTerminate == [][terminated /\ ~reading => ~reading']_vars

(* pipe_closed says of the parent's pipe what libuv thinks of it: no uv_write *)
(* is made on a closing handle and none is closed twice.                     *)
PipeClosedIsExact ==
  /\ pipe_closed <=> phandle \in {"closing", "closed"}
  /\ wclosed => wfd = "closed"
  /\ terminated => pipe_closed

(* A worker whose script was loaded and that has come to an end releases its *)
(* parent: the parent's pipe closes, so its loop may end.                    *)
WorkerEndReleasesParent ==
  (wst = "loop" /\ wclosed) ~> (phandle = "closed" \/ proc = "ended")

(* A terminated worker's thread ends once its script keeps nothing else      *)
(* alive: EOF alone does not make its "event loop exit".                     *)
TerminateEndsIdleWorker ==
  terminated ~> (wst \in {"gone", "aborted"} \/ proc = "ended" \/ others)

(* The comment in qn_worker_finalizer: "this_val is already freed by         *)
(* close_cb or here if never started", that is, in one of the two places.    *)
ThisValReleasedOnce == releases <= 1

(* The parent's pipe has one owner at a time: pipe_closed is exact, and the  *)
(* QNWorker outlives the handle in it, in whatever order EOF, terminate(),   *)
(* the close callback and the finalizer come.                                *)
PipeInv == TypeOK /\ StructOutlivesPipe /\ PipeClosedIsExact
=============================================================================
