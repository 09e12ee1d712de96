-------------------------- MODULE SandboxedWorker --------------------------
(***************************************************************************)
(* os.SandboxedWorker: a detached thread with a runtime of its own and two  *)
(* message pipes shared with its parent.  A pipe is a list under a mutex,   *)
(* a waker (one byte in a pipe(2) tells the reader to look) and a count of  *)
(* the references held by the constructor, by the thread's arguments, by    *)
(* the worker object and by the two message ports.  The thread is started   *)
(* before the constructor has made the object, so each of these may be the  *)
(* last to let go, and every allocation on the way may fail.                *)
(*                                                                         *)
(* Messages are abstracted to their number, the sandboxed program to what   *)
(* it does to the pipes.  What is done under the mutex is one step.         *)
(***************************************************************************)
EXTENDS Naturals, Sequences, FiniteSets

CONSTANT MaxSandboxPosts  \* bound: messages posted in each direction

ASSUME SandboxAssumption == MaxSandboxPosts \in Nat

VARIABLES
  sbx,    \* the two threads: constructor, object and handler; thread and port
  mpipe   \* SandboxMessagePipe: "send" (to the sandbox) and "recv" (from it)

sbVars == <<sbx, mpipe>>

Pipes == {"send", "recv"}

NoPipe == [live |-> FALSE, ref_count |-> 0, msg_queue |-> <<>>, waker |-> 0]
NewPipe == [NoPipe EXCEPT !.live = TRUE, !.ref_count = 1]

NoSandbox ==
  [ctor |-> "none", obj |-> "none", handler |-> FALSE, args |-> FALSE,
   thread |-> "none", port |-> FALSE, onmessage |-> FALSE,
   timeout |-> FALSE, expired |-> FALSE, posted |-> [p \in Pipes |-> 0]]

SbInit == sbx = NoSandbox /\ mpipe = [p \in Pipes |-> NoPipe]

(* sandbox_dup_message_pipe.  *)
DupPipe(q) == [q EXCEPT !.ref_count = q.ref_count + 1]

(* sandbox_free_message_pipe: nothing for NULL; the last reference closes    *)
(* the waker and frees the queue with its messages.                          *)
FreePipe(q) ==
  IF q.ref_count \in {0, 1} THEN NoPipe
  ELSE [q EXCEPT !.ref_count = q.ref_count - 1]

Both(F(_)) == [p \in Pipes |-> F(mpipe[p])]

(* The end of both postMessage functions: signal if the queue is empty, then *)
(* append.  A value that cannot be serialised or copied throws before.       *)
Posted(q, msg) ==
  [q EXCEPT !.waker = IF q.msg_queue = <<>> THEN q.waker + 1 ELSE q.waker,
            !.msg_queue = Append(q.msg_queue, msg)]

(* The head of the queue is unlinked; the waker is cleared with the last.    *)
Taken(q) ==
  [q EXCEPT !.msg_queue = Tail(q.msg_queue),
            !.waker = IF Len(q.msg_queue) = 1 THEN 0 ELSE q.waker]

-----------------------------------------------------------------------------
(* The parent thread.                                                        *)

(* js_sandboxed_worker_ctor up to pthread_create.  Both pipes and the        *)
(* arguments are made, or what was made is freed and the constructor throws. *)
SbCtor ==
  /\ sbx.ctor = "none"
  /\ \/ /\ \E t \in BOOLEAN :
             sbx' = [sbx EXCEPT !.ctor = "running", !.args = TRUE,
                                !.thread = "start", !.timeout = t]
        /\ mpipe' = [p \in Pipes |-> DupPipe(NewPipe)]
     \/ /\ sbx' = [sbx EXCEPT !.ctor = "returned"]  \* a pipe, args or the thread failed
        /\ UNCHANGED mpipe

(* js_sandboxed_worker_ctor_internal: the object takes a reference to each   *)
(* pipe, or is not made although the thread runs.                            *)
SbCtorInternal ==
  /\ sbx.ctor = "running"
  /\ \/ /\ sbx' = [sbx EXCEPT !.ctor = "object", !.obj = "alive"]
        /\ mpipe' = Both(DupPipe)
     \/ /\ sbx' = [sbx EXCEPT !.ctor = "object", !.obj = "failed"]
        /\ UNCHANGED mpipe

(* The constructor drops its own references and returns.  *)
SbCtorReturn ==
  /\ sbx.ctor = "object"
  /\ sbx' = [sbx EXCEPT !.ctor = "returned"]
  /\ mpipe' = Both(FreePipe)

SbPost ==
  /\ sbx.ctor = "returned" /\ sbx.obj = "alive"
  /\ sbx.posted["send"] < MaxSandboxPosts
  /\ sbx' = [sbx EXCEPT !.posted["send"] = @ + 1]
  /\ mpipe' = [mpipe EXCEPT !["send"] = Posted(@, sbx.posted["send"] + 1)]

(* js_sandboxed_worker_set_onmessage: the handler is made once and counts a  *)
(* reference; null removes it.                                               *)
SbSetOnMessage ==
  /\ sbx.ctor = "returned" /\ sbx.obj = "alive" /\ ~sbx.handler
  /\ sbx' = [sbx EXCEPT !.handler = TRUE]
  /\ mpipe' = [mpipe EXCEPT !["recv"] = DupPipe(@)]

SbClearOnMessage ==
  /\ sbx.obj = "alive" /\ sbx.handler
  /\ sbx' = [sbx EXCEPT !.handler = FALSE]
  /\ mpipe' = [mpipe EXCEPT !["recv"] = FreePipe(@)]

(* js_os_poll of the parent takes one message for its port.  *)
SbParentPoll ==
  /\ sbx.handler /\ mpipe["recv"].waker > 0
  /\ mpipe["recv"].msg_queue # <<>>
  /\ mpipe' = [mpipe EXCEPT !["recv"] = Taken(@)]
  /\ UNCHANGED sbx

(* js_sandboxed_worker_finalizer.  *)
SbFinalizer ==
  /\ sbx.ctor = "returned" /\ sbx.obj = "alive"
  /\ sbx' = [sbx EXCEPT !.obj = "dead", !.handler = FALSE]
  /\ mpipe' = [mpipe EXCEPT !["send"] = FreePipe(@),
                            !["recv"] = IF sbx.handler THEN FreePipe(FreePipe(@))
                                        ELSE FreePipe(@)]

-----------------------------------------------------------------------------
(* The sandbox thread.                                                       *)

(* cleanup_ctx, cleanup_rt and cleanup_args: the port, then the arguments.   *)
SbThreadExits ==
  /\ sbx' = [sbx EXCEPT !.thread = "exited", !.port = FALSE, !.args = FALSE]
  /\ mpipe' = [mpipe EXCEPT !["recv"] = FreePipe(@),
                            !["send"] = IF sbx.port THEN FreePipe(FreePipe(@))
                                        ELSE FreePipe(@)]

(* Mutant: the port of the thread borrows the reference of the arguments.  *)
SbThreadSetupBorrows ==
  /\ sbx.thread = "start"
  /\ \/ SbThreadExits
     \/ sbx' = [sbx EXCEPT !.thread = "script", !.port = TRUE] /\ UNCHANGED mpipe

(* sandboxed_worker_func: runtime with its limits and the deadline, context, *)
(* console, port and Worker.parent; each may fail and ends the thread.       *)
SbThreadSetup ==
  /\ sbx.thread = "start"
  /\ \/ SbThreadExits
     \/ /\ sbx' = [sbx EXCEPT !.thread = "script", !.port = TRUE]
        /\ mpipe' = [mpipe EXCEPT !["send"] = DupPipe(@)]

(* The clock passes timeout_end.  *)
SbExpire ==
  /\ sbx.thread \in {"script", "loop", "handler"} /\ sbx.timeout /\ ~sbx.expired
  /\ sbx' = [sbx EXCEPT !.expired = TRUE]
  /\ UNCHANGED mpipe

InJs == sbx.thread \in {"script", "handler"}

(* Sandboxed code, in the script or in a handler: it may set its handler,    *)
(* post to the parent, return or throw, or go on for ever.                   *)
SbChildOnMessage ==
  /\ InJs
  /\ \E b \in BOOLEAN : sbx' = [sbx EXCEPT !.onmessage = b]
  /\ UNCHANGED mpipe

SbChildPost ==
  /\ InJs /\ sbx.posted["recv"] < MaxSandboxPosts
  /\ sbx' = [sbx EXCEPT !.posted["recv"] = @ + 1]
  /\ mpipe' = [mpipe EXCEPT !["recv"] = Posted(@, sbx.posted["recv"] + 1)]

SbJsReturns ==
  /\ InJs
  /\ sbx' = [sbx EXCEPT !.thread = "loop"]
  /\ UNCHANGED mpipe

(* sandbox_interrupt_handler: from timeout_end on, code that is polled is    *)
(* stopped; the error is dumped and the thread goes on with its loop.        *)
SbInterrupt ==
  /\ InJs /\ sbx.timeout /\ sbx.expired
  /\ sbx' = [sbx EXCEPT !.thread = "loop"]
  /\ UNCHANGED mpipe

(* sandbox_poll and sandbox_handle_posted_message: select sees the waker and *)
(* one message is taken; it is dropped if it cannot be read or there is no   *)
(* handler.  Without a byte select returns after 100 ms and the loop goes    *)
(* round.  The port list is never empty, so the loop never ends.             *)
SbPoll ==
  /\ sbx.thread = "loop" /\ sbx.port
  /\ mpipe["send"].waker > 0
  /\ mpipe["send"].msg_queue # <<>>
  /\ mpipe' = [mpipe EXCEPT !["send"] = Taken(@)]
  /\ sbx' \in {sbx} \union
              (IF sbx.onmessage THEN {[sbx EXCEPT !.thread = "handler"]} ELSE {})

-----------------------------------------------------------------------------
SbNext ==
  \/ SbCtor \/ SbCtorInternal \/ SbCtorReturn
  \/ SbPost \/ SbSetOnMessage \/ SbClearOnMessage \/ SbParentPoll \/ SbFinalizer
  \/ SbThreadSetup \/ SbExpire \/ SbInterrupt \/ SbPoll
  \/ SbChildOnMessage \/ SbChildPost \/ SbJsReturns

(* The two threads are scheduled, time passes, and running code is polled    *)
(* for interrupts.  Sandboxed code need not return.                          *)
SbFairness ==
  /\ WF_sbVars(SbPoll)
  /\ WF_sbVars(SbExpire)
  /\ SF_sbVars(SbInterrupt)
  /\ WF_sbVars(SbParentPoll)

(* Who holds a reference to pipe p.  *)
Holders(p) ==
  {h \in {"ctor", "args", "object", "handler", "port"} :
     CASE h = "ctor" -> sbx.ctor \in {"running", "object"}
       [] h = "args" -> sbx.args
       [] h = "object" -> sbx.obj = "alive"
       [] h = "handler" -> sbx.handler /\ p = "recv"
       [] h = "port" -> sbx.port /\ p = "send"}

(* The count of a message pipe is the number of its holders, so in every     *)
(* order of constructor, thread and finalizer, and whatever allocation       *)
(* fails, the pipe lives until the last of them lets go and no longer.       *)
PipeLivesForItsHolders ==
  \A p \in Pipes :
    /\ mpipe[p].ref_count = Cardinality(Holders(p))
    /\ mpipe[p].live <=> Holders(p) # {}

(* The waker holds its byte exactly while a message waits, so the reader     *)
(* never sleeps on a message and never blocks in sandbox_waker_clear.        *)
WakerTellsQueue ==
  \A p \in Pipes : mpipe[p].waker = IF mpipe[p].msg_queue = <<>> THEN 0 ELSE 1

(* A sandbox with a timeout takes every message its parent has posted: code  *)
(* that does not return is interrupted and the thread polls on.              *)
SandboxTakesMessages ==
  (sbx.timeout /\ sbx.thread \in {"script", "loop", "handler"}
     /\ mpipe["send"].msg_queue # <<>>) ~> mpipe["send"].msg_queue = <<>>

SbTypeOK ==
  /\ sbx.thread \in {"none", "start", "script", "loop", "handler", "exited"}
  /\ sbx.obj \in {"none", "failed", "alive", "dead"}
  /\ \A p \in Pipes : mpipe[p].ref_count \in 0..5 /\ mpipe[p].waker \in Nat

(* The two pipes between a program and its sandbox live as long as anybody   *)
(* holds them, and the waker's byte says whether a queue has messages.       *)
SandboxInv == SbTypeOK /\ PipeLivesForItsHolders /\ WakerTellsQueue
=============================================================================
