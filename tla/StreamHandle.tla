---------------------------- MODULE StreamHandle ----------------------------
(***************************************************************************)
(* The life of a QNStream (libuv/qn-uv-stream.c): a struct that embeds a    *)
(* libuv handle and is the opaque of a JavaScript object.  libuv and the    *)
(* garbage collector give it up separately (closed and finalized); the      *)
(* self-reference this_val keeps the object while libuv has the handle.     *)
(*                                                                         *)
(* Each thread has its own runtime and loop, but the list stream_head that  *)
(* qn_stream_cleanup walks at a thread's end is one per process.  No        *)
(* callback touches the struct after it has called JavaScript, so a call    *)
(* that JavaScript makes from a callback is a step of its own.              *)
(***************************************************************************)
EXTENDS Naturals

CONSTANTS
  Threads,  \* the main thread and the workers
  Streams   \* QNStream structs

NoThread == "none"  \* the owner of a struct that is not allocated

ASSUME ThreadsAssumption == NoThread \notin Threads

Kinds == {"connect", "write", "shutdown"}  \* requests, one of a kind at a time

VARIABLES
  phase,  \* each thread: in qn_vm_loop, in qn_vm_free, or done
  st      \* each QNStream

streamVars == <<phase, st>>

(* mem: the struct, in the list while it is live.  handle: libuv's view.     *)
(* obj: the JavaScript object; userRef: JavaScript can reach it.  watching:  *)
(* reading or listening.  reqs: requests in flight.  releases: how often the *)
(* reference in this_val was given back.                                     *)
Unused ==
  [mem |-> "none", owner |-> NoThread, handle |-> "none",
   closed |-> FALSE, finalized |-> FALSE,
   this_val |-> FALSE, releases |-> 0, obj |-> "none", userRef |-> FALSE,
   watching |-> FALSE, reqs |-> {}]

StreamRecord ==
  [mem : {"none", "live", "freed"}, owner : Threads \union {NoThread},
   handle : {"none", "open", "closing", "closed"},
   closed : BOOLEAN, finalized : BOOLEAN,
   this_val : BOOLEAN, releases : Nat, obj : {"none", "alive", "gone"},
   userRef : BOOLEAN, watching : BOOLEAN, reqs : SUBSET Kinds]

StreamTypeOK ==
  /\ phase \in [Threads -> {"run", "freeing", "done"}]
  /\ st \in [Streams -> StreamRecord]
  /\ \A s \in Streams : st[s].mem = "none" => st[s] = Unused

StreamInit ==
  /\ phase = [t \in Threads |-> "run"]
  /\ st = [s \in Streams |-> Unused]

-----------------------------------------------------------------------------
(* What the functions of the two phases do to a stream r.                    *)

(* Mutant: the struct goes as soon as libuv has closed the handle.  *)
MaybeFreeClosed(r) == IF r.closed THEN [r EXCEPT !.mem = "freed"] ELSE r

(* qn_stream_maybe_free: unlinked and freed.  *)
MaybeFree(r) ==
  IF r.closed /\ r.finalized THEN [r EXCEPT !.mem = "freed"] ELSE r

(* uv_close, asked for only when the handle is not closing.  *)
UvClose(r) ==
  IF r.handle = "open" THEN [r EXCEPT !.handle = "closing", !.watching = FALSE]
                       ELSE r

(* qn_stream_finalizer.  *)
Finalizer(r) ==
  LET f == [r EXCEPT !.releases = IF r.this_val THEN @ + 1 ELSE @,
                     !.this_val = FALSE, !.finalized = TRUE, !.obj = "gone"]
  IN  IF f.closed THEN MaybeFree(f) ELSE UvClose(f)

(* JS_FreeValue of the reference in this_val: if it was the last one the     *)
(* finalizer runs before the call returns.                                   *)
FreeThisVal(r) ==
  LET f == [r EXCEPT !.releases = @ + 1]
  IN  IF f.userRef THEN f ELSE Finalizer(f)

(* Mutant: this_val is freed before it is set to undefined.  *)
CloseCbFreesFirst(r) ==
  LET c == [r EXCEPT !.handle = "closed", !.closed = TRUE]
  IN  IF ~c.finalized /\ c.this_val
      THEN [FreeThisVal(c) EXCEPT !.this_val = FALSE]
      ELSE MaybeFree(c)

(* Mutant: the close callback does not give this_val back.  *)
CloseCbKeepsRef(r) == MaybeFree([r EXCEPT !.handle = "closed", !.closed = TRUE])

(* qn_stream_close_cb sets this_val to undefined before it frees the value.  *)
CloseCbOf(r) ==
  LET c == [r EXCEPT !.handle = "closed", !.closed = TRUE]
  IN  IF ~c.finalized /\ c.this_val
      THEN FreeThisVal([c EXCEPT !.this_val = FALSE])
      ELSE MaybeFree(c)

(* The body of the loop in qn_stream_cleanup, in the other order.  *)
CleanupOf(r) ==
  IF r.mem = "live" /\ r.this_val
  THEN [FreeThisVal(r) EXCEPT !.this_val = FALSE]
  ELSE r

(* qn_stream_new and qn_stream_wrap; without an object when the wrap or,    *)
(* before it, uv_accept fails: then the handle is closed at once.            *)
Wrapped(t) ==
  [Unused EXCEPT !.mem = "live", !.owner = t, !.handle = "open",
                 !.this_val = TRUE, !.obj = "alive", !.userRef = TRUE]
Unwrapped(t) ==
  [Unused EXCEPT !.mem = "live", !.owner = t, !.handle = "closing"]

-----------------------------------------------------------------------------
(* Operations: js_uv_stream_op, in the thread that owns the stream.          *)

Set(s, r) == st' = [st EXCEPT ![s] = r]

Owned(s) == st[s].owner # NoThread /\ phase[st[s].owner] = "run"
Reachable(s) == Owned(s) /\ st[s].userRef

(* TCP_NEW and PIPE_NEW.  *)
New(t, s) ==
  /\ phase[t] = "run"
  /\ st[s].mem = "none"
  /\ Set(s, Wrapped(t)) \/ Set(s, Unwrapped(t))
  /\ UNCHANGED phase

(* READ_START or LISTEN; libuv refuses a closing handle.  *)
Watch(s) ==
  /\ Reachable(s)
  /\ st[s].handle = "open"
  /\ Set(s, [st[s] EXCEPT !.watching = TRUE])
  /\ UNCHANGED phase

ReadStop(s) ==
  /\ Reachable(s)
  /\ Set(s, [st[s] EXCEPT !.watching = FALSE])
  /\ UNCHANGED phase

(* TCP_CONNECT, SHUTDOWN, and a WRITE that uv_try_write did not finish.  *)
Request(s, k) ==
  /\ Reachable(s)
  /\ st[s].handle = "open"
  /\ k \notin st[s].reqs
  /\ Set(s, [st[s] EXCEPT !.reqs = @ \union {k}])
  /\ UNCHANGED phase

(* CLOSE.  *)
Close(s) ==
  /\ Reachable(s)
  /\ Set(s, UvClose(st[s]))
  /\ UNCHANGED phase

(* JavaScript loses the object.  *)
DropRef(s) ==
  /\ Reachable(s)
  /\ LET r == [st[s] EXCEPT !.userRef = FALSE]
     IN  Set(s, IF r.this_val THEN r ELSE Finalizer(r))
  /\ UNCHANGED phase

-----------------------------------------------------------------------------
(* Callbacks.                                                                *)

Serving(s) == st[s].owner # NoThread /\ phase[st[s].owner] # "done"

(* qn_read_cb at EOF or on an error stops the reading.  *)
ReadEof(s) ==
  /\ Serving(s)
  /\ st[s].watching
  /\ Set(s, [st[s] EXCEPT !.watching = FALSE])
  /\ UNCHANGED phase

(* qn_connection_cb: a connection of server s becomes stream c.  *)
Connection(s, c) ==
  /\ Owned(s)
  /\ st[s].watching
  /\ st[c].mem = "none"
  /\ Set(c, Wrapped(st[s].owner)) \/ Set(c, Unwrapped(st[s].owner))
  /\ UNCHANGED phase

(* qn_connect_cb, qn_write_cb or qn_shutdown_cb, also with ECANCELED.  *)
RequestCb(s, k) ==
  /\ Serving(s)
  /\ k \in st[s].reqs
  /\ Set(s, [st[s] EXCEPT !.reqs = @ \ {k}])
  /\ UNCHANGED phase

(* libuv calls the close callback after those of the cancelled requests.  *)
CloseCb(s) ==
  /\ Serving(s)
  /\ st[s].handle = "closing"
  /\ st[s].reqs = {}
  /\ Set(s, CloseCbOf(st[s]))
  /\ UNCHANGED phase

-----------------------------------------------------------------------------
(* The end of a thread.                                                      *)

KeepsAlive(r) == r.watching \/ r.reqs # {} \/ r.handle = "closing"

(* The loop of t is no longer alive: qn_vm_free calls qn_stream_cleanup,     *)
(* which walks the whole list.                                               *)
Cleanup(t) ==
  /\ phase[t] = "run"
  /\ \A s \in Streams : st[s].owner = t => ~KeepsAlive(st[s])
  /\ phase' = [phase EXCEPT ![t] = "freeing"]
  /\ st' = [s \in Streams |-> CleanupOf(st[s])]

(* uv_run(UV_RUN_NOWAIT) has called the close callbacks; the loop is freed   *)
(* and then the runtime, which finalizes the objects that are left.          *)
FreeRuntime(t) ==
  /\ phase[t] = "freeing"
  /\ \A s \in Streams : st[s].owner = t => ~KeepsAlive(st[s])
  /\ phase' = [phase EXCEPT ![t] = "done"]
  /\ st' = [s \in Streams |->
              IF st[s].owner = t /\ st[s].obj = "alive"
              THEN Finalizer([st[s] EXCEPT !.userRef = FALSE]) ELSE st[s]]

StreamEnded == (\A t \in Threads : phase[t] = "done") /\ UNCHANGED streamVars

StreamNext ==
  \/ \E s \in Streams :
       \/ \E t \in Threads : New(t, s)
       \/ Watch(s) \/ ReadStop(s) \/ Close(s) \/ DropRef(s)
       \/ \E k \in Kinds : Request(s, k) \/ RequestCb(s, k)
       \/ ReadEof(s) \/ CloseCb(s)
       \/ \E c \in Streams : Connection(s, c)
  \/ \E t \in Threads : Cleanup(t) \/ FreeRuntime(t)
  \/ StreamEnded

(* A loop that is alive calls the callbacks of its closing handles.  *)
StreamFairness ==
  \A s \in Streams :
    /\ WF_streamVars(CloseCb(s))
    /\ \A k \in Kinds : WF_streamVars(st[s].handle = "closing" /\ RequestCb(s, k))

StreamSpec == StreamInit /\ [][StreamNext]_streamVars /\ StreamFairness

-----------------------------------------------------------------------------
(* Properties.                                                               *)

(* While libuv has the handle of a running thread's stream, its object is    *)
(* pinned by this_val and not finalized: "libuv may still fire pending       *)
(* write/shutdown callbacks before" the close callback.                      *)
PinnedWhileOpen ==
  \A s \in Streams :
    Owned(s) /\ st[s].obj # "none" /\ st[s].handle \in {"open", "closing"}
      => st[s].this_val /\ st[s].obj = "alive"

(* The struct is freed only when both sides have given it up, and no request *)
(* still points to it; until then the list and the object may.               *)
FreedWhenBothDone ==
  \A s \in Streams : st[s].mem = "freed" =>
    /\ st[s].handle = "closed" /\ st[s].obj = "gone"
    /\ ~st[s].this_val /\ st[s].reqs = {}

(* As long as its thread runs, the reference in this_val is given back at    *)
(* most once, although the close callback and the finalizer both may.        *)
ReleasedOnceWhileRunning ==
  \A s \in Streams : Owned(s) => st[s].releases <= 1

(* A stream that is closed and that JavaScript has lost is freed: neither    *)
(* side waits for the other for ever.                                        *)
ClosedIsFreed ==
  \A s \in Streams :
    (st[s].handle = "closing" /\ st[s].obj = "alive" /\ ~st[s].userRef)
      ~> (st[s].mem = "freed")

(* node-compatibility.md on workers: "Full isolation via _Thread_local       *)
(* state".  So an open stream keeps its reference until its own thread       *)
(* shuts down.                                                               *)
FullIsolation ==
  [][\A s \in Streams :
       st[s].this_val /\ st[s].handle = "open" /\ ~st'[s].this_val
         => phase[st[s].owner] # "run" \/ phase'[st[s].owner] # "run"]_streamVars

(* The "two-phase destruction" of a QNStream: object and struct live as long *)
(* as libuv or a request may use them, and the struct goes once both owners  *)
(* have let go.                                                              *)
LifetimeInv == StreamTypeOK /\ PinnedWhileOpen /\ FreedWhenBothDone
=============================================================================
