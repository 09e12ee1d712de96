---------------------------- MODULE WatchHandles ----------------------------
(***************************************************************************)
(* File watchers, libuv/qn-uv-fs-event.c, and signal handlers,              *)
(* libuv/qn-uv-signals.c.  Both are the two-owner pattern with a difference.*)
(* A file watcher is pinned by this_val until its close callback; when it   *)
(* cannot be started the struct has no object, and detached makes the close *)
(* callback free it.  A signal handler has no this_val: it lives as long as *)
(* JavaScript keeps the object, and does not keep the loop alive.           *)
(***************************************************************************)
EXTENDS Runtime

CONSTANTS
  FsEvents,  \* QNFsEvent structs
  Signals    \* QNSignalHandler structs

ASSUME WatchAssumption ==
  NoHandle \notin FsEvents /\ NoHandle \notin Signals /\ FsEvents \intersect Signals = {}

VARIABLES
  fse,  \* each QNFsEvent
  sh    \* each QNSignalHandler

(* active: the handle is referenced in the sense of uv_ref.  *)
NoFsEvent ==
  [mem |-> "none", uv |-> "none", closed |-> FALSE, detached |-> FALSE,
   this_val |-> FALSE, obj |-> "none", ref |-> FALSE, func |-> FALSE,
   active |-> TRUE]

(* this_val is always FALSE: the struct has none.  *)
NoSignal ==
  [mem |-> "none", uv |-> "none", closed |-> FALSE, finalized |-> FALSE,
   this_val |-> FALSE, obj |-> "none", ref |-> FALSE, func |-> FALSE]

WatchInit ==
  /\ fse = [f \in FsEvents |-> NoFsEvent]
  /\ sh = [s \in Signals |-> NoSignal]

-----------------------------------------------------------------------------
(* File watchers.                                                            *)

FseSet(f, r) == fse' = [fse EXCEPT ![f] = r] /\ UNCHANGED <<sh, phase, cb>>
FseReachable(f) == Running /\ fse[f].ref

(* qn_fs_event_finalizer.  *)
FseFinalizer(r) ==
  LET d == [r EXCEPT !.func = FALSE, !.this_val = FALSE,
                     !.detached = TRUE, !.obj = "gone"]
  IN  IF d.closed THEN [d EXCEPT !.mem = "freed"] ELSE UvClose(d)

(* uv__fs_event_close_cb.  *)
FseClosed(r) ==
  LET c == [r EXCEPT !.uv = "closed", !.closed = TRUE]
  IN  IF ~c.detached /\ c.this_val
      THEN Released([c EXCEPT !.this_val = FALSE], FseFinalizer)
      ELSE IF c.detached THEN [c EXCEPT !.mem = "freed"] ELSE c

FseWatching ==
  [NoFsEvent EXCEPT !.mem = "live", !.uv = "open", !.func = TRUE,
                    !.this_val = TRUE, !.obj = "alive", !.ref = TRUE]

(* uv_fs_event_start failed.  *)
FseNotStarted ==
  [NoFsEvent EXCEPT !.mem = "live", !.uv = "closing", !.detached = TRUE]

(* js_uv_fs_watch.  *)
FsWatch(f) ==
  /\ Running
  /\ fse[f].mem = "none"
  /\ FseSet(f, FseWatching) \/ FseSet(f, FseNotStarted)

(* close, ref and unref of the handle.  *)
FseClose(f) == FseReachable(f) /\ FseSet(f, UvClose(fse[f]))
FseRef(f) == FseReachable(f) /\ FseSet(f, [fse[f] EXCEPT !.active = TRUE])
FseUnref(f) == FseReachable(f) /\ FseSet(f, [fse[f] EXCEPT !.active = FALSE])
FseDrop(f) == FseReachable(f) /\ FseSet(f, Lost(fse[f], FseFinalizer))

(* uv__fs_event_cb calls func; libuv returns to the handle afterwards.  *)
FseEventCb(f) ==
  /\ Polling
  /\ fse[f].uv = "open" /\ fse[f].func
  /\ cb' = f
  /\ UNCHANGED <<fse, sh, phase>>
FseEventEnd(f) == cb = f /\ cb' = NoHandle /\ UNCHANGED <<fse, sh, phase>>

FseCloseCb(f) == Polling /\ fse[f].uv = "closing" /\ FseSet(f, FseClosed(fse[f]))

-----------------------------------------------------------------------------
(* Signal handlers.                                                          *)

ShSet(s, r) == sh' = [sh EXCEPT ![s] = r] /\ UNCHANGED <<fse, phase, cb>>
ShReachable(s) == Running /\ sh[s].ref

(* qn_signal_handler_finalizer with maybe_close.  *)
ShFinalizer(r) ==
  LET f == [r EXCEPT !.func = FALSE, !.finalized = TRUE, !.obj = "gone"]
  IN  IF f.closed THEN [f EXCEPT !.mem = "freed"] ELSE UvClose(f)

(* js_uv_signal.  When uv_signal_start fails the struct is closed, and as    *)
(* finalized is never set nobody frees it.                                   *)
Signal(s) ==
  /\ Running
  /\ sh[s].mem = "none"
  /\ \/ ShSet(s, [NoSignal EXCEPT !.mem = "live", !.uv = "open", !.func = TRUE,
                                  !.obj = "alive", !.ref = TRUE])
     \/ ShSet(s, [NoSignal EXCEPT !.mem = "live", !.uv = "closing"])

ShClose(s) == ShReachable(s) /\ ShSet(s, UvClose(sh[s]))
ShDrop(s) == ShReachable(s) /\ ShSet(s, Lost(sh[s], ShFinalizer))

(* uv__signal_cb calls func.  *)
ShSignalCb(s) ==
  /\ Polling
  /\ sh[s].uv = "open"
  /\ cb' = s
  /\ UNCHANGED <<fse, sh, phase>>
ShSignalEnd(s) == cb = s /\ cb' = NoHandle /\ UNCHANGED <<fse, sh, phase>>

(* uv__signal_close_cb.  *)
ShCloseCb(s) ==
  /\ Polling
  /\ sh[s].uv = "closing"
  /\ LET r == [sh[s] EXCEPT !.uv = "closed", !.closed = TRUE]
     IN  ShSet(s, IF r.finalized THEN [r EXCEPT !.mem = "freed"] ELSE r)

-----------------------------------------------------------------------------

WatchNext ==
  \/ \E f \in FsEvents :
       \/ FsWatch(f) \/ FseClose(f) \/ FseRef(f) \/ FseUnref(f) \/ FseDrop(f)
       \/ FseEventCb(f) \/ FseEventEnd(f) \/ FseCloseCb(f)
  \/ \E s \in Signals :
       \/ Signal(s) \/ ShClose(s) \/ ShDrop(s)
       \/ ShSignalCb(s) \/ ShSignalEnd(s) \/ ShCloseCb(s)

FseAlive(f) == fse[f].uv = "closing" \/ (fse[f].uv = "open" /\ fse[f].active)
ShAlive(s) == sh[s].uv = "closing"

(* Neither file registers a cleanup function.  *)
FseCollected == [f \in FsEvents |-> Collected(fse[f], FseFinalizer)]
ShCollected == [s \in Signals |-> Collected(sh[s], ShFinalizer)]

watchVars == <<phase, cb, fse, sh>>

(* libuv calls the close callbacks that are due, however many events come in *)
(* between, and the functions it calls return.                               *)
WatchFairness ==
  /\ \A f \in FsEvents : SF_watchVars(FseCloseCb(f)) /\ WF_watchVars(FseEventEnd(f))
  /\ \A s \in Signals : WF_watchVars(ShSignalEnd(s))

-----------------------------------------------------------------------------
(* Properties.                                                               *)

(* A watcher's struct is freed when the handle is closed and no object is    *)
(* left to finalize: "Do not touch fe after this point".                     *)
FseFreedWhenBothDone ==
  \A f \in FsEvents : fse[f].mem = "freed" =>
    fse[f].uv = "closed" /\ fse[f].obj # "alive" /\ cb # f

(* "Mark detached so close_cb takes over freeing": a watcher that nobody can *)
(* reach and that is closing is freed, one that never started too.           *)
FseUnreachableIsFreed ==
  \A f \in FsEvents :
    (fse[f].uv = "closing" /\ ~fse[f].ref) ~> (fse[f].mem = "freed")

(* A signal that libuv dispatches finds a struct and a function to call.     *)
ShSignalFindsHandler ==
  \A s \in Signals :
    /\ (sh[s].uv = "open" => sh[s].mem = "live" /\ sh[s].func)
    /\ (sh[s].mem = "freed" => sh[s].uv = "closed" /\ sh[s].obj = "gone")
=============================================================================
