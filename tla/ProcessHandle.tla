--------------------------- MODULE ProcessHandle ---------------------------
(***************************************************************************)
(* Child processes, libuv/qn-uv-process.c: the QNProcess struct from        *)
(* PROC_SPAWN to qn_process_maybe_free.  The exit callback calls JavaScript *)
(* and then goes on using the struct, so it is two steps, and whatever      *)
(* JavaScript does in between is a step of its own.  Unlike the streams,    *)
(* a process gives this_val back when it asks for the close, not when the   *)
(* close is done.                                                           *)
(***************************************************************************)
EXTENDS Runtime

CONSTANT Processes

ASSUME ProcessesAssumption == NoHandle \notin Processes

VARIABLE proc  \* each QNProcess

NoProc ==
  [mem |-> "none", linked |-> FALSE, uv |-> "none", closed |-> FALSE,
   finalized |-> FALSE, this_val |-> FALSE, obj |-> "none", ref |-> FALSE,
   on_exit |-> FALSE, child |-> "none", exits |-> 0]

(* linked: in the list process_head.  child: the operating system's process. *)
(* exits: calls of on_exit.                                                  *)
ProcRecord ==
  [mem : {"none", "live", "freed"}, linked : BOOLEAN, uv : HandleStates,
   closed : BOOLEAN, finalized : BOOLEAN, this_val : BOOLEAN,
   obj : {"none", "alive", "gone"}, ref : BOOLEAN, on_exit : BOOLEAN,
   child : {"none", "running", "zombie", "reaped"}, exits : 0..1]

ProcInit == proc = [p \in Processes |-> NoProc]

-----------------------------------------------------------------------------

(* Mutant: the struct goes when libuv has closed the handle.  *)
ProcFreedByClose(r) ==
  IF r.closed THEN [r EXCEPT !.mem = "freed", !.linked = FALSE] ELSE r

(* qn_process_maybe_free.  *)
ProcMaybeFree(r) ==
  IF r.closed /\ r.finalized
  THEN [r EXCEPT !.mem = "freed", !.linked = FALSE] ELSE r

(* qn_process_finalizer.  *)
ProcFinalizer(r) ==
  LET f == [r EXCEPT !.on_exit = FALSE, !.this_val = FALSE,
                     !.finalized = TRUE, !.obj = "gone"]
  IN  IF f.closed THEN ProcMaybeFree(f) ELSE UvClose(f)

(* The end of qn_exit_cb and the body of PROC_CLOSE: close the handle and    *)
(* give this_val back, unless that was done before.  (The code frees it and  *)
(* then clears it, so a finalizer that runs inside frees it a second time;   *)
(* StreamHandle counts releases, here only the struct's life is followed.)   *)
ProcCloseHandle(r) ==
  IF r.uv = "open"
  THEN Released([UvClose(r) EXCEPT !.this_val = FALSE], ProcFinalizer)
  ELSE r

(* uv_spawn succeeded and the object was made.  *)
Spawned ==
  [NoProc EXCEPT !.mem = "live", !.linked = TRUE, !.uv = "open",
                 !.child = "running",
                 !.this_val = TRUE, !.obj = "alive", !.ref = TRUE]

(* uv_spawn failed: it "inits a process handle but doesn't close it on       *)
(* error", and PROC_SPAWN frees the struct as it is.                         *)
SpawnFailed == [NoProc EXCEPT !.mem = "freed", !.linked = TRUE, !.uv = "open"]

(* The object could not be made: the handle is closed at once.  *)
SpawnUnwrapped ==
  [Spawned EXCEPT !.uv = "closing", !.this_val = FALSE,
                  !.obj = "none", !.ref = FALSE]

-----------------------------------------------------------------------------
(* js_uv_process_op.                                                         *)

ProcSet(p, r) == proc' = [proc EXCEPT ![p] = r] /\ UNCHANGED phase
ProcReachable(p) == Running /\ proc[p].ref

(* PROC_SPAWN.  *)
ProcSpawn(p) ==
  /\ Running
  /\ proc[p].mem = "none"
  /\ \E r \in {Spawned, SpawnFailed, SpawnUnwrapped} : ProcSet(p, r)
  /\ UNCHANGED cb

(* PROC_SET_ON_EXIT.  *)
ProcSetOnExit(p) ==
  /\ ProcReachable(p)
  /\ \E f \in BOOLEAN : ProcSet(p, [proc[p] EXCEPT !.on_exit = f])
  /\ UNCHANGED cb

(* PROC_KILL with a deadly signal.  *)
ProcKill(p) ==
  /\ ProcReachable(p)
  /\ proc[p].child = "running"
  /\ ProcSet(p, [proc[p] EXCEPT !.child = "zombie"])
  /\ UNCHANGED cb

(* PROC_CLOSE.  *)
ProcClose(p) ==
  /\ ProcReachable(p)
  /\ ProcSet(p, ProcCloseHandle(proc[p]))
  /\ UNCHANGED cb

ProcDrop(p) ==
  /\ ProcReachable(p)
  /\ ProcSet(p, Lost(proc[p], ProcFinalizer))
  /\ UNCHANGED cb

(* The child ends by itself.  *)
ProcChildExits(p) ==
  /\ proc[p].child = "running"
  /\ ProcSet(p, [proc[p] EXCEPT !.child = "zombie"])
  /\ UNCHANGED cb

-----------------------------------------------------------------------------
(* Callbacks.                                                                *)

(* libuv reaps the child; qn_exit_cb, up to the call of on_exit.  *)
ProcExitCb(p) ==
  /\ Polling
  /\ proc[p].uv = "open"
  /\ proc[p].child = "zombie"
  /\ LET r == [proc[p] EXCEPT !.child = "reaped"]
     IN  IF r.on_exit
         THEN ProcSet(p, [r EXCEPT !.exits = @ + 1]) /\ cb' = p
         ELSE ProcSet(p, ProcCloseHandle(r)) /\ UNCHANGED cb

(* Mutant: on_exit returns and the handle stays.  *)
ProcExitCbEndLeaves(p) ==
  /\ cb = p
  /\ ProcSet(p, proc[p])
  /\ cb' = NoHandle

(* qn_exit_cb after on_exit has returned.  *)
ProcExitCbEnd(p) ==
  /\ cb = p
  /\ ProcSet(p, ProcCloseHandle(proc[p]))
  /\ cb' = NoHandle

(* qn_process_close_cb.  *)
ProcCloseCb(p) ==
  /\ Polling
  /\ proc[p].uv = "closing"
  /\ ProcSet(p, ProcMaybeFree([proc[p] EXCEPT !.uv = "closed", !.closed = TRUE]))
  /\ UNCHANGED cb

ProcNext ==
  \E p \in Processes :
    \/ ProcSpawn(p) \/ ProcSetOnExit(p) \/ ProcKill(p) \/ ProcClose(p)
    \/ ProcDrop(p) \/ ProcChildExits(p)
    \/ ProcExitCb(p) \/ ProcExitCbEnd(p) \/ ProcCloseCb(p)

-----------------------------------------------------------------------------
(* The end of the runtime.                                                   *)

(* A handle keeps the loop alive until its child is reaped or it is closed.  *)
ProcAlive(p) ==
  \/ proc[p].uv = "closing"
  \/ proc[p].uv = "open" /\ proc[p].child \in {"running", "zombie"}

(* qn_process_cleanup.  *)
ProcCleanedUp ==
  [p \in Processes |->
     IF proc[p].linked /\ proc[p].this_val
     THEN Released([proc[p] EXCEPT !.this_val = FALSE], ProcFinalizer)
     ELSE proc[p]]

ProcCollected == [p \in Processes |-> Collected(proc[p], ProcFinalizer)]

procVars == <<phase, cb, proc>>

(* libuv goes on calling the callbacks that are due, and on_exit returns.  *)
ProcFairness ==
  \A p \in Processes :
    /\ WF_procVars(ProcExitCb(p)) /\ WF_procVars(ProcExitCbEnd(p))
    /\ WF_procVars(ProcCloseCb(p))

-----------------------------------------------------------------------------
(* Properties.                                                               *)

(* A struct whose spawn succeeded is freed only when libuv has closed the    *)
(* handle, the object is finalized, no exit callback is using it and the     *)
(* list has forgotten it: closed and finalized, the "two-phase destruction". *)
ProcFreedWhenBothDone ==
  \A p \in Processes :
    proc[p].mem = "freed" /\ proc[p].child # "none"
      => /\ proc[p].uv = "closed" /\ proc[p].obj = "gone"
         /\ cb # p /\ ~proc[p].linked

(* A child's exit finds its handle and its object: JavaScript may forget a   *)
(* running child, and while nobody has closed it this_val keeps it.          *)
ProcPinnedUntilExit ==
  \A p \in Processes :
    Running /\ proc[p].obj # "none" /\ proc[p].uv = "open"
      => proc[p].this_val /\ proc[p].obj = "alive"

(* A child that JavaScript has forgotten is freed once it has ended, whether *)
(* its exit was reported, and whatever on_exit did.                          *)
ProcForgottenIsFreed ==
  \A p \in Processes :
    (proc[p].obj = "alive" /\ ~proc[p].ref /\ proc[p].child \in {"zombie", "reaped"})
      ~> (proc[p].mem = "freed")
=============================================================================
