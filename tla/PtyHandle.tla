----------------------------- MODULE PtyHandle -----------------------------
(***************************************************************************)
(* Pseudo-terminals, libuv/qn-uv-pty.c.  A QNPty holds two libuv handles:   *)
(* the pipe around the master side and a SIGCHLD watcher.  The end of the   *)
(* child is noticed twice over, by the signal and by end of file on the     *)
(* master, because either may come first and the signal may come before the *)
(* watcher is started.                                                      *)
(***************************************************************************)
EXTENDS Runtime

CONSTANT Ptys

ASSUME PtysAssumption == NoHandle \notin Ptys

VARIABLE pty  \* each QNPty

(* pipe, sig: libuv's view of the two handles.  reading: whether the pipe is *)
(* read.  signalled: a SIGCHLD waits to be dispatched.  slave: who holds the *)
(* other side of the terminal.  leaked: a write request that libuv refused   *)
(* and no callback will free.                                                *)
NoPty ==
  [mem |-> "none", pipe |-> "none", sig |-> "none",
   pipe_closed |-> FALSE, sigchld_closed |-> FALSE, closed |-> FALSE,
   finalized |-> FALSE, this_val |-> FALSE, obj |-> "none", ref |-> FALSE,
   on_exit |-> FALSE, exited |-> FALSE, exits |-> 0, reading |-> "off",
   signalled |-> FALSE, child |-> "none", slave |-> {}, writing |-> FALSE,
   leaked |-> FALSE]

PtyInit == pty = [p \in Ptys |-> NoPty]

-----------------------------------------------------------------------------

(* pty_maybe_free.  *)
PtyMaybeFree(r) ==
  IF r.pipe_closed /\ r.sigchld_closed /\ r.finalized
  THEN [r EXCEPT !.mem = "freed"] ELSE r

(* pty_close_handles: each handle that is neither closed nor closing.  *)
PtyCloseHandles(r) ==
  [r EXCEPT !.pipe = IF @ = "open" THEN "closing" ELSE @,
            !.reading = IF r.pipe = "open" THEN "off" ELSE @,
            !.sig = IF @ = "open" THEN "closing" ELSE @,
            !.signalled = FALSE]

(* qn_pty_finalizer.  *)
PtyFinalizer(r) ==
  LET f == [r EXCEPT !.on_exit = FALSE, !.this_val = FALSE,
                     !.finalized = TRUE, !.obj = "gone"]
  IN  IF f.closed THEN PtyMaybeFree(f) ELSE PtyCloseHandles(f)

(* pty_release_prevent_gc, then pty_close_handles: the end of pty_try_reap,  *)
(* and PTY_CLOSE.                                                            *)
PtyEnd(r) ==
  PtyCloseHandles(Released([r EXCEPT !.this_val = FALSE], PtyFinalizer))

-----------------------------------------------------------------------------
(* js_pty_op.                                                                *)

PtyPut(p, r) == pty' = [pty EXCEPT ![p] = r] /\ UNCHANGED phase
PtySet(p, r) == PtyPut(p, r) /\ UNCHANGED cb
PtyReachable(p) == Running /\ pty[p].ref

(* PTY_SPAWN.  forkpty has started the child, which may even have ended when *)
(* the watcher is started: that SIGCHLD is lost.  It may also have given the *)
(* terminal to a process of its own.                                         *)
PtySpawn(p) ==
  /\ Running
  /\ pty[p].mem = "none"
  /\ \E c \in {"running", "zombie"}, other \in BOOLEAN :
       PtySet(p, [NoPty EXCEPT
         !.mem = "live", !.pipe = "open", !.sig = "open", !.reading = "on",
         !.this_val = TRUE, !.obj = "alive", !.ref = TRUE, !.child = c,
         !.slave = (IF c = "running" THEN {"child"} ELSE {})
                   \union (IF other THEN {"other"} ELSE {})])

(* PTY_WRITE: refused once closed; on a handle that is only closing uv_write *)
(* fails, and its result is not looked at.                                   *)
PtyWrite(p) ==
  /\ PtyReachable(p)
  /\ ~pty[p].closed /\ ~pty[p].writing
  /\ PtySet(p, IF pty[p].pipe = "open" THEN [pty[p] EXCEPT !.writing = TRUE]
                                       ELSE [pty[p] EXCEPT !.leaked = TRUE])

(* pty_write_cb frees the request, also one that was cancelled.  *)
PtyWriteCb(p) ==
  /\ Polling
  /\ pty[p].writing
  /\ PtySet(p, [pty[p] EXCEPT !.writing = FALSE])

(* PTY_PAUSE and PTY_RESUME; libuv refuses to read from a closing pipe.  *)
PtyPause(p) ==
  /\ PtyReachable(p)
  /\ pty[p].reading = "on"
  /\ PtySet(p, [pty[p] EXCEPT !.reading = "paused"])
PtyResume(p) ==
  /\ PtyReachable(p)
  /\ pty[p].pipe = "open"
  /\ PtySet(p, [pty[p] EXCEPT !.reading = "on"])

(* PTY_KILL: only while the child is not reaped.  *)
PtyKill(p) ==
  /\ PtyReachable(p)
  /\ ~pty[p].exited
  /\ "child" \in pty[p].slave
  /\ PtySet(p, [pty[p] EXCEPT !.slave = @ \ {"child"}])

(* PTY_CLOSE.  *)
PtyClose(p) ==
  /\ PtyReachable(p)
  /\ ~pty[p].closed
  /\ PtySet(p, PtyEnd(pty[p]))

(* PTY_SET_ON_EXIT.  *)
PtySetOnExit(p) ==
  /\ PtyReachable(p)
  /\ ~pty[p].on_exit
  /\ PtySet(p, [pty[p] EXCEPT !.on_exit = TRUE])

PtyDrop(p) == PtyReachable(p) /\ PtySet(p, Lost(pty[p], PtyFinalizer))

-----------------------------------------------------------------------------
(* The child: its descriptors are closed before it can be waited for.        *)

PtyLeaves(p) ==
  /\ \E h \in pty[p].slave : PtySet(p, [pty[p] EXCEPT !.slave = @ \ {h}])

PtyChildExits(p) ==
  /\ pty[p].child = "running" /\ "child" \notin pty[p].slave
  /\ PtySet(p, [pty[p] EXCEPT !.child = "zombie",
                              !.signalled = pty[p].sig = "open" /\ ~pty[p].exited])

-----------------------------------------------------------------------------
(* Callbacks.                                                                *)

(* Mutant: what waitpid answers is not looked at.  *)
PtyTryReapBlind(p, r) ==
  LET x == [r EXCEPT !.exited = TRUE, !.signalled = FALSE]
  IN  IF x.on_exit THEN PtyPut(p, [x EXCEPT !.exits = @ + 1]) /\ cb' = p
                   ELSE PtySet(p, PtyEnd(x))

(* pty_try_reap on r, up to the call of on_exit: waitpid with WNOHANG finds  *)
(* the child or returns.                                                     *)
PtyTryReap(p, r) ==
  IF r.exited \/ r.child # "zombie" THEN PtySet(p, r)
  ELSE LET x == [r EXCEPT !.exited = TRUE, !.child = "reaped", !.signalled = FALSE]
       IN  IF x.on_exit THEN PtyPut(p, [x EXCEPT !.exits = @ + 1]) /\ cb' = p
                        ELSE PtySet(p, PtyEnd(x))

(* pty_sigchld_cb.  *)
PtySigchldCb(p) ==
  /\ Polling
  /\ pty[p].sig = "open" /\ pty[p].signalled
  /\ PtyTryReap(p, [pty[p] EXCEPT !.signalled = FALSE])

(* Mutant: end of file only stops the reading.  *)
PtyReadEofStops(p) ==
  /\ Polling
  /\ pty[p].reading = "on" /\ pty[p].slave = {}
  /\ PtySet(p, [pty[p] EXCEPT !.reading = "eof"])

(* pty_read_cb when every slave descriptor is closed.  *)
PtyReadEof(p) ==
  /\ Polling
  /\ pty[p].reading = "on" /\ pty[p].slave = {}
  /\ PtyTryReap(p, [pty[p] EXCEPT !.reading = "eof"])

(* pty_try_reap after on_exit has returned.  *)
PtyReapEnd(p) ==
  /\ cb = p
  /\ PtyPut(p, PtyEnd(pty[p]))
  /\ cb' = NoHandle

(* pty_pipe_close_cb and pty_sigchld_close_cb.  *)
PtyPipeCloseCb(p) ==
  /\ Polling
  /\ pty[p].pipe = "closing" /\ ~pty[p].writing
  /\ LET r == [pty[p] EXCEPT !.pipe = "closed", !.pipe_closed = TRUE]
     IN  PtySet(p, IF r.sigchld_closed THEN PtyMaybeFree([r EXCEPT !.closed = TRUE])
                                       ELSE r)
PtySigchldCloseCb(p) ==
  /\ Polling
  /\ pty[p].sig = "closing"
  /\ LET r == [pty[p] EXCEPT !.sig = "closed", !.sigchld_closed = TRUE]
     IN  PtySet(p, IF r.pipe_closed THEN PtyMaybeFree([r EXCEPT !.closed = TRUE])
                                    ELSE r)

PtyNext ==
  \E p \in Ptys :
    \/ PtySpawn(p) \/ PtyWrite(p) \/ PtyPause(p) \/ PtyResume(p) \/ PtyKill(p)
    \/ PtyClose(p) \/ PtySetOnExit(p) \/ PtyDrop(p)
    \/ PtyLeaves(p) \/ PtyChildExits(p)
    \/ PtyWriteCb(p) \/ PtySigchldCb(p) \/ PtyReadEof(p) \/ PtyReapEnd(p)
    \/ PtyPipeCloseCb(p) \/ PtySigchldCloseCb(p)

PtyAlive(p) ==
  \/ pty[p].pipe = "closing" \/ pty[p].sig = "closing"
  \/ pty[p].reading = "on" \/ pty[p].writing
  \/ pty[p].sig = "open" /\ ~pty[p].exited

(* qn_pty_cleanup.  *)
PtyCleanedUp ==
  [p \in Ptys |->
     IF pty[p].mem = "live" /\ pty[p].this_val
     THEN Released([pty[p] EXCEPT !.this_val = FALSE], PtyFinalizer)
     ELSE pty[p]]

PtyCollected == [p \in Ptys |-> Collected(pty[p], PtyFinalizer)]

ptyVars == <<phase, cb, pty>>

(* libuv goes on calling the callbacks that are due, and on_exit returns.  *)
PtyFairness ==
  \A p \in Ptys :
    /\ WF_ptyVars(PtySigchldCb(p)) /\ WF_ptyVars(PtyReadEof(p))
    /\ WF_ptyVars(PtyReapEnd(p)) /\ WF_ptyVars(PtyWriteCb(p))
    /\ WF_ptyVars(PtyPipeCloseCb(p)) /\ WF_ptyVars(PtySigchldCloseCb(p))

-----------------------------------------------------------------------------
(* Properties.                                                               *)

(* The struct outlives both of its handles, its object, the writes in flight *)
(* and the callback that is calling on_exit.                                 *)
PtyFreedWhenAllDone ==
  \A p \in Ptys : pty[p].mem = "freed" =>
    /\ pty[p].pipe = "closed" /\ pty[p].sig = "closed"
    /\ pty[p].obj = "gone" /\ ~pty[p].writing /\ cb # p

(* on_exit is called at most once although two callbacks look for the end of *)
(* the child, and only when the child was reaped.                            *)
PtyExitOnce ==
  \A p \in Ptys : pty[p].exits <= 1 /\ (pty[p].exited <=> pty[p].child = "reaped")

(* Once the child has ended and the terminal is empty, the end is noticed,   *)
(* with the signal lost or not and whichever of the two events comes first,  *)
(* unless the program closes or pauses the terminal.                         *)
PtyEndNoticed ==
  \A p \in Ptys :
    (pty[p].child = "zombie" /\ pty[p].slave = {})
      ~> (pty[p].exited \/ pty[p].reading = "paused" \/ pty[p].sig # "open")
=============================================================================
