------------------------------ MODULE Handles ------------------------------
(***************************************************************************)
(* The handle modules in one runtime: one loop, one callback at a time, and *)
(* the shutdown of qn_vm_free, which calls every registered cleanup         *)
(* function, lets the close callbacks run and frees the loop before         *)
(* JS_FreeRuntime finalizes what is left.  The kinds of handle share        *)
(* nothing else, so a behaviour uses one kind, fixed by the variable kind;  *)
(* spawnSync blocks the runtime and runs its child on a loop of its own,    *)
(* and spawn_setsid of the native module has no handle at all.              *)
(***************************************************************************)
EXTENDS ProcessHandle, DgramHandle, PtyHandle, WatchHandles, SpawnSync, SpawnSetsid

VARIABLE kind

vars == <<phase, cb, kind, proc, dg, pty, fse, sh, ssVars, setsidVars>>

Kinds == {"process", "dgram", "pty", "watch", "spawnSync", "setsid"}

Init ==
  /\ phase = "run" /\ cb = NoHandle
  /\ kind \in Kinds
  /\ ProcInit /\ DgInit /\ PtyInit /\ WatchInit /\ SsInit
  /\ SetsidInit

LoopAlive ==
  \/ \E p \in Processes : ProcAlive(p)
  \/ \E d \in Dgrams : DgAlive(d)
  \/ \E p \in Ptys : PtyAlive(p)
  \/ \E f \in FsEvents : FseAlive(f)
  \/ \E s \in Signals : ShAlive(s)

(* qn_vm_loop has returned; qn_vm_free runs the cleanup functions.  *)
CleanUp ==
  /\ phase = "run" /\ cb = NoHandle
  /\ at \in {"idle", "returned"} /\ ~LoopAlive
  /\ phase' = "freeing"
  /\ proc' = ProcCleanedUp /\ dg' = DgCleanedUp /\ pty' = PtyCleanedUp
  /\ UNCHANGED <<cb, kind, fse, sh, ssVars, setsidVars>>

(* uv_run(UV_RUN_NOWAIT) has called the close callbacks; the loop is freed,  *)
(* and then the runtime.                                                     *)
FreeRuntime ==
  /\ phase = "freeing" /\ cb = NoHandle
  /\ ~LoopAlive
  /\ phase' = "done"
  /\ proc' = ProcCollected /\ dg' = DgCollected /\ pty' = PtyCollected
  /\ fse' = FseCollected /\ sh' = ShCollected
  /\ UNCHANGED <<cb, kind, ssVars, setsidVars>>

Ended == phase = "done" /\ UNCHANGED vars

Next ==
  \/ kind = "process" /\ ProcNext /\ UNCHANGED <<kind, dg, pty, fse, sh, ssVars, setsidVars>>
  \/ kind = "dgram" /\ DgNext /\ UNCHANGED <<kind, proc, pty, fse, sh, ssVars, setsidVars>>
  \/ kind = "pty" /\ PtyNext /\ UNCHANGED <<kind, proc, dg, fse, sh, ssVars, setsidVars>>
  \/ kind = "watch" /\ WatchNext /\ UNCHANGED <<kind, proc, dg, pty, ssVars, setsidVars>>
  \/ /\ kind = "spawnSync" /\ phase = "run" /\ SsNext
     /\ UNCHANGED <<phase, cb, kind, proc, dg, pty, fse, sh, setsidVars>>
  \/ /\ kind = "setsid" /\ phase = "run" /\ SetsidNext
     /\ UNCHANGED <<phase, cb, kind, proc, dg, pty, fse, sh, ssVars>>
  \/ CleanUp \/ FreeRuntime \/ Ended

Fairness == ProcFairness /\ DgFairness /\ PtyFairness /\ WatchFairness /\ SsFairness

Spec == Init /\ [][Next]_vars /\ Fairness

(* Every struct keeps to its kind's fields, and the runtime to its phases.  *)
TypeOK ==
  /\ phase \in Phases
  /\ cb \in {NoHandle} \union Processes \union Dgrams \union Ptys
            \union FsEvents \union Signals
  /\ kind \in Kinds
  /\ proc \in [Processes -> ProcRecord]
  /\ \A d \in Dgrams : DOMAIN dg[d] = DOMAIN NoDgram
  /\ \A p \in Ptys : DOMAIN pty[p] = DOMAIN NoPty

(* Every handle struct outlives both of its owners, libuv and the collector, *)
(* and the callback that is running on it, in the shutdown of qn_vm_free     *)
(* too; and the owners find what they come for.                              *)
StructsOutliveOwners ==
  /\ TypeOK
  /\ ProcFreedWhenBothDone /\ ProcPinnedUntilExit
  /\ DgFreedWhenBothDone /\ PtyFreedWhenAllDone
  /\ FseFreedWhenBothDone /\ ShSignalFindsHandler

(* What the program is told has happened, and happened once: the end of a    *)
(* terminal's child, the departure of a datagram.                            *)
ReportsAreTrue == PtyExitOnce /\ DgPromiseTellsTruth

(* A struct that the program has forgotten is freed: of a child that ended,  *)
(* of a watcher that is closing or never started.                            *)
ForgottenIsFreed == ProcForgottenIsFreed /\ FseUnreachableIsFreed

(* What was begun comes to an end that is reported: a send, the life of a    *)
(* terminal's child, a spawnSync with a timeout.                             *)
EndsAreReported == DgSendAnswered /\ PtyEndNoticed /\ TimeoutReturns
=============================================================================
