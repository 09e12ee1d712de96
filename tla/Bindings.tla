------------------------------ MODULE Bindings ------------------------------
(***************************************************************************)
(* The bindings that wrap a resource of their own: descriptors, file        *)
(* streams, sandboxed threads, zlib streams and SQLite connections.  They   *)
(* share nothing but the runtime, so a behaviour uses one of them, fixed by *)
(* the variable binding.                                                    *)
(***************************************************************************)
EXTENDS FsRequests, ReadStream, SandboxedWorker, Zlib, Sqlite

VARIABLE binding

vars == <<binding, fsVars, rsVars, sbVars, zs, sqVars>>

BindingKinds == {"fs", "readStream", "sandbox", "zlib", "sqlite"}

Init ==
  /\ binding \in BindingKinds
  /\ FsInit /\ RsInit /\ SbInit /\ ZInit /\ SqInit

Next ==
  /\ \/ binding = "fs" /\ FsNext /\ UNCHANGED <<rsVars, sbVars, zs, sqVars>>
     \/ binding = "readStream" /\ RsNext /\ UNCHANGED <<fsVars, sbVars, zs, sqVars>>
     \/ binding = "sandbox" /\ SbNext /\ UNCHANGED <<fsVars, rsVars, zs, sqVars>>
     \/ binding = "zlib" /\ ZNext /\ UNCHANGED <<fsVars, rsVars, sbVars, sqVars>>
     \/ binding = "sqlite" /\ SqNext /\ UNCHANGED <<fsVars, rsVars, sbVars, zs>>
  /\ UNCHANGED binding

Fairness == FsFairness /\ SbFairness /\ ZFairness /\ SqFairness

Spec == Init /\ [][Next]_vars /\ Fairness

(* Whoever waits for a binding is answered: the promise of a request, the    *)
(* messages to a sandbox, the consumer of a zlib stream.                     *)
CallsAreAnswered == RequestSettles /\ SandboxTakesMessages /\ ZlibStreamEnds

(* What the native libraries hold for a program is given back when it is     *)
(* done with it, errors and destroy() included.                              *)
NativeIsReleased == EngineIsReleased /\ ConnectionIsFreed
=============================================================================
