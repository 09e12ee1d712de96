------------------------------ MODULE Runtime ------------------------------
(***************************************************************************)
(* What the handle modules share: the life of the runtime that owns them,   *)
(* and the rules of libuv and of QuickJS that every handle struct lives by. *)
(* A struct has two owners.  libuv gives it up with a close callback, the   *)
(* garbage collector with a finalizer, and this_val, a counted reference    *)
(* from the struct to its own object, keeps the second from coming too      *)
(* early.                                                                   *)
(***************************************************************************)
EXTENDS Naturals

VARIABLES
  phase,  \* of qn_vm_loop and qn_vm_free
  cb      \* the handle whose callback is calling JavaScript, or NoHandle

Phases == {"run", "freeing", "done"}
NoHandle == "none"

(* JavaScript runs inside some callback or job; libuv calls a callback only  *)
(* when the one before has returned.                                         *)
Running == phase = "run"
Polling == phase \in {"run", "freeing"} /\ cb = NoHandle

HandleStates == {"none", "open", "closing", "closed"}

(* uv_close, asked for only when the handle is not closing.  *)
UvClose(r) == IF r.uv = "open" THEN [r EXCEPT !.uv = "closing"] ELSE r

(* Nobody counts a reference to the object of r.  *)
Unheld(r) == r.obj = "alive" /\ ~r.ref /\ ~r.this_val

(* A counted reference to the object of r was given back: the finalizer runs *)
(* at once when it was the last.                                             *)
Released(r, Finalizer(_)) == IF Unheld(r) THEN Finalizer(r) ELSE r

(* JavaScript loses its last reference to the object of r.  *)
Lost(r, Finalizer(_)) == Released([r EXCEPT !.ref = FALSE], Finalizer)

(* JS_FreeRuntime finalizes what no C reference holds.  *)
Collected(r, Finalizer(_)) == Released([r EXCEPT !.ref = FALSE], Finalizer)
=============================================================================
