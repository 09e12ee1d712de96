------------------------------ MODULE MCTimers ------------------------------
(* Timers with a handful of structs; the ids either never wrap or wrap soon.  *)
EXTENDS Timers, TLC

Perms == Permutations(Slots)
=============================================================================
