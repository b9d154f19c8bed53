----------------------------- MODULE SupervisionMC -----------------------------
(* Slots and listener tasks are interchangeable. *)
EXTENDS Supervision, TLC

Symmetry == Permutations(Coroutines) \cup Permutations(Listeners)
=============================================================================
