----------------------------- MODULE MCTurnDrain -----------------------------
(* TurnDrain on small sets of turns and leases. *)
EXTENDS TurnDrain, TLC

\* Turns and drain tasks are interchangeable.
Symmetry == Permutations(Turns) \cup Permutations(Leases)
=============================================================================
