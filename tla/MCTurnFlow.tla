----------------------------- MODULE MCTurnFlow -----------------------------
(* Instances of TurnFlow for TLC. *)
EXTENDS TurnFlow, TLC

ThreadSymmetry == Permutations(Thread)
=============================================================================
