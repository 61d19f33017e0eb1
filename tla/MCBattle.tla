------------------------------ MODULE MCBattle ------------------------------
(* Instances of Battle for TLC. *)
EXTENDS Battle, TLC

AmountsOf == [normal |-> {1, 2}, domination |-> {2}]
MarksOf == [normal |-> {1}, domination |-> {}]
ActsOf == [normal |-> 2, domination |-> 1]
TurnsOf == [normal |-> 3, domination |-> 3]
PointSymmetry == Permutations(Points)
=============================================================================
