------------------------------- MODULE MCCards -------------------------------
(* Instances of Cards for TLC. *)
EXTENDS Cards, TLC

CardSymmetry ==
    Permutations(PowerUp) \cup Permutations(Weapon) \cup Permutations(Player)
=============================================================================
