--------------------------- MODULE MCMessageSlot ---------------------------
(* Instances of MessageSlot for TLC. *)
EXTENDS MessageSlot, TLC

HandlerSymmetry == Permutations(Handler)
=============================================================================
