------------------------------ MODULE MCSession ------------------------------
(* Instances of Session for TLC. *)
EXTENDS Session, TLC

CONSTANTS a, b, c, green, blue, pink

\* Two clients that may ask for the same colour, and three that need not.
MCWishes == (a :> {green} @@ b :> {green, blue} @@ c :> {pink})
=============================================================================
