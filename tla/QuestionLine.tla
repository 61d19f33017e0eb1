---------------------------- MODULE QuestionLine ----------------------------
(***************************************************************************)
(* What a SlaveController promises MainController about the questions it   *)
(* puts to its player: they are put one at a time, each is settled exactly *)
(* once, by an answer, by its deadline, or at once because the player is   *)
(* offline, and no question is put before the previous one is settled.     *)
(***************************************************************************)
EXTENDS Naturals

CONSTANT MaxMessage

VARIABLES asked,     \* the last question put
          open,      \* the question waiting to be settled, 0 if none
          settled    \* the questions settled so far

vars == <<asked, open, settled>>

Init == asked = 0 /\ open = 0 /\ settled = {}

Put ==
    /\ open = 0 /\ asked < MaxMessage
    /\ asked' = asked + 1
    /\ open' = asked + 1
    /\ UNCHANGED settled

PutOffline ==
    /\ open = 0 /\ asked < MaxMessage
    /\ asked' = asked + 1
    /\ settled' = settled \cup {asked + 1}
    /\ UNCHANGED open

Settle ==
    /\ open # 0
    /\ settled' = settled \cup {open}
    /\ open' = 0
    /\ UNCHANGED asked

Next == Put \/ PutOffline \/ Settle

Spec == Init /\ [][Next]_vars
=============================================================================
