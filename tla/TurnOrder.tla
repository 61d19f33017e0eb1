------------------------------ MODULE TurnOrder ------------------------------
(***************************************************************************)
(* What the players are promised about the order of play: turns go round,  *)
(* the final frenzy begins between two turns and gives everybody one more, *)
(* and the game ends after the last of them, or between two turns when too *)
(* few players are left.  TurnFlow implements it.                          *)
(***************************************************************************)
EXTENDS Integers

CONSTANT N  \* the number of players, who play in the order 1..N

VARIABLES
    turn,  \* whose turn it is, 0 at first
    left,  \* turns left in the frenzy, Endless before it
    short, \* too few players are on line
    over

vars == <<turn, left, short, over>>

Endless == N + 1

TypeOK ==
    /\ turn \in 0..N
    /\ left \in 0..Endless
    /\ short \in BOOLEAN /\ over \in BOOLEAN

Init ==
    /\ turn = 0 /\ left = Endless
    /\ short \in BOOLEAN /\ over = FALSE

StartTurn ==
    /\ ~over
    /\ left > 0
    /\ turn' = IF turn = N THEN 1 ELSE turn + 1
    /\ left' = IF left = Endless THEN Endless ELSE left - 1
    /\ UNCHANGED <<short, over>>

\* A turn has ended: the frenzy may begin, the game may end.
EndTurn ==
    /\ ~over
    /\ turn # 0
    /\ left' = left \/ (left = Endless /\ left' = N)
    /\ over' => short \/ left = 0
    /\ over' \in BOOLEAN
    /\ UNCHANGED <<turn, short>>

\* Players leave and come back.
ComeAndGo ==
    /\ short' \in BOOLEAN
    /\ UNCHANGED <<turn, left, over>>

Next == StartTurn \/ EndTurn \/ ComeAndGo

Spec == Init /\ [][Next]_vars
=============================================================================
