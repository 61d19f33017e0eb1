------------------------------ MODULE MCActions ------------------------------
(* Instances of Actions for TLC: two colours, two weapons, a main action and
   one that can be added to it, and the actions of a player in the frenzy. *)
EXTENDS Actions, TLC

CONSTANTS red, blue, newton, scope, grenade, rocket, shotgun

MCColour == {red, blue}
MCCard == {newton, scope, grenade}
MCColourOf == newton :> red @@ scope :> blue @@ grenade :> red
MCWeapon == {rocket, shotgun}
MCReloadCost == rocket :> [c \in MCColour |-> 1]
                @@ shotgun :> (red :> 2 @@ blue :> 0)
MCMode == {"main", "jump", "blast"}
MCModeCost == [m \in MCMode |-> [c \in MCColour |->
                 IF <<m, c>> \in {<<"jump", red>>, <<"blast", blue>>} THEN 1 ELSE 0]]
MCNeeds == [m \in MCMode |-> IF m = "blast" THEN {"main"} ELSE {}]
MCExcludes == [m \in MCMode |-> {m}]
MCTemplate == {<<"move">>, <<"fire">>, <<"move", "reload", "fire">>}
MCScope == {scope}
MCUsable == {newton}
=============================================================================
