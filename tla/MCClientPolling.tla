--------------------------- MODULE MCClientPolling ---------------------------
(* A client and two questions: the spawn point, and an action with a target. *)
EXTENDS ClientPolling

MCDepth == <<1, 2>>

\* The choice of the spawn point offers powerups.
MCPowerUpChoices == {<<1, 1>>}
=============================================================================
