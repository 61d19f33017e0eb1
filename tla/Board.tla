-------------------------------- MODULE Board --------------------------------
(***************************************************************************)
(* The map: tiles, rooms, doors and walls, and the questions the Sandbox   *)
(* and the targets ask of it (board/GameMap, Sandbox, Tile, ParserMap).    *)
(* A tile is its index in ParserMap's lists: row by row, Length to a row.  *)
(***************************************************************************)
EXTENDS Integers, Functions

CONSTANTS
    Length, Width,  \* of a row, and the number of rows
    Excluded,       \* the indices that are no tiles
    Room,           \* the room of each index
    Door            \* the pairs of tiles with a door between them

Tile == (0..Length * Width - 1) \ Excluded

ASSUME BoardAssumption ==
    /\ Length \in Nat \ {0} /\ Width \in Nat \ {0}
    /\ \A pair \in Door : pair \subseteq Tile

Diff == [UP |-> -Length, LEFT |-> -1, DOWN |-> Length, RIGHT |-> 1]

Direction == DOMAIN Diff

\* Slip: the holes of the map are not left out.
NeighborsInHoles(t, logical) ==
    LET open == {d \in Direction :
                    LET u == t + Diff[d] IN
                    u \in 0..Length * Width - 1 /\ (logical => Room[t] = Room[u] \/ {t, u} \in Door)}
    IN [d \in open |-> t + Diff[d]]

\* Only the index is checked: the tile to the right of a row's last one is the
\* first one of the next row.
Neighbors(t, logical) ==
    LET open == {d \in Direction :
                    LET u == t + Diff[d] IN
                    u \in Tile /\ (logical => Room[t] = Room[u] \/ {t, u} \in Door)}
    IN [d \in open |-> t + Diff[d]]

Near(t, logical) == Range(Neighbors(t, logical))

\* No room of the maps falls into parts that are not side by side.
ASSUME RoomsConnected ==
    \A s \in Tile :
        LET room == {t \in Tile : Room[t] = Room[s]} IN
        \A A \in SUBSET room :
            A # {} /\ A # room => \E t \in A : Near(t, TRUE) \cap (room \ A) # {}

\* Sandbox.circle: what is at most radius steps away.  Only the tiles found in
\* the last round are looked at again.
Circle(centre, radius, logical) ==
    LET disc[r \in -1..radius] ==
            IF r = -1 THEN {}
            ELSE IF r = 0 THEN {centre}
            ELSE disc[r - 1] \cup UNION {Near(t, logical) : t \in disc[r - 1] \ disc[r - 2]}
    IN IF radius < 0 THEN {} ELSE disc[radius]

InRoom(r) == {t \in Tile : Room[t] = r}

\* Slip: the room of the observer is looked up instead of his neighbours'.
TilesSeenInside(source) == InRoom(Room[source])

\* Sandbox.tilesSeen: the rooms of the tiles next to the source, but its own
\* only if there is another tile of it next to the source.
TilesSeen(source) == UNION {InRoom(Room[t]) : t \in Near(source, TRUE)}

\* GameMap.getVisible, which only the tests call.
Visible(tile) == UNION {InRoom(Room[t]) : t \in Near(tile, TRUE) \cup {tile}}

\* DirectionTarget: the tiles from origin on, as far as there is a next one.
Line(origin, d, logical) ==
    {origin + n * Diff[d] :
        n \in {m \in 0..Length * Width :
                  \A i \in 0..m - 1 : d \in DOMAIN Neighbors(origin + i * Diff[d], logical)}}
=============================================================================
