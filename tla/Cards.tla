-------------------------------- MODULE Cards --------------------------------
(***************************************************************************)
(* Where the cards are: in the decks, on the board, or with the players.   *)
(* There is a deck of weapons, one of ammo cards and one of powerups; the  *)
(* three are kept in one record, and told apart by the kind of the card.   *)
(*                                                                         *)
(* Colours and cubes are left out: a powerup that is used, and one that is *)
(* spent on a payment, is discarded, and any weapon can be paid for.  The  *)
(* order of the turns is TurnFlow's; here anybody who is on the map may be *)
(* next.                                                                   *)
(***************************************************************************)
EXTENDS Integers, FiniteSets

CONSTANTS PowerUp, AmmoCard, Weapon,  \* the cards
          Bonus,      \* the ammo cards with a powerup on them
          Player,
          NoOne,      \* "nobody"
          Tile,       \* the tiles of the map
          Spawn,      \* those that are spawn points
          SpawnSlots, \* weapons on a spawn point
          MaxPup,     \* Actor.MAX_PUP
          MaxWeapon   \* Actor.MAX_WEAPON

ASSUME CardsAssumption ==
    /\ IsFiniteSet(PowerUp) /\ IsFiniteSet(AmmoCard) /\ IsFiniteSet(Weapon)
    /\ PowerUp \cap AmmoCard = {}
    /\ PowerUp \cap Weapon = {}
    /\ AmmoCard \cap Weapon = {}
    /\ Bonus \subseteq AmmoCard
    /\ NoOne \notin Player
    /\ Spawn \subseteq Tile
    /\ SpawnSlots \in Nat /\ MaxPup \in Nat \ {0} /\ MaxWeapon \in Nat \ {0}

\* The decks are large enough: a powerup for every place in a hand, and one more;
\* an ammo card for every tile that gets one (24 powerups for five players with
\* three each, 36 ammo cards for nine tiles).
ASSUME EnoughCards ==
    /\ IsFiniteSet(Player) /\ IsFiniteSet(Tile)
    /\ Cardinality(PowerUp) > MaxPup * Cardinality(Player)
    /\ Cardinality(AmmoCard) >= Cardinality(Tile \ Spawn)

Card == PowerUp \cup AmmoCard \cup Weapon

VARIABLES
    deck,      \* the three decks: pile to draw from, stash of discarded, picked
    tile,      \* the cards on each tile
    hand,      \* Actor.powerUps
    loaded,    \* Actor.loadedWeapon
    unloaded,  \* Actor.unloadedWeapon
    turn,      \* whose turn it is
    refilling, \* the tiles that refill has yet to look at
    dead,      \* who must still respawn before the next turn
    placed,    \* who has been on the map
    spawning,  \* who is about to choose where he spawns
    due        \* the powerups he has yet to draw

course == <<turn, refilling, dead, placed, spawning, due>>
vars == <<deck, tile, hand, loaded, unloaded, course>>

TypeOK ==
    /\ deck \in [pile : SUBSET Card, stash : SUBSET Card, picked : SUBSET Card]
    /\ tile \in [Tile -> SUBSET (AmmoCard \cup Weapon)]
    /\ hand \in [Player -> SUBSET PowerUp]
    /\ loaded \in [Player -> SUBSET Weapon]
    /\ unloaded \in [Player -> SUBSET Weapon]
    /\ turn \in Player \cup {NoOne}
    /\ refilling \subseteq Tile
    /\ dead \subseteq Player /\ placed \subseteq Player
    /\ spawning \in Player \cup {NoOne}
    /\ due \in 0..2

\* The map is filled as it is built, and nobody is on it.
Init ==
    /\ deck = [pile |-> Card, stash |-> {}, picked |-> {}]
    /\ tile = [t \in Tile |-> {}]
    /\ hand = [p \in Player |-> {}]
    /\ loaded = [p \in Player |-> {}]
    /\ unloaded = [p \in Player |-> {}]
    /\ turn = NoOne
    /\ refilling = Tile
    /\ dead = {} /\ placed = {}
    /\ spawning = NoOne /\ due = 0

-----------------------------------------------------------------------------
(* Deck *)

\* The cards of a kind that can still be drawn.
Remaining(d, kind) == (d.pile \cup d.stash) \cap kind

\* When the pile is empty, the discarded cards, shuffled, are the new pile.
Restacked(d, kind) ==
    IF d.pile \cap kind # {} THEN d
    ELSE [d EXCEPT !.pile = @ \cup (d.stash \cap kind), !.stash = @ \ kind]

\* Deck.next: the cards that may be on top, and the deck without one of them.
Top(d, kind) == Restacked(d, kind).pile \cap kind
Drawn(d, kind, c) == [Restacked(d, kind) EXCEPT !.pile = @ \ {c}, !.picked = @ \cup {c}]

\* A card the deck has not handed out would be refused, which CardsConserved rules
\* out.
Discarded(d, c) == [d EXCEPT !.picked = @ \ {c}, !.stash = @ \cup {c}]

-----------------------------------------------------------------------------
(* The map is refilled *)

Slots(t) == IF t \in Spawn THEN SpawnSlots ELSE 1
Kind(t) == IF t \in Spawn THEN Weapon ELSE AmmoCard

\* One card of GameMap.refill and Deck.take.
Refill(t) ==
    /\ t \in refilling
    /\ Cardinality(tile[t]) < Slots(t)
    /\ \E c \in Top(deck, Kind(t)) :
          /\ deck' = Drawn(deck, Kind(t), c)
          /\ tile' = [tile EXCEPT ![t] = @ \cup {c}]
    /\ UNCHANGED <<hand, loaded, unloaded, course>>

\* The tile is full, or the deck is empty.
Refilled(t) ==
    /\ t \in refilling
    /\ Cardinality(tile[t]) >= Slots(t) \/ Remaining(deck, Kind(t)) = {}
    /\ refilling' = refilling \ {t}
    /\ UNCHANGED <<deck, tile, hand, loaded, unloaded, turn, dead, placed, spawning, due>>

-----------------------------------------------------------------------------
(* Spawning *)

BetweenTurns == turn = NoOne /\ refilling = {} /\ spawning = NoOne

\* startRespawn, for one of the dead after another, ...
StartRespawn(p) ==
    /\ BetweenTurns
    /\ p \in dead
    /\ dead' = dead \ {p}
    /\ spawning' = p /\ due' = 1
    /\ UNCHANGED <<deck, tile, hand, loaded, unloaded, turn, refilling, placed>>

\* Slip: a card too many before the first turn.
FirstSpawnThree(p) ==
    /\ BetweenTurns /\ dead = {}
    /\ p \in Player \ placed
    /\ spawning' = p /\ due' = 3
    /\ UNCHANGED <<deck, tile, hand, loaded, unloaded, turn, refilling, dead, placed>>

\* ... or for a player before his first turn.
FirstSpawn(p) ==
    /\ BetweenTurns /\ dead = {}
    /\ p \in Player \ placed
    /\ spawning' = p /\ due' = 2
    /\ UNCHANGED <<deck, tile, hand, loaded, unloaded, turn, refilling, dead, placed>>

\* One card of drawPowerUpRaw.
DrawPowerUp ==
    /\ due > 0
    /\ \E c \in Top(deck, PowerUp) :
          /\ deck' = Drawn(deck, PowerUp, c)
          /\ hand' = [hand EXCEPT ![spawning] = @ \cup {c}]
    /\ due' = due - 1
    /\ UNCHANGED <<tile, loaded, unloaded, turn, refilling, dead, placed, spawning>>

\* Slip: the powerup that names the spawn point stays in the hand.
ChooseSpawnKeeps ==
    /\ spawning # NoOne /\ due = 0
    /\ placed' = placed \cup {spawning}
    /\ spawning' = NoOne
    /\ UNCHANGED <<deck, tile, hand, loaded, unloaded, turn, refilling, dead, due>>

\* Actor.respawn: the powerup that names the spawn point is discarded.
ChooseSpawn ==
    /\ spawning # NoOne /\ due = 0
    /\ \E c \in hand[spawning] :
          /\ hand' = [hand EXCEPT ![spawning] = @ \ {c}]
          /\ deck' = Discarded(deck, c)
    /\ placed' = placed \cup {spawning}
    /\ spawning' = NoOne
    /\ UNCHANGED <<tile, loaded, unloaded, turn, refilling, dead, due>>

-----------------------------------------------------------------------------
(* A turn *)

StartTurn(p) ==
    /\ BetweenTurns /\ dead = {}
    /\ p \in placed
    /\ turn' = p
    /\ UNCHANGED <<deck, tile, hand, loaded, unloaded, refilling, dead, placed, spawning, due>>

\* Slip: a full hand draws all the same.
GrabAmmoGreedy(p, t) ==
    /\ turn = p
    /\ \E c \in tile[t] \cap AmmoCard :
          /\ tile' = [tile EXCEPT ![t] = @ \ {c}]
          /\ IF c \in Bonus
             THEN \E d \in Top(deck, PowerUp) :
                     /\ deck' = Discarded(Drawn(deck, PowerUp, d), c)
                     /\ hand' = [hand EXCEPT ![p] = @ \cup {d}]
             ELSE deck' = Discarded(deck, c) /\ UNCHANGED hand
    /\ UNCHANGED <<loaded, unloaded, course>>

\* Actor.pickUp(AmmoCard): a powerup is drawn if there is one on the card and
\* room in the hand; then the card is discarded.
GrabAmmo(p, t) ==
    /\ turn = p
    /\ \E c \in tile[t] \cap AmmoCard :
          /\ tile' = [tile EXCEPT ![t] = @ \ {c}]
          /\ IF c \in Bonus /\ Cardinality(hand[p]) < MaxPup
             THEN \E d \in Top(deck, PowerUp) :
                     /\ deck' = Discarded(Drawn(deck, PowerUp, d), c)
                     /\ hand' = [hand EXCEPT ![p] = @ \cup {d}]
             ELSE deck' = Discarded(deck, c) /\ UNCHANGED hand
    /\ UNCHANGED <<loaded, unloaded, course>>

\* Actor.pickUp(Weapon) with room in the arsenal, ...
GrabWeapon(p, t) ==
    /\ turn = p
    /\ Cardinality(loaded[p] \cup unloaded[p]) < MaxWeapon
    /\ \E w \in tile[t] \cap Weapon :
          /\ tile' = [tile EXCEPT ![t] = @ \ {w}]
          /\ loaded' = [loaded EXCEPT ![p] = @ \cup {w}]
    /\ UNCHANGED <<deck, hand, unloaded, course>>

\* Slip: the weapon that is dropped does not come to lie on the tile.
SwapWeaponLost(p, t) ==
    /\ turn = p
    /\ Cardinality(loaded[p] \cup unloaded[p]) >= MaxWeapon
    /\ \E w \in tile[t] \cap Weapon, drop \in loaded[p] \cup unloaded[p] :
          /\ tile' = [tile EXCEPT ![t] = @ \ {w}]
          /\ loaded' = [loaded EXCEPT ![p] = (@ \ {drop}) \cup {w}]
          /\ unloaded' = [unloaded EXCEPT ![p] = @ \ {drop}]
    /\ UNCHANGED <<deck, hand, course>>

\* ... and without: one of the player's weapons is left on the tile.
SwapWeapon(p, t) ==
    /\ turn = p
    /\ Cardinality(loaded[p] \cup unloaded[p]) >= MaxWeapon
    /\ \E w \in tile[t] \cap Weapon, drop \in loaded[p] \cup unloaded[p] :
          /\ drop \in deck.picked
          /\ tile' = [tile EXCEPT ![t] = (@ \cup {drop}) \ {w}]
          /\ loaded' = [loaded EXCEPT ![p] = (@ \ {drop}) \cup {w}]
          /\ unloaded' = [unloaded EXCEPT ![p] = @ \ {drop}]
    /\ UNCHANGED <<deck, hand, course>>

\* useWeapon
Fire(p) ==
    /\ turn = p
    /\ \E w \in loaded[p] :
          /\ loaded' = [loaded EXCEPT ![p] = @ \ {w}]
          /\ unloaded' = [unloaded EXCEPT ![p] = @ \cup {w}]
    /\ UNCHANGED <<deck, tile, hand, course>>

\* reloadWeapon
Reload(p) ==
    /\ turn = p
    /\ \E w \in unloaded[p] :
          /\ unloaded' = [unloaded EXCEPT ![p] = @ \ {w}]
          /\ loaded' = [loaded EXCEPT ![p] = @ \cup {w}]
    /\ UNCHANGED <<deck, tile, hand, course>>

\* discardPowerUp: a powerup is used or spent on a payment, or in answer to a hit
\* in somebody else's turn.
UsePowerUp(p) ==
    /\ turn # NoOne
    /\ \E c \in hand[p] :
          /\ hand' = [hand EXCEPT ![p] = @ \ {c}]
          /\ deck' = Discarded(deck, c)
    /\ UNCHANGED <<tile, loaded, unloaded, course>>

\* Slip: only the spawn points are refilled.
EndTurnSpawns(p) ==
    /\ turn = p
    /\ turn' = NoOne
    /\ refilling' = Spawn
    /\ dead' \in SUBSET placed
    /\ UNCHANGED <<deck, tile, hand, loaded, unloaded, placed, spawning, due>>

\* endTurn: the map is refilled, then the dead are found.
EndTurn(p) ==
    /\ turn = p
    /\ turn' = NoOne
    /\ refilling' = Tile
    /\ dead' \in SUBSET placed
    /\ UNCHANGED <<deck, tile, hand, loaded, unloaded, placed, spawning, due>>

Next ==
    \/ \E t \in Tile : Refill(t) \/ Refilled(t)
    \/ DrawPowerUp \/ ChooseSpawn
    \/ \E p \in Player :
          \/ StartRespawn(p) \/ FirstSpawn(p) \/ StartTurn(p)
          \/ Fire(p) \/ Reload(p) \/ UsePowerUp(p) \/ EndTurn(p)
          \/ \E t \in Tile : GrabAmmo(p, t) \/ GrabWeapon(p, t) \/ SwapWeapon(p, t)

Spec == Init /\ [][Next]_vars

-----------------------------------------------------------------------------
(* Properties *)

\* The cards of a player, and those in somebody's hands or on the map.
Owned(p) == hand[p] \cup loaded[p] \cup unloaded[p]
InPlay == {c \in Card : \/ \E p \in Player : c \in Owned(p)
                        \/ \E t \in Tile : c \in tile[t]}

\* No card is lost or doubled, whatever is drawn, discarded, reshuffled, dropped
\* or refilled: a card is in its deck or in play, in one place, and the deck
\* knows which, so that no discard is refused.
CardsConserved ==
    /\ deck.pile \cap deck.stash = {}
    /\ deck.pile \cup deck.stash = Card \ deck.picked
    /\ deck.picked = InPlay
    /\ \A p, q \in Player : p # q => Owned(p) \cap Owned(q) = {}
    /\ \A p \in Player : loaded[p] \cap unloaded[p] = {}
    /\ \A t, u \in Tile : t # u => tile[t] \cap tile[u] = {}
    /\ \A p \in Player, t \in Tile : Owned(p) \cap tile[t] = {}

\* The limits of the game hold although drawPowerUpRaw and respawn do not look at
\* them: a hand has one powerup more than allowed at most until the spawn point is
\* chosen.  A tile never has more cards than refill expects, which would ask
\* the deck for a negative number.
LimitsKept ==
    /\ \A p \in Player :
          /\ Cardinality(loaded[p] \cup unloaded[p]) <= MaxWeapon
          /\ spawning # p => Cardinality(hand[p]) <= MaxPup
          /\ spawning = p => Cardinality(hand[p]) + due <= MaxPup + 1
    /\ \A t \in Tile : Cardinality(tile[t]) <= Slots(t)

\* The decks are large enough: whenever a powerup may have to be drawn there is
\* one, in the pile or the stash.  Otherwise drawing throws, in the thread that the
\* game hangs on.
DrawSucceeds == turn # NoOne \/ due > 0 => Remaining(deck, PowerUp) # {}

\* Everybody starts his turn on a full map, weapons that have run out excepted,
\* however many turns and respawns went before.
Restocked ==
    BetweenTurns =>
        \A t \in Tile : \/ Cardinality(tile[t]) = Slots(t)
                        \/ t \in Spawn /\ Remaining(deck, Weapon) = {}
=============================================================================
