----------------------------- MODULE CardsProofs -----------------------------
(***************************************************************************)
(* Proofs about Cards, for every number of cards, players and tiles.       *)
(***************************************************************************)
EXTENDS Cards, Sums, FiniteSetTheorems, TLAPS

-----------------------------------------------------------------------------
(* Type correctness *)

\* Who draws is about to spawn; nobody plays a turn, or has died, without having
\* been on the map; and who has not been there has no powerups unless he is about
\* to choose his first spawn point.
Course ==
    /\ due > 0 => spawning # NoOne
    /\ turn # NoOne => spawning = NoOne /\ turn \in placed
    /\ dead \subseteq placed
    /\ \A p \in Player \ placed : p # spawning => hand[p] = {}

TypeInv == TypeOK /\ Course

Decks == [pile : SUBSET Card, stash : SUBSET Card, picked : SUBSET Card]

\* A card on top of a deck is a card of its kind that could be drawn.
LEMMA TopRemains ==
    ASSUME NEW d \in Decks, NEW kind, NEW c \in Top(d, kind)
    PROVE  c \in Remaining(d, kind) /\ c \in Card
BY DEF Decks, Top, Restacked, Remaining

\* Deck.next keeps the shape of a deck.
LEMMA DrawnType ==
    ASSUME NEW d \in Decks, NEW kind, NEW c \in Card
    PROVE  Drawn(d, kind, c) \in Decks
BY DEF Decks, Drawn, Restacked

\* Deck.discard keeps the shape of a deck.
LEMMA DiscardedType ==
    ASSUME NEW d \in Decks, NEW c \in Card
    PROVE  Discarded(d, c) \in Decks
BY DEF Decks, Discarded

\* Deck.next takes one card out of those that can be drawn, although the
\* discarded cards may be stacked anew.
LEMMA DrawnRemoves ==
    ASSUME NEW d \in Decks, NEW kind, NEW c \in Top(d, kind),
           d.pile \cap d.stash = {}
    PROVE  LET e == Drawn(d, kind, c)
           IN /\ e.pile \cap e.stash = {}
              /\ e.pile \cup e.stash = (d.pile \cup d.stash) \ {c}
              /\ e.picked = d.picked \cup {c}
BY DEF Decks, Drawn, Top, Restacked

\* Deck.discard gives it back.
LEMMA DiscardedReturns ==
    ASSUME NEW d \in Decks, NEW c, c \notin d.pile, d.pile \cap d.stash = {}
    PROVE  LET e == Discarded(d, c)
           IN /\ e.pile \cap e.stash = {}
              /\ e.pile \cup e.stash = d.pile \cup d.stash \cup {c}
              /\ e.picked = d.picked \ {c}
BY DEF Decks, Discarded

\* At the start nobody has a card, and nobody's turn it is.
LEMMA InitTypeInv == Init => TypeInv
BY CardsAssumption DEF Init, TypeInv, TypeOK, Course, Card

\* A tile gets cards of its kind.
LEMMA KindCards == ASSUME NEW t PROVE Kind(t) \subseteq AmmoCard \cup Weapon
BY DEF Kind

\* Every step keeps the types and the course.
LEMMA StepTypeInv == TypeInv /\ [Next]_vars => TypeInv'
<1> SUFFICES ASSUME TypeInv, [Next]_vars PROVE TypeInv'
  OBVIOUS
<1> USE CardsAssumption DEF TypeInv, TypeOK, Course, course
<1>0. deck \in Decks /\ PowerUp \subseteq Card /\ AmmoCard \subseteq Card /\ Weapon \subseteq Card
  BY DEF Decks, Card
<1>1. ASSUME NEW t \in Tile, Refill(t) PROVE TypeInv'
  <2>1. PICK c \in Top(deck, Kind(t)) :
           /\ deck' = Drawn(deck, Kind(t), c)
           /\ tile' = [tile EXCEPT ![t] = @ \cup {c}]
    BY <1>1 DEF Refill
  <2>2. c \in Card /\ c \in Kind(t)
    BY <1>0, TopRemains DEF Remaining
  <2>3. deck' \in Decks
    BY <1>0, <2>1, <2>2, DrawnType
  <2>4. tile' \in [Tile -> SUBSET (AmmoCard \cup Weapon)]
    BY <2>1, <2>2, KindCards
  <2> QED BY <1>1, <2>3, <2>4 DEF Refill, Decks
<1>2. ASSUME NEW t \in Tile, Refilled(t) PROVE TypeInv'
  BY <1>2 DEF Refilled
<1>3. CASE DrawPowerUp
  <2>1. PICK c \in Top(deck, PowerUp) :
           /\ deck' = Drawn(deck, PowerUp, c)
           /\ hand' = [hand EXCEPT ![spawning] = @ \cup {c}]
    BY <1>3 DEF DrawPowerUp
  <2>2. c \in Card /\ c \in PowerUp
    BY <1>0, TopRemains DEF Remaining
  <2>3. deck' \in Decks
    BY <1>0, <2>1, <2>2, DrawnType
  <2>4. hand' \in [Player -> SUBSET PowerUp]
    BY <2>1, <2>2
  <2> QED BY <1>3, <2>1, <2>3, <2>4 DEF DrawPowerUp, Decks
<1>4. CASE ChooseSpawn
  <2>1. PICK c \in hand[spawning] :
           /\ hand' = [hand EXCEPT ![spawning] = @ \ {c}]
           /\ deck' = Discarded(deck, c)
    BY <1>4 DEF ChooseSpawn
  <2>2. spawning \in Player
    BY <1>4 DEF ChooseSpawn
  <2>3. c \in Card
    BY <1>0, <2>1, <2>2
  <2>4. deck' \in Decks
    BY <1>0, <2>1, <2>3, DiscardedType
  <2> QED BY <1>4, <2>1, <2>2, <2>4 DEF ChooseSpawn, Decks
<1>5. ASSUME NEW p \in Player, StartRespawn(p) \/ FirstSpawn(p) \/ StartTurn(p) \/ EndTurn(p)
      PROVE  TypeInv'
  BY <1>5 DEF StartRespawn, FirstSpawn, StartTurn, EndTurn, BetweenTurns
<1>6. ASSUME NEW p \in Player, Fire(p) \/ Reload(p) PROVE TypeInv'
  BY <1>6 DEF Fire, Reload
<1>7. ASSUME NEW p \in Player, UsePowerUp(p) PROVE TypeInv'
  <2>1. PICK c \in hand[p] :
           /\ hand' = [hand EXCEPT ![p] = @ \ {c}]
           /\ deck' = Discarded(deck, c)
    BY <1>7 DEF UsePowerUp
  <2>2. deck' \in Decks
    BY <1>0, <2>1, DiscardedType
  <2> QED BY <1>7, <2>1, <2>2 DEF UsePowerUp, Decks
<1>8. ASSUME NEW p \in Player, NEW t \in Tile, GrabAmmo(p, t) PROVE TypeInv'
  <2>1. PICK c \in tile[t] \cap AmmoCard :
           /\ tile' = [tile EXCEPT ![t] = @ \ {c}]
           /\ \/ \E d \in Top(deck, PowerUp) :
                    /\ deck' = Discarded(Drawn(deck, PowerUp, d), c)
                    /\ hand' = [hand EXCEPT ![p] = @ \cup {d}]
              \/ deck' = Discarded(deck, c) /\ UNCHANGED hand
    BY <1>8 DEF GrabAmmo
  <2>2. CASE deck' = Discarded(deck, c) /\ UNCHANGED hand
    <3>1. deck' \in Decks
      BY <1>0, <2>1, <2>2, DiscardedType
    <3> QED BY <1>8, <2>1, <2>2, <3>1 DEF GrabAmmo, Decks
  <2>3. CASE \E d \in Top(deck, PowerUp) :
                /\ deck' = Discarded(Drawn(deck, PowerUp, d), c)
                /\ hand' = [hand EXCEPT ![p] = @ \cup {d}]
    <3>1. PICK d \in Top(deck, PowerUp) :
             /\ deck' = Discarded(Drawn(deck, PowerUp, d), c)
             /\ hand' = [hand EXCEPT ![p] = @ \cup {d}]
      BY <2>3
    <3>2. d \in Card /\ d \in PowerUp
      BY <1>0, TopRemains DEF Remaining
    <3>3. deck' \in Decks
      BY <1>0, <2>1, <3>1, <3>2, DrawnType, DiscardedType
    <3> QED BY <1>8, <2>1, <3>1, <3>2, <3>3 DEF GrabAmmo, Decks
  <2> QED BY <2>1, <2>2, <2>3
<1>9. ASSUME NEW p \in Player, NEW t \in Tile, GrabWeapon(p, t) \/ SwapWeapon(p, t)
      PROVE  TypeInv'
  BY <1>9 DEF GrabWeapon, SwapWeapon
<1>10. CASE UNCHANGED vars
  BY <1>10 DEF vars
<1> QED BY <1>1, <1>2, <1>3, <1>4, <1>5, <1>6, <1>7, <1>8, <1>9, <1>10 DEF Next

\* Decks, hands, tiles and arsenals hold cards of their kind, and never more than
\* two powerups are due.
THEOREM TypeCorrect == Spec => []TypeOK
<1>1. TypeInv => TypeOK
  BY DEF TypeInv
<1> QED BY <1>1, InitTypeInv, StepTypeInv, PTL DEF Spec

-----------------------------------------------------------------------------
(* No card is lost or doubled *)

ConservedInv == TypeInv /\ CardsConserved

\* At the start every card is in its pile.
LEMMA InitConservedInv == Init => ConservedInv
<1> SUFFICES ASSUME Init PROVE ConservedInv
  OBVIOUS
<1>1. InPlay = {}
  BY DEF Init, InPlay, Owned
<1> QED BY <1>1, InitTypeInv DEF ConservedInv, CardsConserved, Init, Owned

\* A card that can be drawn is with nobody and on no tile.
LEMMA RemainingIsOut ==
    ASSUME ConservedInv, NEW kind, NEW c \in Top(deck, kind)
    PROVE  /\ c \in Card \ InPlay
           /\ \A p \in Player : c \notin Owned(p)
           /\ \A t \in Tile : c \notin tile[t]
<1>1. c \in Card /\ c \in deck.pile \cup deck.stash
  BY TopRemains DEF ConservedInv, TypeInv, TypeOK, Decks, Remaining
<1> QED BY <1>1 DEF ConservedInv, CardsConserved, InPlay

\* A powerup in a hand, or an ammo card on a tile, is not in its deck.
LEMMA InPlayIsPicked ==
    ASSUME ConservedInv, NEW c \in InPlay
    PROVE  c \in Card /\ c \notin deck.pile /\ c \notin deck.stash
BY DEF ConservedInv, CardsConserved, InPlay

\* Refilling moves a card from the deck to a tile.
LEMMA RefillConserves ==
    ASSUME ConservedInv, NEW t \in Tile, Refill(t)
    PROVE  CardsConserved'
<1>1. PICK c \in Top(deck, Kind(t)) :
         /\ deck' = Drawn(deck, Kind(t), c)
         /\ tile' = [tile EXCEPT ![t] = @ \cup {c}]
  BY DEF Refill
<1>2. /\ deck'.pile \cap deck'.stash = {}
      /\ deck'.pile \cup deck'.stash = (deck.pile \cup deck.stash) \ {c}
      /\ deck'.picked = deck.picked \cup {c}
  BY <1>1, DrawnRemoves DEF ConservedInv, TypeInv, TypeOK, CardsConserved, Decks
<1>3. /\ c \in Card \ InPlay
      /\ \A p \in Player : c \notin Owned(p)
      /\ \A u \in Tile : c \notin tile[u]
  BY RemainingIsOut
<1>4. UNCHANGED <<hand, loaded, unloaded>>
  BY DEF Refill
<1>5. \A u \in Tile : tile'[u] = IF u = t THEN tile[t] \cup {c} ELSE tile[u]
  BY <1>1 DEF ConservedInv, TypeInv, TypeOK
<1>6. \A p \in Player : Owned(p)' = Owned(p)
  BY <1>4 DEF Owned
<1>7. InPlay' = InPlay \cup {c}
  BY <1>3, <1>5, <1>6 DEF InPlay
<1> QED BY <1>2, <1>3, <1>4, <1>5, <1>6, <1>7 DEF ConservedInv, CardsConserved

\* A powerup that is drawn moves from the deck to a hand.
LEMMA DrawConserves ==
    ASSUME ConservedInv, DrawPowerUp
    PROVE  CardsConserved'
<1> DEFINE p == spawning
<1>0. p \in Player
  BY DEF DrawPowerUp, ConservedInv, TypeInv, TypeOK, Course
<1>1. PICK c \in Top(deck, PowerUp) :
         /\ deck' = Drawn(deck, PowerUp, c)
         /\ hand' = [hand EXCEPT ![p] = @ \cup {c}]
  BY DEF DrawPowerUp
<1>2. /\ deck'.pile \cap deck'.stash = {}
      /\ deck'.pile \cup deck'.stash = (deck.pile \cup deck.stash) \ {c}
      /\ deck'.picked = deck.picked \cup {c}
  BY <1>1, DrawnRemoves DEF ConservedInv, TypeInv, TypeOK, CardsConserved, Decks
<1>3. /\ c \in Card \ InPlay
      /\ \A q \in Player : c \notin Owned(q)
      /\ \A u \in Tile : c \notin tile[u]
  BY RemainingIsOut
<1>4. UNCHANGED <<tile, loaded, unloaded>>
  BY DEF DrawPowerUp
<1>5. \A q \in Player : hand'[q] = IF q = p THEN hand[p] \cup {c} ELSE hand[q]
  BY <1>1 DEF ConservedInv, TypeInv, TypeOK
<1>6. \A q \in Player : Owned(q)' = IF q = p THEN Owned(p) \cup {c} ELSE Owned(q)
  BY <1>4, <1>5 DEF Owned
<1>7. InPlay' = InPlay \cup {c}
  BY <1>0, <1>3, <1>4, <1>6 DEF InPlay
<1> QED BY <1>2, <1>3, <1>4, <1>6, <1>7 DEF ConservedInv, CardsConserved

\* A powerup that is discarded moves from a hand to the stash.
LEMMA DiscardConserves ==
    ASSUME ConservedInv, NEW p \in Player, NEW c \in hand[p],
           hand' = [hand EXCEPT ![p] = @ \ {c}],
           deck' = Discarded(deck, c),
           UNCHANGED <<tile, loaded, unloaded>>
    PROVE  CardsConserved'
<1> USE DEF ConservedInv, TypeInv, TypeOK
<1>1. c \in PowerUp /\ c \in InPlay
  BY DEF InPlay, Owned, Card
<1>2. c \in Card /\ c \notin deck.pile /\ c \notin deck.stash
  BY <1>1, InPlayIsPicked
<1>3. /\ deck'.pile \cap deck'.stash = {}
      /\ deck'.pile \cup deck'.stash = (deck.pile \cup deck.stash) \cup {c}
      /\ deck'.picked = deck.picked \ {c}
  BY <1>2, DiscardedReturns DEF CardsConserved, Decks
<1>4. \A q \in Player : hand'[q] = IF q = p THEN hand[p] \ {c} ELSE hand[q]
  OBVIOUS
<1>5. c \notin loaded[p] /\ c \notin unloaded[p]
  BY <1>1, CardsAssumption
<1>6. \A q \in Player : Owned(q)' = IF q = p THEN Owned(p) \ {c} ELSE Owned(q)
  BY <1>4, <1>5 DEF Owned
<1>7. /\ \A q \in Player : q # p => c \notin Owned(q)
      /\ \A t \in Tile : c \notin tile[t]
  BY DEF CardsConserved, Owned
<1>8. InPlay' = InPlay \ {c}
  BY <1>6, <1>7 DEF InPlay
<1> QED BY <1>2, <1>3, <1>6, <1>8 DEF CardsConserved

\* An ammo card moves from its tile to the stash, and a powerup may come with it.
LEMMA GrabAmmoConserves ==
    ASSUME ConservedInv, NEW p \in Player, NEW t \in Tile, GrabAmmo(p, t)
    PROVE  CardsConserved'
<1> USE DEF ConservedInv, TypeInv, TypeOK
<1>1. PICK c \in tile[t] \cap AmmoCard :
         /\ tile' = [tile EXCEPT ![t] = @ \ {c}]
         /\ \/ \E d \in Top(deck, PowerUp) :
                  /\ deck' = Discarded(Drawn(deck, PowerUp, d), c)
                  /\ hand' = [hand EXCEPT ![p] = @ \cup {d}]
            \/ deck' = Discarded(deck, c) /\ UNCHANGED hand
  BY DEF GrabAmmo
<1>2. UNCHANGED <<loaded, unloaded>>
  BY DEF GrabAmmo
<1>3. c \in InPlay
  BY DEF InPlay, Card
<1>4. c \in Card /\ c \notin deck.pile /\ c \notin deck.stash
  BY <1>3, InPlayIsPicked
<1>5. /\ \A q \in Player : c \notin Owned(q)
      /\ \A u \in Tile : u # t => c \notin tile[u]
  BY DEF CardsConserved
<1>6. \A u \in Tile : tile'[u] = IF u = t THEN tile[t] \ {c} ELSE tile[u]
  BY <1>1
<1>7. CASE deck' = Discarded(deck, c) /\ UNCHANGED hand
  <2>1. /\ deck'.pile \cap deck'.stash = {}
        /\ deck'.pile \cup deck'.stash = (deck.pile \cup deck.stash) \cup {c}
        /\ deck'.picked = deck.picked \ {c}
    BY <1>4, <1>7, DiscardedReturns DEF CardsConserved, Decks
  <2>2. \A q \in Player : Owned(q)' = Owned(q)
    BY <1>2, <1>7 DEF Owned
  <2>3. InPlay' = InPlay \ {c}
    BY <1>5, <1>6, <2>2 DEF InPlay
  <2>4. /\ \A q, r \in Player : q # r => (Owned(q) \cap Owned(r))' = {}
        /\ \A q \in Player : (loaded[q] \cap unloaded[q])' = {}
    BY <1>2, <2>2 DEF CardsConserved
  <2> QED BY <1>4, <1>6, <2>1, <2>2, <2>3, <2>4 DEF CardsConserved
<1>8. ASSUME NEW d \in Top(deck, PowerUp),
             deck' = Discarded(Drawn(deck, PowerUp, d), c),
             hand' = [hand EXCEPT ![p] = @ \cup {d}]
      PROVE  CardsConserved'
  <2> DEFINE e == Drawn(deck, PowerUp, d)
  <2>1. /\ d \in Card \ InPlay
        /\ \A q \in Player : d \notin Owned(q)
        /\ \A u \in Tile : d \notin tile[u]
    BY RemainingIsOut
  <2>2. /\ e \in Decks
        /\ e.pile \cap e.stash = {}
        /\ e.pile \cup e.stash = (deck.pile \cup deck.stash) \ {d}
        /\ e.picked = deck.picked \cup {d}
    <3>1. deck \in Decks /\ deck.pile \cap deck.stash = {}
      BY DEF CardsConserved, Decks
    <3> QED BY <2>1, <3>1, DrawnRemoves, DrawnType
  <2>3. c # d /\ c \notin e.pile
    BY <1>3, <1>4, <2>1, <2>2
  <2> HIDE DEF e
  <2>4. /\ deck'.pile \cap deck'.stash = {}
        /\ deck'.pile \cup deck'.stash = (e.pile \cup e.stash) \cup {c}
        /\ deck'.picked = e.picked \ {c}
    <3>1. deck' = Discarded(e, c)
      BY <1>8 DEF e
    <3> QED BY <2>2, <2>3, <3>1, DiscardedReturns
  <2>5. \A q \in Player : hand'[q] = IF q = p THEN hand[p] \cup {d} ELSE hand[q]
    BY <1>8
  <2>6. \A q \in Player : Owned(q)' = IF q = p THEN Owned(p) \cup {d} ELSE Owned(q)
    BY <1>2, <2>5 DEF Owned
  <2>7. InPlay' = (InPlay \cup {d}) \ {c}
    BY <1>5, <1>6, <2>1, <2>3, <2>6 DEF InPlay
  <2>8. deck'.pile \cup deck'.stash = Card \ deck'.picked
    BY <1>4, <2>1, <2>2, <2>4 DEF CardsConserved
  <2>9. deck'.picked = InPlay'
    BY <2>2, <2>4, <2>7 DEF CardsConserved
  <2>10. /\ \A q, r \in Player : q # r => (Owned(q) \cap Owned(r))' = {}
         /\ \A q \in Player : (loaded[q] \cap unloaded[q])' = {}
    BY <1>2, <2>1, <2>6 DEF CardsConserved
  <2>11. /\ \A u, v \in Tile : u # v => (tile[u] \cap tile[v])' = {}
         /\ \A q \in Player, u \in Tile : (Owned(q) \cap tile[u])' = {}
    BY <1>6, <2>1, <2>6 DEF CardsConserved
  <2> QED BY <2>4, <2>8, <2>9, <2>10, <2>11 DEF CardsConserved
<1> QED BY <1>1, <1>7, <1>8

\* A weapon moves from the tile to a player, and the one dropped to the tile.
LEMMA WeaponsConserved ==
    ASSUME ConservedInv, NEW p \in Player, NEW t \in Tile,
           GrabWeapon(p, t) \/ SwapWeapon(p, t)
    PROVE  CardsConserved'
<1> USE DEF ConservedInv, TypeInv, TypeOK
<1>1. UNCHANGED <<deck, hand>>
  BY DEF GrabWeapon, SwapWeapon
<1>2. CASE GrabWeapon(p, t)
  <2>1. PICK w \in tile[t] \cap Weapon :
           /\ tile' = [tile EXCEPT ![t] = @ \ {w}]
           /\ loaded' = [loaded EXCEPT ![p] = @ \cup {w}]
    BY <1>2 DEF GrabWeapon
  <2>2. UNCHANGED unloaded
    BY <1>2 DEF GrabWeapon
  <2>3. /\ \A u \in Tile : tile'[u] = IF u = t THEN tile[t] \ {w} ELSE tile[u]
        /\ \A q \in Player : loaded'[q] = IF q = p THEN loaded[p] \cup {w} ELSE loaded[q]
    BY <2>1
  <2>4. \A q \in Player : Owned(q)' = IF q = p THEN Owned(p) \cup {w} ELSE Owned(q)
    BY <1>1, <2>2, <2>3 DEF Owned
  <2>5. \A q \in Player : w \notin Owned(q)
    BY DEF CardsConserved
  <2>6. InPlay' = InPlay
    BY <2>3, <2>4 DEF InPlay
  <2>7. \A q \in Player : (loaded[q] \cap unloaded[q])' = {}
    BY <2>2, <2>3, <2>5 DEF CardsConserved, Owned
  <2> QED BY <1>1, <2>3, <2>4, <2>5, <2>6, <2>7 DEF CardsConserved
<1>3. CASE SwapWeapon(p, t)
  <2>1. PICK w \in tile[t] \cap Weapon, drop \in loaded[p] \cup unloaded[p] :
           /\ tile' = [tile EXCEPT ![t] = (@ \cup {drop}) \ {w}]
           /\ loaded' = [loaded EXCEPT ![p] = (@ \ {drop}) \cup {w}]
           /\ unloaded' = [unloaded EXCEPT ![p] = @ \ {drop}]
    BY <1>3 DEF SwapWeapon
  <2>2. /\ \A u \in Tile : tile'[u] = IF u = t THEN (tile[t] \cup {drop}) \ {w} ELSE tile[u]
        /\ \A q \in Player :
              loaded'[q] = IF q = p THEN (loaded[p] \ {drop}) \cup {w} ELSE loaded[q]
        /\ \A q \in Player :
              unloaded'[q] = IF q = p THEN unloaded[p] \ {drop} ELSE unloaded[q]
    BY <2>1
  <2>3. /\ \A q \in Player : w \notin Owned(q)
        /\ \A u \in Tile : u # t => w \notin tile[u]
        /\ \A q \in Player : q # p => drop \notin Owned(q)
        /\ \A u \in Tile : drop \notin tile[u]
    BY DEF CardsConserved, Owned
  <2>4. drop # w /\ drop \in Weapon /\ drop \notin hand[p]
    BY <2>3, CardsAssumption
  <2>5. \A q \in Player :
           Owned(q)' = IF q = p THEN (Owned(p) \ {drop}) \cup {w} ELSE Owned(q)
    BY <1>1, <2>2, <2>4 DEF Owned
  <2>6. InPlay' = InPlay
    <3>1. drop \in Owned(p) /\ w \in tile[t]
      BY DEF Owned
    <3> QED BY <2>2, <2>3, <2>4, <2>5, <3>1 DEF InPlay
  <2>7. \A q \in Player : (loaded[q] \cap unloaded[q])' = {}
    BY <2>2, <2>3 DEF CardsConserved, Owned
  <2>8. /\ \A q, r \in Player : q # r => (Owned(q) \cap Owned(r))' = {}
        /\ \A u, v \in Tile : u # v => (tile[u] \cap tile[v])' = {}
    BY <2>2, <2>3, <2>5 DEF CardsConserved
  <2>9. \A q \in Player, u \in Tile : (Owned(q) \cap tile[u])' = {}
    BY <2>2, <2>3, <2>4, <2>5 DEF CardsConserved
  <2> QED BY <1>1, <2>6, <2>7, <2>8, <2>9 DEF CardsConserved
<1> QED BY <1>2, <1>3

\* Every step leaves every card in one place.
LEMMA StepConservedInv == ConservedInv /\ [Next]_vars => ConservedInv'
<1> SUFFICES ASSUME ConservedInv, [Next]_vars PROVE CardsConserved'
  BY StepTypeInv DEF ConservedInv
<1>1. ASSUME NEW t \in Tile, Refill(t) PROVE CardsConserved'
  BY <1>1, RefillConserves
<1>2. CASE DrawPowerUp
  BY <1>2, DrawConserves
<1>3. CASE ChooseSpawn
  <2>1. spawning \in Player
    BY <1>3 DEF ChooseSpawn, ConservedInv, TypeInv, TypeOK
  <2> QED BY <1>3, <2>1, DiscardConserves DEF ChooseSpawn
<1>4. ASSUME NEW p \in Player, UsePowerUp(p) PROVE CardsConserved'
  BY <1>4, DiscardConserves DEF UsePowerUp
<1>5. ASSUME NEW p \in Player, NEW t \in Tile, GrabAmmo(p, t) PROVE CardsConserved'
  BY <1>5, GrabAmmoConserves
<1>6. ASSUME NEW p \in Player, NEW t \in Tile, GrabWeapon(p, t) \/ SwapWeapon(p, t)
      PROVE  CardsConserved'
  BY <1>6, WeaponsConserved
<1>7. ASSUME NEW p \in Player, Fire(p) \/ Reload(p) PROVE CardsConserved'
  <2>1. UNCHANGED <<deck, tile, hand>>
    BY <1>7 DEF Fire, Reload
  <2>2. \A q \in Player : /\ (loaded[q] \cup unloaded[q])' = loaded[q] \cup unloaded[q]
                          /\ (loaded[q] \cap unloaded[q])' = {}
    BY <1>7 DEF Fire, Reload, ConservedInv, TypeInv, TypeOK, CardsConserved
  <2>3. \A q \in Player : Owned(q)' = Owned(q)
    BY <2>1, <2>2 DEF Owned
  <2>4. InPlay' = InPlay
    BY <2>1, <2>3 DEF InPlay
  <2> QED BY <2>1, <2>2, <2>3, <2>4 DEF ConservedInv, CardsConserved
<1>8. CASE UNCHANGED <<deck, tile, hand, loaded, unloaded>>
  BY <1>8 DEF ConservedInv, CardsConserved, InPlay, Owned
<1>9. ASSUME NEW t \in Tile, Refilled(t) PROVE CardsConserved'
  BY <1>8, <1>9 DEF Refilled
<1>10. ASSUME NEW p \in Player, StartRespawn(p) \/ FirstSpawn(p) \/ StartTurn(p) \/ EndTurn(p)
       PROVE  CardsConserved'
  BY <1>8, <1>10 DEF StartRespawn, FirstSpawn, StartTurn, EndTurn
<1>11. CASE UNCHANGED vars
  BY <1>8, <1>11 DEF vars
<1> QED BY <1>1, <1>2, <1>3, <1>4, <1>5, <1>6, <1>7, <1>9, <1>10, <1>11 DEF Next

\* Deck, GameMap.refill and Actor between them neither lose nor double a card, for
\* any number of cards, players and tiles.
THEOREM CardsConservedHolds == Spec => []CardsConserved
<1>1. ConservedInv => CardsConserved
  BY DEF ConservedInv
<1> QED BY <1>1, InitConservedInv, StepConservedInv, PTL DEF Spec

-----------------------------------------------------------------------------
(* Hands, arsenals and tiles keep their limits *)

LimitsInv == TypeInv /\ LimitsKept

\* One card more makes a hand, an arsenal or a tile larger by one at most.
LEMMA AddOne ==
    ASSUME NEW S, IsFiniteSet(S), NEW x
    PROVE  /\ IsFiniteSet(S \cup {x}) /\ Cardinality(S) \in Nat
           /\ Cardinality(S \cup {x}) \in Nat
           /\ Cardinality(S \cup {x}) <= Cardinality(S) + 1
BY FS_AddElement, FS_CardinalityType

\* Where there is room for one more, one more does not break the limit.
LEMMA RoomForOne ==
    ASSUME NEW S, IsFiniteSet(S), NEW x, NEW n \in Nat, Cardinality(S) < n
    PROVE  Cardinality(S \cup {x}) <= n
<1>1. /\ Cardinality(S) \in Nat /\ Cardinality(S \cup {x}) \in Nat
      /\ Cardinality(S \cup {x}) <= Cardinality(S) + 1
  BY AddOne
<1> QED BY <1>1

\* Taking a card away leaves one less.
LEMMA RemoveOne ==
    ASSUME NEW S, IsFiniteSet(S), NEW x \in S
    PROVE  /\ IsFiniteSet(S \ {x}) /\ Cardinality(S) \in Nat
           /\ Cardinality(S \ {x}) \in Nat
           /\ Cardinality(S \ {x}) = Cardinality(S) - 1
BY FS_RemoveElement, FS_CardinalityType

\* Dropping a card for another does not make more of them.
LEMMA RemoveThenAdd ==
    ASSUME NEW S, IsFiniteSet(S), NEW x \in S, NEW y
    PROVE  Cardinality((S \ {x}) \cup {y}) <= Cardinality(S)
<1>1. IsFiniteSet(S \ {x}) /\ Cardinality(S \ {x}) = Cardinality(S) - 1
  BY RemoveOne
<1>2. Cardinality((S \ {x}) \cup {y}) <= Cardinality(S \ {x}) + 1
  BY <1>1, AddOne
<1> QED BY <1>1, <1>2, AddOne, FS_CardinalityType

\* Nor does getting one before giving one, as a tile does with weapons.
LEMMA AddThenRemove ==
    ASSUME NEW S, IsFiniteSet(S), NEW x \in S, NEW y
    PROVE  Cardinality((S \cup {y}) \ {x}) <= Cardinality(S)
<1>1. /\ IsFiniteSet(S \cup {y}) /\ Cardinality(S \cup {y}) \in Nat
      /\ Cardinality(S \cup {y}) <= Cardinality(S) + 1
  BY AddOne
<1>2. Cardinality((S \cup {y}) \ {x}) = Cardinality(S \cup {y}) - 1
  BY <1>1, RemoveOne
<1> QED BY <1>1, <1>2, FS_CardinalityType

\* What the limits are about is finite.
LEMMA AllFinite ==
    ASSUME TypeInv
    PROVE  /\ \A p \in Player : IsFiniteSet(hand[p])
           /\ \A p \in Player : IsFiniteSet(loaded[p] \cup unloaded[p])
           /\ \A t \in Tile : IsFiniteSet(tile[t])
<1>1. IsFiniteSet(AmmoCard \cup Weapon)
  BY CardsAssumption, FS_Union
<1>2. ASSUME NEW p \in Player
      PROVE  IsFiniteSet(hand[p]) /\ IsFiniteSet(loaded[p] \cup unloaded[p])
  <2>1. hand[p] \subseteq PowerUp /\ loaded[p] \cup unloaded[p] \subseteq Weapon
    BY DEF TypeInv, TypeOK
  <2> QED BY <2>1, CardsAssumption, FS_Subset
<1>3. ASSUME NEW t \in Tile PROVE IsFiniteSet(tile[t])
  BY <1>1, FS_Subset DEF TypeInv, TypeOK
<1> QED BY <1>2, <1>3

\* At the start nobody and no tile has anything.
LEMMA InitLimitsInv == Init => LimitsInv
<1> SUFFICES ASSUME Init PROVE LimitsKept
  BY InitTypeInv DEF LimitsInv
<1>1. Cardinality({}) = 0
  BY FS_EmptySet
<1>2. \A p \in Player : hand[p] = {} /\ loaded[p] \cup unloaded[p] = {} /\ spawning # p
  BY CardsAssumption DEF Init
<1>3. \A t \in Tile : tile[t] = {} /\ Slots(t) \in Nat
  BY CardsAssumption DEF Init, Slots
<1>4. \A p \in Player : /\ Cardinality(loaded[p] \cup unloaded[p]) <= MaxWeapon
                         /\ Cardinality(hand[p]) <= MaxPup
  BY <1>1, <1>2, CardsAssumption
<1>5. \A t \in Tile : Cardinality(tile[t]) <= Slots(t)
  BY <1>1, <1>3
<1> QED BY <1>2, <1>4, <1>5 DEF LimitsKept

\* The part of LimitsKept about a player's weapons, his powerups, and the tiles.
ArsenalKept == \A p \in Player : Cardinality(loaded[p] \cup unloaded[p]) <= MaxWeapon
HandKept == \A p \in Player :
    /\ spawning # p => Cardinality(hand[p]) <= MaxPup
    /\ spawning = p => Cardinality(hand[p]) + due <= MaxPup + 1
TilesKept == \A t \in Tile : Cardinality(tile[t]) <= Slots(t)

\* A weapon is taken where there is room, or in the place of another.
LEMMA StepArsenal == LimitsInv /\ [Next]_vars => ArsenalKept'
<1> SUFFICES ASSUME LimitsInv, [Next]_vars PROVE ArsenalKept'
  OBVIOUS
<1> USE DEF LimitsInv, TypeInv, TypeOK
<1>0. \A q \in Player : /\ IsFiniteSet(loaded[q] \cup unloaded[q])
                        /\ Cardinality(loaded[q] \cup unloaded[q]) \in Nat
                        /\ Cardinality(loaded[q] \cup unloaded[q]) <= MaxWeapon
  BY AllFinite, FS_CardinalityType DEF LimitsKept
<1>1. ASSUME \A q \in Player : (loaded[q] \cup unloaded[q])' = loaded[q] \cup unloaded[q]
      PROVE  ArsenalKept'
  BY <1>0, <1>1 DEF ArsenalKept
<1>2. ASSUME NEW p \in Player, NEW t \in Tile, GrabWeapon(p, t) PROVE ArsenalKept'
  <2>1. PICK w : loaded' = [loaded EXCEPT ![p] = @ \cup {w}]
    BY <1>2 DEF GrabWeapon
  <2>2. \A q \in Player : (loaded[q] \cup unloaded[q])' =
           IF q = p THEN (loaded[p] \cup unloaded[p]) \cup {w} ELSE loaded[q] \cup unloaded[q]
    BY <1>2, <2>1 DEF GrabWeapon
  <2>3. Cardinality(loaded[p] \cup unloaded[p]) < MaxWeapon
    BY <1>2 DEF GrabWeapon
  <2>4. Cardinality((loaded[p] \cup unloaded[p]) \cup {w}) <= MaxWeapon
    BY <1>0, <2>3, RoomForOne, CardsAssumption
  <2> QED BY <1>0, <2>2, <2>4 DEF ArsenalKept
<1>3. ASSUME NEW p \in Player, NEW t \in Tile, SwapWeapon(p, t) PROVE ArsenalKept'
  <2>1. PICK w \in tile[t] \cap Weapon, drop \in loaded[p] \cup unloaded[p] :
           /\ loaded' = [loaded EXCEPT ![p] = (@ \ {drop}) \cup {w}]
           /\ unloaded' = [unloaded EXCEPT ![p] = @ \ {drop}]
    BY <1>3 DEF SwapWeapon
  <2>2. \A q \in Player : (loaded[q] \cup unloaded[q])' =
           IF q = p THEN ((loaded[p] \cup unloaded[p]) \ {drop}) \cup {w}
           ELSE loaded[q] \cup unloaded[q]
    BY <2>1
  <2>3. Cardinality(((loaded[p] \cup unloaded[p]) \ {drop}) \cup {w})
           <= Cardinality(loaded[p] \cup unloaded[p])
    BY <1>0, RemoveThenAdd
  <2>4. Cardinality(((loaded[p] \cup unloaded[p]) \ {drop}) \cup {w}) \in Nat
    BY <1>0, RemoveOne, AddOne
  <2>5. Cardinality(((loaded[p] \cup unloaded[p]) \ {drop}) \cup {w}) <= MaxWeapon
    BY <1>0, <2>3, <2>4, CardsAssumption
  <2> QED BY <1>0, <2>2, <2>5 DEF ArsenalKept
<1>4. ASSUME NEW p \in Player, Fire(p) \/ Reload(p) PROVE ArsenalKept'
  BY <1>1, <1>4 DEF Fire, Reload
<1>5. CASE UNCHANGED <<loaded, unloaded>>
  BY <1>1, <1>5
<1>6. CASE DrawPowerUp \/ ChooseSpawn \/ UNCHANGED vars
  BY <1>5, <1>6 DEF DrawPowerUp, ChooseSpawn, vars
<1>7. ASSUME NEW t \in Tile, Refill(t) \/ Refilled(t) PROVE ArsenalKept'
  BY <1>5, <1>7 DEF Refill, Refilled
<1>8. ASSUME NEW p \in Player,
             \/ StartRespawn(p) \/ FirstSpawn(p) \/ StartTurn(p)
             \/ UsePowerUp(p) \/ EndTurn(p)
             \/ \E t \in Tile : GrabAmmo(p, t)
      PROVE  ArsenalKept'
  BY <1>5, <1>8 DEF StartRespawn, FirstSpawn, StartTurn, UsePowerUp, EndTurn, GrabAmmo
<1> QED BY <1>2, <1>3, <1>4, <1>6, <1>7, <1>8 DEF Next

\* A hand that is full draws only to spawn, and then gives a card back.
LEMMA StepHand == LimitsInv /\ [Next]_vars => HandKept'
<1> SUFFICES ASSUME LimitsInv, [Next]_vars PROVE HandKept'
  OBVIOUS
<1> USE CardsAssumption DEF LimitsInv, TypeInv, TypeOK, Course
<1>0. /\ \A q \in Player : IsFiniteSet(hand[q]) /\ Cardinality(hand[q]) \in Nat
      /\ HandKept
  BY AllFinite, FS_CardinalityType DEF LimitsKept, HandKept
<1>1. CASE DrawPowerUp
  <2> DEFINE p == spawning
  <2>1. p \in Player /\ spawning' = p /\ due \in Nat \ {0} /\ due' = due - 1
    BY <1>1 DEF DrawPowerUp
  <2>2. PICK c : hand' = [hand EXCEPT ![p] = @ \cup {c}]
    BY <1>1 DEF DrawPowerUp
  <2>3. \A q \in Player : hand'[q] = IF q = p THEN hand[p] \cup {c} ELSE hand[q]
    BY <2>2
  <2>4. /\ Cardinality(hand[p]) \in Nat
        /\ Cardinality(hand[p] \cup {c}) \in Nat
        /\ Cardinality(hand[p] \cup {c}) <= Cardinality(hand[p]) + 1
    BY <1>0, <2>1, AddOne
  <2>5. Cardinality(hand[p]) + due <= MaxPup + 1
    BY <1>0, <2>1 DEF HandKept
  <2>6. Cardinality(hand[p] \cup {c}) + due' <= MaxPup + 1
    BY <2>1, <2>4, <2>5
  <2> QED BY <1>0, <2>1, <2>3, <2>6 DEF HandKept
<1>2. CASE ChooseSpawn
  <2> DEFINE p == spawning
  <2>1. p \in Player /\ spawning' = NoOne /\ due = 0
    BY <1>2 DEF ChooseSpawn
  <2>2. PICK c \in hand[p] : hand' = [hand EXCEPT ![p] = @ \ {c}]
    BY <1>2 DEF ChooseSpawn
  <2>3. \A q \in Player : hand'[q] = IF q = p THEN hand[p] \ {c} ELSE hand[q]
    BY <2>2
  <2>4. Cardinality(hand[p] \ {c}) = Cardinality(hand[p]) - 1
    BY <1>0, <2>1, RemoveOne
  <2>5. Cardinality(hand[p]) + 0 <= MaxPup + 1 /\ Cardinality(hand[p]) \in Nat
    BY <1>0, <2>1 DEF HandKept
  <2>6. Cardinality(hand[p] \ {c}) <= MaxPup
    BY <2>4, <2>5
  <2> QED BY <1>0, <2>1, <2>3, <2>6 DEF HandKept
<1>3. ASSUME NEW p \in Player, UsePowerUp(p) PROVE HandKept'
  <2>1. PICK c \in hand[p] : hand' = [hand EXCEPT ![p] = @ \ {c}]
    BY <1>3 DEF UsePowerUp
  <2>2. \A q \in Player : hand'[q] = IF q = p THEN hand[p] \ {c} ELSE hand[q]
    BY <2>1
  <2>3. Cardinality(hand[p] \ {c}) = Cardinality(hand[p]) - 1 /\ Cardinality(hand[p]) \in Nat
    BY <1>0, RemoveOne
  <2>4. spawning = NoOne /\ spawning' = NoOne
    BY <1>3 DEF UsePowerUp, course
  <2>5. Cardinality(hand[p]) <= MaxPup
    BY <1>0, <2>4 DEF HandKept
  <2>6. Cardinality(hand[p] \ {c}) <= MaxPup
    BY <2>3, <2>5
  <2> QED BY <1>0, <2>2, <2>4, <2>6 DEF HandKept
<1>4. ASSUME NEW p \in Player, NEW t \in Tile, GrabAmmo(p, t) PROVE HandKept'
  <2>1. spawning = NoOne /\ spawning' = NoOne /\ due' = due
    BY <1>4 DEF GrabAmmo, course
  <2>2. CASE UNCHANGED hand
    BY <1>0, <2>1, <2>2 DEF HandKept
  <2>3. CASE /\ Cardinality(hand[p]) < MaxPup
             /\ \E d : hand' = [hand EXCEPT ![p] = @ \cup {d}]
    <3>1. PICK d : hand' = [hand EXCEPT ![p] = @ \cup {d}]
      BY <2>3
    <3>2. \A q \in Player : hand'[q] = IF q = p THEN hand[p] \cup {d} ELSE hand[q]
      BY <3>1
    <3>3. Cardinality(hand[p] \cup {d}) <= MaxPup
      BY <1>0, <2>3, RoomForOne
    <3> QED BY <1>0, <2>1, <3>2, <3>3 DEF HandKept
  <2> QED BY <1>4, <2>2, <2>3 DEF GrabAmmo
<1>5. ASSUME NEW p \in Player, StartRespawn(p) PROVE HandKept'
  <2>1. spawning = NoOne /\ spawning' = p /\ due' = 1 /\ UNCHANGED hand
    BY <1>5 DEF StartRespawn, BetweenTurns
  <2>2. \A q \in Player : Cardinality(hand[q]) <= MaxPup
    BY <1>0, <2>1 DEF HandKept
  <2>3. Cardinality(hand[p]) + 1 <= MaxPup + 1
    BY <1>0, <2>2
  <2> QED BY <1>0, <2>1, <2>2, <2>3 DEF HandKept
<1>6. ASSUME NEW p \in Player, FirstSpawn(p) PROVE HandKept'
  <2>1. spawning = NoOne /\ spawning' = p /\ due' = 2 /\ UNCHANGED hand
    BY <1>6 DEF FirstSpawn, BetweenTurns
  <2>2. \A q \in Player : Cardinality(hand[q]) <= MaxPup
    BY <1>0, <2>1 DEF HandKept
  <2>3. hand[p] = {}
    BY <1>6, <2>1 DEF FirstSpawn
  <2>4. Cardinality(hand[p]) + 2 <= MaxPup + 1
    BY <2>3, FS_EmptySet
  <2> QED BY <1>0, <2>1, <2>2, <2>4 DEF HandKept
<1>7. CASE UNCHANGED <<hand, spawning, due>>
  BY <1>0, <1>7 DEF HandKept
<1>8. ASSUME NEW p \in Player,
             \/ StartTurn(p) \/ Fire(p) \/ Reload(p) \/ EndTurn(p)
             \/ \E t \in Tile : GrabWeapon(p, t) \/ SwapWeapon(p, t)
      PROVE  HandKept'
  BY <1>7, <1>8 DEF StartTurn, Fire, Reload, EndTurn, GrabWeapon, SwapWeapon, course
<1>9. ASSUME NEW t \in Tile, Refill(t) \/ Refilled(t) PROVE HandKept'
  BY <1>7, <1>9 DEF Refill, Refilled, course
<1>10. CASE UNCHANGED vars
  BY <1>7, <1>10 DEF vars, course
<1> QED BY <1>1, <1>2, <1>3, <1>4, <1>5, <1>6, <1>8, <1>9, <1>10 DEF Next

\* A tile gets a card where there is room, or in the place of another.
LEMMA StepTiles == LimitsInv /\ [Next]_vars => TilesKept'
<1> SUFFICES ASSUME LimitsInv, [Next]_vars PROVE TilesKept'
  OBVIOUS
<1> USE DEF LimitsInv, TypeInv, TypeOK
<1>0. \A u \in Tile : /\ IsFiniteSet(tile[u]) /\ Cardinality(tile[u]) \in Nat
                      /\ Slots(u) \in Nat /\ Cardinality(tile[u]) <= Slots(u)
  BY AllFinite, FS_CardinalityType, CardsAssumption DEF LimitsKept, Slots
<1>1. ASSUME NEW t \in Tile, Refill(t) PROVE TilesKept'
  <2>1. PICK c : tile' = [tile EXCEPT ![t] = @ \cup {c}]
    BY <1>1 DEF Refill
  <2>2. \A u \in Tile : tile'[u] = IF u = t THEN tile[t] \cup {c} ELSE tile[u]
    BY <2>1
  <2>3. Cardinality(tile[t]) < Slots(t)
    BY <1>1 DEF Refill
  <2>4. Cardinality(tile[t] \cup {c}) <= Slots(t)
    BY <1>0, <2>3, RoomForOne
  <2> QED BY <1>0, <2>2, <2>4 DEF TilesKept, Slots
<1>2. ASSUME NEW p \in Player, NEW t \in Tile, GrabAmmo(p, t) \/ GrabWeapon(p, t)
      PROVE  TilesKept'
  <2>1. PICK c \in tile[t] : tile' = [tile EXCEPT ![t] = @ \ {c}]
    BY <1>2 DEF GrabAmmo, GrabWeapon
  <2>2. \A u \in Tile : tile'[u] = IF u = t THEN tile[t] \ {c} ELSE tile[u]
    BY <2>1
  <2>3. Cardinality(tile[t] \ {c}) = Cardinality(tile[t]) - 1
    BY <1>0, RemoveOne
  <2>4. Cardinality(tile[t] \ {c}) <= Slots(t)
    BY <1>0, <2>3
  <2> QED BY <1>0, <2>2, <2>4 DEF TilesKept, Slots
<1>3. ASSUME NEW p \in Player, NEW t \in Tile, SwapWeapon(p, t) PROVE TilesKept'
  <2>1. PICK w \in tile[t], drop \in loaded[p] \cup unloaded[p] :
           tile' = [tile EXCEPT ![t] = (@ \cup {drop}) \ {w}]
    BY <1>3 DEF SwapWeapon
  <2>2. \A u \in Tile : tile'[u] = IF u = t THEN (tile[t] \cup {drop}) \ {w} ELSE tile[u]
    BY <2>1
  <2>3. /\ Cardinality((tile[t] \cup {drop}) \ {w}) <= Cardinality(tile[t])
        /\ Cardinality((tile[t] \cup {drop}) \ {w}) \in Nat
    BY <1>0, AddThenRemove, AddOne, RemoveOne
  <2>4. Cardinality((tile[t] \cup {drop}) \ {w}) <= Slots(t)
    BY <1>0, <2>3
  <2> QED BY <1>0, <2>2, <2>4 DEF TilesKept, Slots
<1>4. CASE UNCHANGED tile
  BY <1>0, <1>4 DEF TilesKept, Slots
<1>5. CASE DrawPowerUp \/ ChooseSpawn \/ UNCHANGED vars
  BY <1>4, <1>5 DEF DrawPowerUp, ChooseSpawn, vars
<1>6. ASSUME NEW t \in Tile, Refilled(t) PROVE TilesKept'
  BY <1>4, <1>6 DEF Refilled
<1>7. ASSUME NEW p \in Player,
             \/ StartRespawn(p) \/ FirstSpawn(p) \/ StartTurn(p)
             \/ Fire(p) \/ Reload(p) \/ UsePowerUp(p) \/ EndTurn(p)
      PROVE  TilesKept'
  BY <1>4, <1>7 DEF StartRespawn, FirstSpawn, StartTurn, Fire, Reload, UsePowerUp, EndTurn
<1> QED BY <1>1, <1>2, <1>3, <1>5, <1>6, <1>7 DEF Next

\* Every step keeps all three.
LEMMA StepLimitsInv == LimitsInv /\ [Next]_vars => LimitsInv'
BY StepTypeInv, StepArsenal, StepHand, StepTiles
   DEF LimitsInv, LimitsKept, ArsenalKept, HandKept, TilesKept, Slots

\* No player ever holds too many weapons, or too many powerups for longer than he
\* takes to spawn, and no tile gets more cards than refill counts on.
THEOREM LimitsKeptHolds == Spec => []LimitsKept
<1>1. LimitsInv => LimitsKept
  BY DEF LimitsInv
<1> QED BY <1>1, InitLimitsInv, StepLimitsInv, PTL DEF Spec

-----------------------------------------------------------------------------
(* The decks do not run out *)

\* Hands of at most n powerups are at most n times as many as the players who hold
\* them.
LEMMA HandsBounded ==
    ASSUME TypeInv, NEW n \in Nat, \A p \in Player : Cardinality(hand[p]) <= n
    PROVE  LET held == UNION {hand[p] : p \in Player}
           IN IsFiniteSet(held) /\ Cardinality(held) <= n * Cardinality(Player)
<1> DEFINE held(S) == UNION {hand[p] : p \in S}
           Bounded(S) == Cardinality(held(S)) <= n * Cardinality(S)
           Bad == {S \in SUBSET Player : ~Bounded(S)}
<1>1. ASSUME NEW S \in SUBSET Player
      PROVE  IsFiniteSet(held(S)) /\ IsFiniteSet(S) /\ Cardinality(held(S)) \in Nat
             /\ Cardinality(S) \in Nat
  <2>1. held(S) \subseteq PowerUp
    BY DEF TypeInv, TypeOK
  <2> HIDE DEF held
  <2> QED BY <2>1, CardsAssumption, EnoughCards, FS_Subset, FS_CardinalityType
<1>2. Bad = {}
  <2> SUFFICES ASSUME Bad # {} PROVE FALSE
    OBVIOUS
  <2>1. PICK S \in Bad : \A U \in SUBSET S : U # S => U \notin Bad
    <3>1. Bad \in SUBSET SUBSET Player
      OBVIOUS
    <3> HIDE DEF Bad
    <3> QED BY <3>1, EnoughCards, SmallestSet
  <2>2. S \in SUBSET Player /\ ~Bounded(S)
    OBVIOUS
  <2>3. CASE S = {}
    <3>1. held(S) = {}
      BY <2>3
    <3>2. Cardinality(held(S)) = 0 /\ Cardinality(S) = 0
      BY <2>3, <3>1, FS_EmptySet
    <3> QED BY <2>2, <3>2
  <2>4. CASE S # {}
    <3>1. PICK p \in S : TRUE
      BY <2>4
    <3>2. Bounded(S \ {p})
      <4>1. S \ {p} \in SUBSET S /\ S \ {p} # S /\ S \ {p} \in SUBSET Player
        BY <2>2
      <4> QED BY <2>1, <4>1
    <3>3. held(S) = held(S \ {p}) \cup hand[p]
      OBVIOUS
    <3>4. IsFiniteSet(hand[p]) /\ Cardinality(hand[p]) <= n /\ Cardinality(hand[p]) \in Nat
      BY <2>2, AllFinite, FS_CardinalityType
    <3> DEFINE A == held(S \ {p})
    <3>5. IsFiniteSet(A) /\ Cardinality(A) \in Nat /\ Cardinality(A) <= n * Cardinality(S \ {p})
      BY <1>1, <2>2, <3>2
    <3>6. held(S) = A \cup hand[p] /\ Cardinality(held(S)) \in Nat
      BY <1>1, <2>2, <3>3
    <3> HIDE DEF A, held
    <3>7. Cardinality(held(S)) <= Cardinality(A) + Cardinality(hand[p])
      <4>1. /\ Cardinality(A \cup hand[p])
                 = Cardinality(A) + Cardinality(hand[p]) - Cardinality(A \cap hand[p])
            /\ Cardinality(A \cap hand[p]) \in Nat
        BY <3>4, <3>5, FS_Union, FS_Intersection, FS_CardinalityType
      <4> QED BY <3>4, <3>5, <3>6, <4>1
    <3>8. Cardinality(S \ {p}) = Cardinality(S) - 1 /\ Cardinality(S) \in Nat
      BY <1>1, <2>2, FS_RemoveElement
    <3>9. n * (Cardinality(S) - 1) + n = n * Cardinality(S)
      BY <3>8
    <3>10. /\ n * (Cardinality(S) - 1) \in Int /\ n * Cardinality(S) \in Int
           /\ Cardinality(A) <= n * (Cardinality(S) - 1)
      BY <3>5, <3>8
    <3>11. Cardinality(held(S)) <= n * Cardinality(S)
      BY <3>4, <3>5, <3>6, <3>7, <3>9, <3>10
    <3> QED BY <2>2, <3>11
  <2> QED BY <2>3, <2>4
<1>3. Player \in SUBSET Player /\ Player \notin Bad
  BY <1>2
<1> QED BY <1>1, <1>3

\* A powerup that cannot be drawn is in somebody's hand.
LEMMA PowerUpsAreSomewhere ==
    ASSUME ConservedInv, Remaining(deck, PowerUp) = {}
    PROVE  PowerUp \subseteq UNION {hand[p] : p \in Player}
<1> SUFFICES ASSUME NEW c \in PowerUp PROVE \E p \in Player : c \in hand[p]
  OBVIOUS
<1>1. c \in Card /\ c \notin deck.pile \cup deck.stash
  BY DEF Card, Remaining
<1>2. c \in InPlay
  BY <1>1 DEF ConservedInv, CardsConserved
<1>3. /\ \A p \in Player : c \notin loaded[p] /\ c \notin unloaded[p]
      /\ \A t \in Tile : c \notin tile[t]
  BY CardsAssumption DEF ConservedInv, TypeInv, TypeOK
<1> QED BY <1>2, <1>3 DEF InPlay, Owned

\* A powerup that must be drawn is there, in the pile or the stash, however many
\* are in the players' hands: drawing never throws in the thread that the game
\* hangs on.  (Deck.next, Actor.drawPowerUpRaw)
THEOREM DrawAlwaysSucceeds == Spec => []DrawSucceeds
<1>1. ConservedInv /\ LimitsInv => DrawSucceeds
  <2> SUFFICES ASSUME ConservedInv, LimitsInv, turn # NoOne \/ due > 0,
                      Remaining(deck, PowerUp) = {}
               PROVE  FALSE
    BY DEF DrawSucceeds
  <2>1. \A p \in Player : Cardinality(hand[p]) <= MaxPup
    <3> SUFFICES ASSUME NEW p \in Player PROVE Cardinality(hand[p]) <= MaxPup
      OBVIOUS
    <3>1. CASE spawning # p
      BY <3>1 DEF LimitsInv, LimitsKept
    <3>2. CASE spawning = p
      <4>1. due > 0 /\ due \in Nat
        BY <3>2, CardsAssumption DEF LimitsInv, TypeInv, TypeOK, Course
      <4>2. Cardinality(hand[p]) + due <= MaxPup + 1
        BY <3>2 DEF LimitsInv, LimitsKept
      <4>3. Cardinality(hand[p]) \in Nat
        BY AllFinite, FS_CardinalityType DEF LimitsInv
      <4> QED BY <4>1, <4>2, <4>3, CardsAssumption
    <3> QED BY <3>1, <3>2
  <2> DEFINE held == UNION {hand[p] : p \in Player}
  <2>2. IsFiniteSet(held) /\ Cardinality(held) <= MaxPup * Cardinality(Player)
    BY <2>1, HandsBounded, CardsAssumption DEF LimitsInv
  <2>3. PowerUp \subseteq held
    BY PowerUpsAreSomewhere
  <2> HIDE DEF held
  <2>4. Cardinality(PowerUp) <= Cardinality(held) /\ Cardinality(PowerUp) \in Nat
        /\ Cardinality(held) \in Nat
    BY <2>2, <2>3, FS_Subset, FS_CardinalityType
  <2>5. Cardinality(Player) \in Nat
    BY EnoughCards, FS_CardinalityType
  <2>6. MaxPup * Cardinality(Player) \in Nat
    BY <2>5, CardsAssumption
  <2> QED BY <2>2, <2>4, <2>6, EnoughCards
<1> QED BY <1>1, InitConservedInv, InitLimitsInv, StepConservedInv, StepLimitsInv, PTL DEF Spec

-----------------------------------------------------------------------------
(* The map is full when a turn starts *)

\* A tile has cards of its kind only.
KindsKept == \A t \in Tile : tile[t] \subseteq Kind(t)

\* Between two turns a tile that refill has been through is full, or there was no
\* weapon left for it; and there is none that has come back since.
Full(t) == Cardinality(tile[t]) = Slots(t) \/ (t \in Spawn /\ Remaining(deck, Weapon) = {})

RestockedInv ==
    /\ KindsKept
    /\ turn = NoOne => \A t \in Tile \ refilling : Full(t)

AllInv == ConservedInv /\ LimitsInv /\ RestockedInv

LEMMA StepKinds == TypeInv /\ KindsKept /\ [Next]_vars => KindsKept'
<1> SUFFICES ASSUME TypeInv, KindsKept, [Next]_vars PROVE KindsKept'
  OBVIOUS
<1> USE DEF TypeInv, TypeOK
<1>1. ASSUME NEW t \in Tile, Refill(t) PROVE KindsKept'
  <2>1. PICK c \in Top(deck, Kind(t)) : tile' = [tile EXCEPT ![t] = @ \cup {c}]
    BY <1>1 DEF Refill
  <2>2. c \in Kind(t)
    BY DEF Top
  <2> QED BY <2>1, <2>2 DEF KindsKept, Kind
<1>2. ASSUME NEW p \in Player, NEW t \in Tile, GrabAmmo(p, t) \/ GrabWeapon(p, t)
      PROVE  KindsKept'
  <2>1. PICK c \in tile[t] : tile' = [tile EXCEPT ![t] = @ \ {c}]
    BY <1>2 DEF GrabAmmo, GrabWeapon
  <2> QED BY <2>1 DEF KindsKept, Kind
<1>3. ASSUME NEW p \in Player, NEW t \in Tile, SwapWeapon(p, t) PROVE KindsKept'
  <2>1. PICK w \in tile[t] \cap Weapon, drop \in loaded[p] \cup unloaded[p] :
           tile' = [tile EXCEPT ![t] = (@ \cup {drop}) \ {w}]
    BY <1>3 DEF SwapWeapon
  <2>2. drop \in Weapon /\ Kind(t) = Weapon
    BY CardsAssumption DEF KindsKept, Kind
  <2> QED BY <2>1, <2>2 DEF KindsKept, Kind
<1>4. CASE UNCHANGED tile
  BY <1>4 DEF KindsKept, Kind
<1>5. CASE DrawPowerUp \/ ChooseSpawn \/ UNCHANGED vars
  BY <1>4, <1>5 DEF DrawPowerUp, ChooseSpawn, vars
<1>6. ASSUME NEW t \in Tile, Refilled(t) PROVE KindsKept'
  BY <1>4, <1>6 DEF Refilled
<1>7. ASSUME NEW p \in Player,
             \/ StartRespawn(p) \/ FirstSpawn(p) \/ StartTurn(p)
             \/ Fire(p) \/ Reload(p) \/ UsePowerUp(p) \/ EndTurn(p)
      PROVE  KindsKept'
  BY <1>4, <1>7 DEF StartRespawn, FirstSpawn, StartTurn, Fire, Reload, UsePowerUp, EndTurn
<1> QED BY <1>1, <1>2, <1>3, <1>5, <1>6, <1>7 DEF Next

\* An ammo card that cannot be drawn lies on a tile, and a tile has one at most; so
\* there is one for every tile that has none.
LEMMA AmmoForAll ==
    ASSUME AllInv, NEW t \in Tile \ Spawn, Cardinality(tile[t]) < 1
    PROVE  Remaining(deck, AmmoCard) # {}
<1> SUFFICES ASSUME Remaining(deck, AmmoCard) = {} PROVE FALSE
  OBVIOUS
<1> USE DEF AllInv
<1>1. \A u \in Tile : IsFiniteSet(tile[u]) /\ Cardinality(tile[u]) \in Nat
  BY AllFinite, FS_CardinalityType DEF LimitsInv
<1>2. tile[t] = {}
  <2>1. Cardinality(tile[t]) = 0
    BY <1>1
  <2> QED BY <1>1, <2>1, FS_EmptySet
<1> DEFINE Rest == (Tile \ Spawn) \ {t}
<1>3. ASSUME NEW c \in AmmoCard PROVE \E u \in Rest : c \in tile[u]
  <2>1. c \in Card /\ c \notin deck.pile \cup deck.stash
    BY DEF Card, Remaining
  <2>2. c \in InPlay
    BY <2>1 DEF ConservedInv, CardsConserved
  <2>3. \A p \in Player : c \notin Owned(p)
    BY CardsAssumption DEF ConservedInv, TypeInv, TypeOK, Owned
  <2>4. PICK u \in Tile : c \in tile[u]
    BY <2>2, <2>3 DEF InPlay
  <2>5. u \notin Spawn
    BY <2>4, CardsAssumption DEF RestockedInv, KindsKept, Kind
  <2> QED BY <1>2, <2>4, <2>5
<1> DEFINE where == [c \in AmmoCard |-> CHOOSE u \in Rest : c \in tile[u]]
<1>4. \A c \in AmmoCard : where[c] \in Rest /\ c \in tile[where[c]]
  BY <1>3
<1> HIDE DEF where
<1>5. \A c, d \in AmmoCard : where[c] = where[d] => c = d
  <2> SUFFICES ASSUME NEW c \in AmmoCard, NEW d \in AmmoCard, where[c] = where[d], c # d
               PROVE  FALSE
    OBVIOUS
  <2> DEFINE u == where[c]
  <2>1. {c, d} \subseteq tile[u] /\ u \in Tile \ Spawn
    BY <1>4
  <2> HIDE DEF u
  <2>2. Cardinality(tile[u]) <= 1
    BY <2>1 DEF LimitsInv, LimitsKept, Slots
  <2>3. Cardinality({c, d}) = 2
    <3>1. IsFiniteSet({c}) /\ Cardinality({c}) = 1 /\ d \notin {c}
      BY FS_Singleton
    <3>2. Cardinality({c} \cup {d}) = 1 + 1
      BY <3>1, FS_AddElement
    <3>3. {c} \cup {d} = {c, d}
      OBVIOUS
    <3> QED BY <3>2, <3>3
  <2>4. Cardinality({c, d}) <= Cardinality(tile[u])
    BY <1>1, <2>1, FS_Subset
  <2> QED BY <1>1, <2>1, <2>2, <2>3, <2>4
<1>6. Cardinality(AmmoCard) <= Cardinality(Rest)
  <2>1. IsFiniteSet(Rest)
    BY EnoughCards, FS_Subset
  <2>2. where \in Injection(AmmoCard, Rest)
    BY <1>4, <1>5 DEF where, Injection, IsInjective
  <2> QED BY <2>1, <2>2, CardsAssumption, FS_Injection
<1>7. Cardinality(Rest) = Cardinality(Tile \ Spawn) - 1
  BY EnoughCards, FS_Subset, FS_RemoveElement
<1>8. Cardinality(Tile \ Spawn) \in Nat /\ Cardinality(AmmoCard) \in Nat
  BY EnoughCards, CardsAssumption, FS_Subset, FS_CardinalityType
<1> QED BY <1>6, <1>7, <1>8, EnoughCards

\* A full tile stays so while no tile changes and no weapon is discarded.
LEMMA StillFull ==
    ASSUME NEW t, Full(t), tile'[t] = tile[t],
           Remaining(deck, Weapon)' \subseteq Remaining(deck, Weapon)
    PROVE  Full(t)'
BY DEF Full, Slots

LEMMA StepRestocked == AllInv /\ [Next]_vars => RestockedInv'
<1> SUFFICES ASSUME AllInv, [Next]_vars PROVE RestockedInv'
  OBVIOUS
<1>1. KindsKept'
  BY StepKinds DEF AllInv, ConservedInv, RestockedInv
<1> SUFFICES ASSUME turn' = NoOne PROVE \A t \in Tile \ refilling' : Full(t)'
  BY <1>1 DEF RestockedInv
<1> USE DEF AllInv, RestockedInv
<1>2. deck \in Decks /\ deck.pile \cap deck.stash = {}
  BY DEF ConservedInv, CardsConserved, TypeInv, TypeOK, Decks
<1>3. ASSUME NEW t \in Tile, Refill(t) PROVE \A u \in Tile \ refilling' : Full(u)'
  <2>1. PICK c \in Top(deck, Kind(t)) :
           /\ deck' = Drawn(deck, Kind(t), c)
           /\ tile' = [tile EXCEPT ![t] = @ \cup {c}]
    BY <1>3 DEF Refill
  <2>2. Remaining(deck, Weapon)' \subseteq Remaining(deck, Weapon)
    BY <1>2, <2>1, DrawnRemoves DEF Remaining
  <2>3. refilling' = refilling /\ t \in refilling /\ turn = NoOne
    BY <1>3 DEF Refill, course
  <2>4. \A u \in Tile : u # t => tile'[u] = tile[u]
    BY <2>1 DEF ConservedInv, TypeInv, TypeOK
  <2> QED BY <2>2, <2>3, <2>4, StillFull
<1>4. ASSUME NEW t \in Tile, Refilled(t) PROVE \A u \in Tile \ refilling' : Full(u)'
  <2>1. UNCHANGED <<deck, tile>> /\ refilling' = refilling \ {t} /\ turn = NoOne
    BY <1>4 DEF Refilled
  <2>2. Remaining(deck, Weapon)' = Remaining(deck, Weapon)
    BY <2>1 DEF Remaining
  <2>3. Full(t)
    <3>1. Cardinality(tile[t]) <= Slots(t) /\ Cardinality(tile[t]) \in Nat /\ Slots(t) \in Nat
      BY AllFinite, FS_CardinalityType, CardsAssumption DEF LimitsInv, LimitsKept, Slots
    <3>2. CASE Cardinality(tile[t]) >= Slots(t)
      BY <3>1, <3>2 DEF Full
    <3>3. CASE Cardinality(tile[t]) < Slots(t)
      <4>1. Remaining(deck, Kind(t)) = {}
        BY <1>4, <3>1, <3>3 DEF Refilled
      <4>2. t \in Spawn
        <5> SUFFICES ASSUME t \notin Spawn PROVE FALSE
          OBVIOUS
        <5>1. Cardinality(tile[t]) < 1
          BY <3>3 DEF Slots
        <5> QED BY <4>1, <5>1, AmmoForAll DEF Kind
      <4> QED BY <4>1, <4>2 DEF Full, Kind
    <3> QED BY <3>1, <3>2, <3>3
  <2> QED BY <2>1, <2>2, <2>3, StillFull
<1>5. CASE DrawPowerUp
  <2>1. PICK c \in Top(deck, PowerUp) : deck' = Drawn(deck, PowerUp, c)
    BY <1>5 DEF DrawPowerUp
  <2>2. Remaining(deck, Weapon)' \subseteq Remaining(deck, Weapon)
    BY <1>2, <2>1, DrawnRemoves DEF Remaining
  <2> QED BY <1>5, <2>2, StillFull DEF DrawPowerUp
<1>6. CASE ChooseSpawn
  <2>1. PICK c \in hand[spawning] : deck' = Discarded(deck, c)
    BY <1>6 DEF ChooseSpawn
  <2>2. c \notin Weapon
    BY <1>6, CardsAssumption DEF ChooseSpawn, ConservedInv, TypeInv, TypeOK
  <2>3. Remaining(deck, Weapon)' \subseteq Remaining(deck, Weapon)
    BY <1>2, <2>1, <2>2 DEF Remaining, Discarded, Decks
  <2> QED BY <1>6, <2>3, StillFull DEF ChooseSpawn
<1>7. CASE UNCHANGED <<deck, tile, turn, refilling>>
  BY <1>7 DEF Full, Slots, Remaining
<1>8. ASSUME NEW p \in Player, StartRespawn(p) \/ FirstSpawn(p)
      PROVE  \A u \in Tile \ refilling' : Full(u)'
  BY <1>7, <1>8 DEF StartRespawn, FirstSpawn
<1>9. CASE UNCHANGED vars
  BY <1>7, <1>9 DEF vars, course
<1>10. ASSUME NEW p \in Player, EndTurn(p) PROVE \A u \in Tile \ refilling' : Full(u)'
  BY <1>10 DEF EndTurn
<1>11. ASSUME NEW p \in Player
       PROVE  /\ ~StartTurn(p) /\ ~Fire(p) /\ ~Reload(p) /\ ~UsePowerUp(p)
              /\ \A t \in Tile : ~GrabAmmo(p, t) /\ ~GrabWeapon(p, t) /\ ~SwapWeapon(p, t)
  BY CardsAssumption
     DEF StartTurn, Fire, Reload, UsePowerUp, GrabAmmo, GrabWeapon, SwapWeapon, course
<1> QED BY <1>3, <1>4, <1>5, <1>6, <1>8, <1>9, <1>10, <1>11 DEF Next

\* Everybody starts his turn on a full map: an ammo card on every tile and weapons
\* on every spawn point, unless they have run out.  (GameMap.refill, endTurn)
THEOREM MapIsRestocked == Spec => []Restocked
<1>1. Init => RestockedInv
  BY DEF Init, RestockedInv, KindsKept
<1>2. Init => AllInv
  BY <1>1, InitConservedInv, InitLimitsInv DEF AllInv
<1>3. AllInv /\ [Next]_vars => AllInv'
  BY StepConservedInv, StepLimitsInv, StepRestocked DEF AllInv
<1>4. AllInv => Restocked
  BY DEF AllInv, RestockedInv, Restocked, BetweenTurns, Full
<1> QED BY <1>2, <1>3, <1>4, PTL DEF Spec
=============================================================================
