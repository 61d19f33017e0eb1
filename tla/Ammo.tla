-------------------------------- MODULE Ammo --------------------------------
(***************************************************************************)
(* Amounts of ammunition, as AmmoAmountUncapped and AmmoAmount have them:  *)
(* a number of cubes of each colour.  A powerup card is worth one cube of  *)
(* its colour.                                                             *)
(***************************************************************************)
EXTENDS Integers, FiniteSets

CONSTANTS Colour,    \* AmmoColor
          Card,      \* the powerup cards
          ColourOf,  \* PowerUp.color
          MaxAmmo    \* maximumAmmoPerCard: cubes of a colour a player may hold

ASSUME AmmoAssumption ==
    /\ IsFiniteSet(Card)
    /\ ColourOf \in [Card -> Colour]
    /\ MaxAmmo \in Nat

Amount == [Colour -> Nat]

Zero == [c \in Colour |-> 0]
One(c) == [Zero EXCEPT ![c] = 1]

\* Funds are enough for a cost.
CanBuy(funds, cost) == \A c \in Colour : cost[c] <= funds[c]

Add(a, b) == [c \in Colour |-> a[c] + b[c]]

\* What is left once a cost is paid, which CanBuy allows.
Subtract(a, b) == [c \in Colour |-> a[c] - b[c]]

\* AmmoAmount keeps no more than the maximum.
Limit(a) == [c \in Colour |-> IF a[c] > MaxAmmo THEN MaxAmmo ELSE a[c]]

\* What powerup cards are worth.
Worth(cards) == [c \in Colour |-> Cardinality({p \in cards : ColourOf[p] = c})]
=============================================================================
