----------------------------- MODULE MCTargeting -----------------------------
(***************************************************************************)
(* The second map of the game (map2.txt), and weapons (weapons.txt) whose  *)
(* targeters make use of all selectors and conditions.  Rooms and doors:   *)
(*                                                                         *)
(*     0   1   2 - 3      0 1 2 blue, 3 green: rooms of one tile are 3     *)
(*     |       |   |                           and 9                       *)
(*     4   5 | 6   7      4 5 red, 6 7 10 11 yellow                        *)
(*         |                                                               *)
(*         9 - 10  11     9 white; there is no tile 8                      *)
(***************************************************************************)
EXTENDS Targeting

CONSTANTS you, foe, other, cp, blue, red, green, white, yellow, off, idle

MCRoom ==
    [t \in 0..11 |-> CASE t \in 0..2 -> blue [] t = 3 -> green [] t \in 4..5 -> red
                      [] t \in {8, 9} -> white [] OTHER -> yellow]
MCDoor == {{0, 4}, {2, 6}, {2, 3}, {3, 7}, {5, 9}, {9, 10}}
MCSpot == cp :> 2

OtherSymmetry == Permutations({foe, other})

\* name type (by min max of), as in the weapons' file
T(name, type, by, min, max, of, filters) ==
    [name |-> name, type |-> type, by |-> by, min |-> min, max |-> max, logical |-> TRUE,
     of |-> of, filters |-> filters, new |-> FALSE, optional |-> FALSE, automatic |-> FALSE]
F(by, min, max, of) ==
    [by |-> by, min |-> min, max |-> max, logical |-> TRUE, of |-> of, negated |-> FALSE]
Not(f) == [f EXCEPT !.negated = TRUE]
New(t) == [t EXCEPT !.new = TRUE]
Optional(t) == [t EXCEPT !.optional = TRUE]
Automatic(t) == [t EXCEPT !.automatic = TRUE]
Physical(t) == [t EXCEPT !.logical = FALSE]

Damage(x) == [do |-> "damage", target |-> x, to |-> "self"]
MoveTo(x, t) == [do |-> "move", target |-> x, to |-> t]

Main(targeters, effects) ==
    [main |-> TRUE, targeters |-> targeters, effects |-> effects, before |-> {}, without |-> {}]
Extra(targeters, effects) == [Main(targeters, effects) EXCEPT !.main = FALSE]
After(a, action) == [action EXCEPT !.before = {a}]
Without(a, action) == [action EXCEPT !.without = {a}]

MCActionOf ==
    [thor |-> Main(<<New(T("targ1", "pawn", "seen", 0, 0, "self", {}))>>, <<Damage("targ1")>>),
     chain |-> After("thor",
        Extra(<<New(T("targ2", "pawn", "seen", 0, 0, "targ1", {}))>>, <<Damage("targ2")>>)),
     vortex |-> Main(<<T("buco", "tile", "seen", 0, 0, "self", {Not(F("distant", 0, 0, "self"))}),
                       New(T("targ1", "pawn", "exists", 0, 0, "self", {F("reaches", 0, 1, "buco")}))>>,
                     <<MoveTo("targ1", "buco"), Damage("targ1")>>),
     tractor |-> Without("punisher",
        Main(<<New(T("targ1", "pawn", "exists", 0, 0, "self", {})),
               T("tiled", "tile", "reached", 0, 2, "targ1", {F("seen", 0, 0, "self")})>>,
             <<MoveTo("targ1", "tiled"), Damage("targ1")>>)),
     punisher |-> Without("tractor",
        Extra(<<Automatic(T("tiles", "tile", "has", 0, 0, "self", {})),
                New(T("targ1", "pawn", "exists", 0, 0, "self", {F("reaches", 0, 2, "tiles")}))>>,
              <<MoveTo("targ1", "tiles"), Damage("targ1")>>)),
     furnace |-> Main(<<T("room1", "room", "seen", 0, 0, "self", {Not(F("has", 0, 0, "self"))})>>,
                      <<Damage("room1")>>),
     flames |-> Main(<<T("tile1", "tile", "distant", 1, 1, "self", {}),
                       Automatic(T("dir", "direction", "has", 0, 0, "self", {F("has", 0, 0, "tile1")})),
                       Optional(Automatic(T("tile2", "tile", "in", 0, 0, "dir", {F("distant", 2, 2, "self")}))),
                       New(Optional(T("targ1", "pawn", "in", 0, 0, "tile1", {}))),
                       New(Optional(T("targ2", "pawn", "in", 0, 0, "tile2", {})))>>,
                     <<Damage("targ1"), Damage("targ2")>>),
     laser |-> Main(<<Physical(T("dirsel", "tile", "distant", 1, 1, "self", {})),
                      Automatic(T("direz", "directionph", "has", 0, 0, "self", {F("has", 0, 0, "dirsel")})),
                      New(T("targ1", "pawn", "in", 0, 0, "direz", {}))>>,
                    <<Damage("targ1")>>),
     wave |-> Main(<<Automatic(T("grp", "group", "distant", 1, 1, "self", {}))>>, <<Damage("grp")>>),
     rocket |-> Main(<<New(T("targ0", "pawn", "seen", 0, 0, "self", {Not(F("distant", 0, 0, "self"))})),
                       T("tile1", "tile", "reached", 0, 1, "targ0", {})>>,
                     <<Damage("targ0"), MoveTo("targ0", "tile1")>>),
     jump |-> Extra(<<T("tile0", "tile", "distant", 1, 2, "self", {})>>, <<MoveTo("self", "tile0")>>)]

MCWeapon ==
    [torpedine |-> {"thor", "chain"}, vortex |-> {"vortex"}, raggio |-> {"tractor", "punisher"},
     vulcan |-> {"furnace"}, fiamme |-> {"flames"}, laser |-> {"laser"}, onda |-> {"wave"},
     razzi |-> {"rocket", "jump"}]
=============================================================================
