------------------------------ MODULE Targeting ------------------------------
(***************************************************************************)
(* A player uses a weapon: actions with their targeters, the targets these *)
(* offer, the moves and the damage foreseen in a Sandbox, and what becomes *)
(* of them on the map (WeaponUse, Action, Targeter, the selectors,         *)
(* conditions and targets, Sandbox, MoveTemplate, DamageTemplate).         *)
(* What an action costs is Actions's.                                      *)
(***************************************************************************)
EXTENDS Board, FiniteSets, SequencesExt

CONSTANTS
    Player,
    Point,      \* the control points, which are pawns too
    Shooter,    \* the player who plays
    Spot,       \* the tile of each control point
    Nowhere,    \* the tile of who is dead (GameMap.emptyTile)
    Weapon,     \* the names of the actions of each weapon
    ActionOf,   \* [targeters, effects, before, without] of each action
    Idle        \* no weapon is in use

ASSUME TargetingAssumption ==
    /\ Shooter \in Player
    /\ Player \cap Point = {}
    /\ Spot \in [Point -> Tile]
    /\ Nowhere \notin Tile
    /\ \A w \in DOMAIN Weapon : Weapon[w] \subseteq DOMAIN ActionOf

(* What the weapons of the game have in common (weapons.txt).               *)

Targeters(a) == Range(ActionOf[a].targeters)
Targeter == UNION {Targeters(a) : a \in DOMAIN ActionOf}
Effect == UNION {Range(ActionOf[a].effects) : a \in DOMAIN ActionOf}

\* The types of the targets of weapon w that go by the name n.
TypesOf(w, n) == {t.type : t \in {u \in UNION {Targeters(a) : a \in Weapon[w]} : u.name = n}}

\* A pawn is moved to a tile that is reached from it, or picked for a tile it reaches.
Guided(w, a, e) ==
    LET ts == ActionOf[a].targeters
        later(i) == {ts[j].name : j \in {k \in DOMAIN ts : k > i}}
    IN /\ TypesOf(w, e.target) \subseteq {"pawn"} /\ TypesOf(w, e.to) \subseteq {"tile"}
       /\ e.to # "self"
       /\ \E i \in DOMAIN ts :
             \/ /\ ts[i].name = e.to /\ ts[i].by = "reached" /\ ts[i].of = e.target
                /\ e.target \notin later(i)
             \/ /\ ts[i].name = e.target /\ e.to \notin later(i)
                /\ \E f \in ts[i].filters : f.by = "reaches" /\ f.of = e.to /\ ~f.negated

ASSUME ActionAssumption ==
    \A a \in DOMAIN ActionOf :
        /\ ActionOf[a].targeters \in Seq(Targeter)
        /\ ActionOf[a].effects \in Seq(Effect)
        /\ \A e \in Range(ActionOf[a].effects) : e.do \in {"move", "damage"}
        /\ \A t \in Targeters(a) :
              /\ t.type \in {"pawn", "group", "tile", "room", "direction", "directionph"}
              /\ t.by \in {"exists", "seen", "distant", "reached", "has", "in"}
              /\ t.min \in Int /\ t.max \in Int /\ t.logical \in BOOLEAN
              /\ t.name # "self"
              /\ \A f \in t.filters : f.negated \in BOOLEAN /\ f.logical \in BOOLEAN
        /\ \A i, j \in DOMAIN ActionOf[a].targeters :
              ActionOf[a].targeters[i].name = ActionOf[a].targeters[j].name => i = j

\* A selector that asks where its source is has a pawn or a tile for a source; two
\* actions that use a name exclude each other (ParserWeapon adds to both).
ASSUME WeaponAssumption ==
    \A w \in DOMAIN Weapon : \A a \in Weapon[w] :
        /\ \A t \in Targeters(a) :
              t.by \in {"seen", "distant", "reached", "has"}
                  => TypesOf(w, t.of) \subseteq {"pawn", "tile"}
        /\ \A e \in Range(ActionOf[a].effects) :
              e.do = "move" => e.target = "self" \/ Guided(w, a, e)
        /\ \A b \in Weapon[w] \ {a} :
              (\E t \in Targeters(a), u \in Targeters(b) : t.name = u.name)
                  => a \in ActionOf[b].without /\ b \in ActionOf[a].without

(* What the rules count on, of the weapons.                                 *)

Moves(a) == {e \in Range(ActionOf[a].effects) : e.do = "move"}
Exclude(a, b) == a \in ActionOf[b].without /\ b \in ActionOf[a].without

\* A pawn goes to a tile that is picked at most two steps from it.
ShortMove(a, e) ==
    LET ts == ActionOf[a].targeters IN
    \E i \in DOMAIN ts :
        \/ /\ ts[i].name = e.to /\ ts[i].type = "tile" /\ ts[i].of = e.target
           /\ ts[i].by = "reached" \/ (ts[i].by = "distant" /\ ts[i].logical)
           /\ ts[i].max \in 0..2
        \/ /\ ts[i].name = e.target /\ ts[i].type = "pawn"
           /\ \A j \in DOMAIN ts : j >= i => ts[j].name # e.to
           /\ \E f \in ts[i].filters :
                 f.by = "reaches" /\ f.of = e.to /\ f.max \in 0..2 /\ ~f.negated

\* The pawn of an effect is picked by the action itself, among those not picked before.
PicksNew(a, e) == \E t \in Targeters(a) : t.name = e.target /\ t.new

\* Two actions do not move the same pawn.
Apart(a, b) ==
    \A e \in Moves(a), f \in Moves(b) :
        \/ (e.target = "self") # (f.target = "self")
        \/ PicksNew(a, e) /\ PicksNew(b, f)

\* What a targeter starts from was acquired before it, if it is not the player.
Sourced(a, i) ==
    LET ts == ActionOf[a].targeters IN
    \/ ts[i].of = "self"
    \/ \E j \in DOMAIN ts : j < i /\ ts[j].name = ts[i].of /\ ~ts[j].optional
    \/ \E b \in ActionOf[a].before : \E t \in Targeters(b) : t.name = ts[i].of /\ ~t.optional

Is(t, name, type, by, of) == t.name = name /\ t.type = type /\ t.by = by /\ t.of = of

\* The flamethrower burns a tile next to the player and the next one in that direction,
\* if there is one.
FlamesAction(a) ==
    LET ts == a.targeters IN
    /\ Len(ts) = 5
    /\ Is(ts[1], "tile1", "tile", "distant", "self")
    /\ ts[1].min = 1 /\ ts[1].max = 1 /\ ts[1].logical /\ ~ts[1].optional
    /\ Is(ts[2], "dir", "direction", "has", "self") /\ ~ts[2].optional
    /\ \E f \in ts[2].filters : f.by = "has" /\ f.of = "tile1" /\ ~f.negated
    /\ Is(ts[3], "tile2", "tile", "in", "dir") /\ ts[3].automatic /\ ~ts[3].new
    /\ ts[3].filters # {}
    /\ \A f \in ts[3].filters :
          f.by = "distant" /\ f.min = 2 /\ f.max = 2 /\ f.logical /\ f.of = "self" /\ ~f.negated
    /\ Is(ts[4], "targ1", "pawn", "in", "tile1")
    /\ Is(ts[5], "targ2", "pawn", "in", "tile2")
    /\ \A e \in Range(a.effects) : e.do = "damage" /\ e.target \in {"targ1", "targ2"}

\* The laser hits one pawn in a direction, walls or no walls.
LaserAction(a) ==
    LET ts == a.targeters IN
    /\ \E i, j \in DOMAIN ts : /\ Is(ts[i], "direz", "directionph", "has", "self")
                               /\ Is(ts[j], "targ1", "pawn", "in", "direz")
    /\ \A e \in Range(a.effects) : e.do = "damage" /\ e.target = "targ1"

ASSUME ShotAssumption ==
    /\ \A w \in DOMAIN Weapon : \A a \in Weapon[w] :
          /\ \A e \in Moves(a) : ShortMove(a, e)
          /\ \A b \in Weapon[w] \ {a} : Exclude(a, b) \/ Apart(a, b)
          /\ a \in {"flames", "laser"} => \A b \in Weapon[w] \ {a} : Exclude(a, b)
          /\ \A i \in DOMAIN ActionOf[a].targeters :
                Sourced(a, i) \/ (a = "flames" /\ ActionOf[a].targeters[i].of = "tile2")
    /\ "flames" \in DOMAIN ActionOf => FlamesAction(ActionOf["flames"])
    /\ "laser" \in DOMAIN ActionOf => LaserAction(ActionOf["laser"])

VARIABLES
    at,    \* the tile of each pawn on the map (Pawn.getTile)
    plan   \* the weapon in use: what is asked, and the Sandbox so far

vars == <<at, plan>>

Pawn == Player \cup Point

\* f, and g where f says nothing.
Over(f, g) == [x \in DOMAIN f \cup DOMAIN g |-> IF x \in DOMAIN f THEN f[x] ELSE g[x]]

\* Sandbox.tile
Place(p) == Over(p.moved, at)

-----------------------------------------------------------------------------
(* Targets.  A target is a record: what it is, and which.                  *)

Target(is, id) == [is |-> is, id |-> id]

Same(x, y) == x.is = y.is /\ x.id = y.id

On(place, tiles) == {p \in Pawn : place[p] \in tiles}

\* getSelectedTiles, containedTiles, and location for a pawn or a tile
TilesOf(place, x) ==
    CASE x.is = "pawn" -> {place[x.id]}
      [] x.is = "group" -> {place[p] : p \in x.id}
      [] x.is = "tile" -> {x.id}
      [] x.is = "room" -> InRoom(x.id)
      [] x.is = "direction" -> x.id

\* getSelectedPawns
PawnsOf(place, x) ==
    CASE x.is = "pawn" -> {x.id}
      [] x.is = "group" -> x.id
      [] OTHER -> On(place, TilesOf(place, x))

LocationOf(place, x) == IF x.is = "pawn" THEN place[x.id] ELSE x.id

IsPoint(x) == x.is = "pawn" /\ x.id \in Point

\* A control point is blind.
Seen(place, x) == IF IsPoint(x) THEN {} ELSE TilesSeen(LocationOf(place, x))

Distant(place, x, min, max, logical) ==
    LET from == LocationOf(place, x) IN Circle(from, max, logical) \ Circle(from, min - 1, logical)

\* Slip: a control point goes like everybody else.
ReachableByAll(place, x, min, max) == Distant(place, x, min, max, TRUE)

\* A control point does not go anywhere (DominationPointTarget).
Reachable(place, x, min, max) ==
    LET from == LocationOf(place, x)
        within(r) == IF ~IsPoint(x) THEN Circle(from, r, TRUE)
                     ELSE IF r < 0 THEN {} ELSE {from}
    IN within(max) \ within(min - 1)

\* The tiles a selector starts from the target x.
Selected(place, s, x) ==
    CASE s.by = "exists" -> Tile
      [] s.by = "seen" -> Seen(place, x)
      [] s.by = "distant" -> Distant(place, x, s.min, s.max, s.logical)
      [] s.by = "reached" -> Reachable(place, x, s.min, s.max)
      [] s.by = "has" -> {LocationOf(place, x)}
      [] s.by = "in" -> TilesOf(place, x)

\* Condition.checkTarget of the target x, against the target y acquired before.
Meets(place, f, x, y) ==
    LET met ==
            CASE f.by = "seen" -> TilesOf(place, x) \cap Seen(place, y) # {}
              [] f.by = "distant" ->
                    TilesOf(place, x) \cap Distant(place, y, f.min, f.max, f.logical) # {}
              [] f.by = "reaches" ->
                    TilesOf(place, y) \cap Reachable(place, x, f.min, f.max) # {}
              [] f.by = "has" -> LocationOf(place, y) \in TilesOf(place, x)
              [] f.by = "in" -> LocationOf(place, x) \in TilesOf(place, y)
    IN met # f.negated

\* Targeter.targetBuilders: the targets of a type on a tile.
Built(place, type, t) ==
    CASE type \in {"pawn", "group"} -> {Target("pawn", p) : p \in On(place, {t})}
      [] type = "tile" -> {Target("tile", t)}
      [] type = "room" -> {Target("room", Room[t])}
      [] type = "direction" ->
            {Target("direction", Line(t, d, TRUE)) : d \in DOMAIN Neighbors(t, TRUE)}
      [] type = "directionph" ->
            {Target("direction", Line(t, d, FALSE)) : d \in DOMAIN Neighbors(t, FALSE)}

\* Slip: what was acquired before is not looked at.
GiveAllChoices(p, t) ==
    LET place == Place(p) IN
    UNION {Built(place, t.type, u) : u \in Selected(place, t, p.targets[t.of])}
        \ {Target("pawn", Shooter)}

\* Targeter.giveChoices: the targets that are offered.  A condition on a target
\* that was not acquired is not applied.
GiveChoices(p, t) ==
    LET place == Place(p)
        built == UNION {Built(place, t.type, u) : u \in Selected(place, t, p.targets[t.of])}
        legal == {x \in built \ {Target("pawn", Shooter)} :
                    \A f \in t.filters :
                        f.of \in DOMAIN p.targets => Meets(place, f, x, p.targets[f.of])}
        whole == IF t.type = "group" /\ legal # {}
                 THEN {Target("group", {x.id : x \in legal})}
                 ELSE legal
    IN {x \in whole : t.new => \A n \in DOMAIN p.targets : ~Same(x, p.targets[n])}

-----------------------------------------------------------------------------
(* Action.iterate *)

\* One targeter, for a plan that has come as far as this.  An automatic one takes
\* the first target of a set, so any; a skipped one leaves no target.
Resolve(p, t) ==
    LET c == GiveChoices(p, t) IN
    IF p.ask # "next" THEN {[p EXCEPT !.todo = Append(@, t)]}
    ELSE IF t.of \notin DOMAIN p.targets THEN {[p EXCEPT !.ask = "exception"]}
    ELSE IF c = {} /\ ~t.optional THEN {[p EXCEPT !.ask = "rollback"]}
    ELSE IF ~t.automatic THEN {[p EXCEPT !.ask = "target", !.todo = <<t>>]}
    ELSE IF c = {} THEN {p}
    ELSE {[p EXCEPT !.targets = Over([n \in {t.name} |-> x], @)] : x \in c}

\* MoveTemplate.spawn and DamageTemplate.spawn: an effect whose targets were not
\* acquired is left out.  Nobody damages himself.
Spawn(p, e) ==
    LET place == Place(p)
        who == PawnsOf(place, p.targets[e.target])
        to == CHOOSE t \in TilesOf(place, p.targets[e.to]) : TRUE
    IN CASE e.do = "move" ->
              IF e.target \in DOMAIN p.targets /\ e.to \in DOMAIN p.targets
              THEN [p EXCEPT !.moved = Over([x \in who |-> to], @),
                             !.history = Append(@, [do |-> "move", who |-> who, to |-> to])]
              ELSE p
         [] e.do = "damage" ->
              IF e.target \in DOMAIN p.targets
              THEN [p EXCEPT !.history = Append(@, [do |-> "damage", who |-> who \ {Shooter},
                                                    to |-> place[Shooter]])]
              ELSE p

ResolveAll(ps, t) == UNION {Resolve(p, t) : p \in ps}

\* The targeters are run as far as the next question; after the last one the
\* effects are added to the Sandbox, and the player is asked for another action.
Iterate(p) ==
    LET start == [p EXCEPT !.ask = "next", !.todo = <<>>]
        run == FoldLeft(ResolveAll, {start}, p.todo)
        finish(q) == [FoldLeft(Spawn, q, ActionOf[q.now].effects) EXCEPT !.ask = "action"]
    IN {IF q.ask = "next" THEN finish(q) ELSE q : q \in run}

\* ActionTemplate.actionAvailable
Available(p) ==
    {a \in Weapon[p.weapon] \ p.done :
        ActionOf[a].before \subseteq p.done /\ ActionOf[a].without \cap p.done = {}}

\* WeaponUse.canStop: not at first, and not while the main action is to be had.
CanStop(p) == p.done # {} /\ \A a \in Available(p) : ~ActionOf[a].main

-----------------------------------------------------------------------------
(* Steps *)

Init ==
    /\ \E place \in [Player -> Tile \cup {Nowhere}] :
          place[Shooter] # Nowhere /\ at = Over(Spot, place)
    /\ plan = Idle

\* The weapon is taken up.
TakeWeapon(w) ==
    /\ plan = Idle
    /\ plan' = [weapon |-> w, done |-> {}, now |-> Idle, ask |-> "action", todo |-> <<>>,
                targets |-> [n \in {"self"} |-> Target("pawn", Shooter)],
                moved |-> <<>>, history |-> <<>>]
    /\ UNCHANGED at

\* WeaponUse.pickAction
PickAction(a) ==
    /\ plan # Idle /\ plan.ask = "action"
    /\ a \in Available(plan)
    /\ plan' \in Iterate([plan EXCEPT !.now = a, !.done = @ \cup {a},
                                      !.todo = ActionOf[a].targeters])
    /\ UNCHANGED at

\* The player picks a target, which the rest of the targeters may start from.
PickTarget ==
    /\ plan # Idle /\ plan.ask = "target"
    /\ LET t == Head(plan.todo) IN
       \E x \in GiveChoices(plan, t) :
          plan' \in Iterate([plan EXCEPT !.targets = Over([n \in {t.name} |-> x], @),
                                         !.todo = Tail(@)])
    /\ UNCHANGED at

\* He picks none; a target that is not optional is asked for again.
SkipTarget ==
    /\ plan # Idle /\ plan.ask = "target"
    /\ plan' \in IF Head(plan.todo).optional
                 THEN Iterate([plan EXCEPT !.todo = Tail(@)])
                 ELSE {[plan EXCEPT !.ask = "rollback"]}
    /\ UNCHANGED at

\* ClientController.restartSelection; a rollback or an exception leaves him no
\* choice but to go back, of which this is the way back to the start.
GoBack ==
    /\ plan # Idle
    /\ plan' = Idle
    /\ UNCHANGED at

\* MoveEffect.mergeInGameMap and Pawn.move, which does nothing to a control point.
Move(place, e) ==
    IF e.do = "move" THEN Over([p \in e.who \cap Player |-> e.to], place) ELSE place

\* He stops, and the effects are merged.
Confirm ==
    /\ plan # Idle /\ plan.ask = "action"
    /\ CanStop(plan)
    /\ at' = FoldLeft(Move, at, plan.history)
    /\ plan' = Idle

Next ==
    \/ \E w \in DOMAIN Weapon : TakeWeapon(w)
    \/ \E a \in DOMAIN ActionOf : PickAction(a)
    \/ PickTarget
    \/ SkipTarget
    \/ GoBack
    \/ Confirm

Spec == Init /\ [][Next]_vars

-----------------------------------------------------------------------------
(* Properties *)

TypeOK ==
    /\ at \in [Pawn -> Tile \cup {Nowhere}]
    /\ \A c \in Point : at[c] = Spot[c]
    /\ at[Shooter] # Nowhere
    /\ plan # Idle =>
        /\ plan.ask \in {"action", "target", "rollback", "exception"}
        /\ plan.ask = "target" => plan.todo # <<>>
        /\ plan.done \subseteq Weapon[plan.weapon]
        /\ Place(plan) \in [Pawn -> Tile \cup {Nowhere}]

\* What the rules say, from the geometry of the board: one may pass between two
\* tiles side by side of one room, or with a door.
Row(t) == t \div Length
Column(t) == t % Length
Passage(t, u) ==
    /\ {t, u} \subseteq Tile
    /\ \/ Row(t) = Row(u) /\ Column(t) - Column(u) \in {-1, 1}
       \/ Column(t) = Column(u) /\ Row(t) - Row(u) \in {-1, 1}
    /\ Room[t] = Room[u] \/ {t, u} \in Door

\* The end of a row and the start of the next, which ParserMap takes for neighbours,
\* are of different rooms and have no door between them, as on all maps of the game.
ASSUME RowsApart ==
    \A t \in Tile :
        Column(t) = Length - 1 /\ t + 1 \in Tile =>
            Room[t] # Room[t + 1] /\ {t, t + 1} \notin Door

Walk(t, u, n) ==
    \E way \in [0..n -> Tile] :
        /\ way[0] = t /\ way[n] = u
        /\ \A i \in 0..n - 1 : way[i] = way[i + 1] \/ Passage(way[i], way[i + 1])

\* The tiles of a straight way, in one direction and through no wall.
Straight(s, d, t) ==
    \E n \in 0..2 :
        /\ t = s + n * Diff[d]
        /\ \A i \in 0..n - 1 : Passage(s + i * Diff[d], s + (i + 1) * Diff[d])

\* Nobody is taken further than two steps, and the dead stay where they are.
WithinTwoSteps ==
    \A p \in Pawn :
        LET to == Place(plan)[p] IN
        to # at[p] => at[p] # Nowhere /\ Walk(at[p], to, 2)

Struck == UNION {plan.history[i].who :
                    i \in {j \in DOMAIN plan.history : plan.history[j].do = "damage"}}

\* The flames burn in one line.
FlamesInLine ==
    plan.now = "flames" =>
        \E d \in Direction : \A p \in Struck : Straight(at[Shooter], d, at[p])

\* The laser shoots along a row or a column, or over the end of a row into the next.
LaserInLine ==
    plan.now = "laser" =>
        \A p \in Struck :
            \/ Row(at[p]) = Row(at[Shooter]) \/ Column(at[p]) = Column(at[Shooter])
            \/ \E t \in plan.targets["direz"].id :
                    Column(t) = Length - 1 /\ t + 1 \in plan.targets["direz"].id

\* A selector lacks the target it starts from only where an optional one could not
\* be had: the flames have no second tile to go to.
FailsOnlyShort ==
    plan.ask = "exception" =>
        \A d \in Direction :
            plan.targets["tile1"].id = at[Shooter] + Diff[d] =>
                ~Straight(at[Shooter], d, at[Shooter] + 2 * Diff[d])

\* Whatever targets the player picks, on the way through the targeters of several
\* actions whose effects move the pawns they start from: nobody is taken
\* further than the weapons' rules allow, the flames go straight and through no
\* wall, the laser strays only over the end of a row, and the targeters fail only
\* where the flames run out of tiles.
ShotsAsRuled ==
    plan # Idle => WithinTwoSteps /\ FlamesInLine /\ LaserInLine /\ FailsOnlyShort

\* The Sandbox's sight is GameMap.getVisible's, with one exception: who stands in
\* a room of one tile does not see who is there with him.
SightAgrees ==
    \A p \in Player \ {Shooter} :
        at[p] # Nowhere =>
            LET alone == at[p] = at[Shooter] /\ InRoom(Room[at[p]]) = {at[p]} IN
            at[p] \in Seen(at, Target("pawn", Shooter))
                <=> at[p] \in Visible(at[Shooter]) /\ ~alone

\* When the plan is confirmed everybody stands where the Sandbox has shown him to
\* stand, control points, which Pawn.move does not move, included.
AsForeseen == [][Confirm => at' = Place(plan)]_vars
=============================================================================
