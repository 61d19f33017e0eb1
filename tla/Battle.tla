------------------------------- MODULE Battle -------------------------------
(***************************************************************************)
(* Damage, marks, deaths and points: what a player's board holds, what a   *)
(* turn does to it, and how the scoreboard pays for it.  In a domination   *)
(* game there are also control points, with a track each.                  *)
(*                                                                         *)
(* Who plays when is TurnFlow's; here the turns go round.  Everything that *)
(* happens in a turn is done by the player whose turn it is, but for the   *)
(* marks the tagback grenades of those he hurt put on him.                 *)
(***************************************************************************)
EXTENDS Integers, Sequences, FiniteSets, FiniteSetsExt, Functions

CONSTANTS N,           \* number of players
          Points,      \* the control points
          Modes,       \* the game modes that are played
          HP,          \* Actor.HP, the damage that kills
          Overkill,    \* the literal 10 of Scoreboard.addKill
          MaxMarks,    \* the literal 3 of Actor.addMark
          MaxDeaths,   \* skulls on the scoreboard
          TrackLength, \* the literal 8 of DominationMode
          Amounts,     \* bounds, for each mode: the damage of an effect,
          Marks,       \* the marks of an effect,
          MaxActs,     \* the effects of a turn
          MaxTurns     \* and the turns of a game

ASSUME BattleAssumption ==
    /\ N \in Nat \ {0} /\ HP \in Nat \ {0} /\ Overkill \in Nat
    /\ MaxMarks \in Nat \ {0} /\ MaxDeaths \in Nat \ {0} /\ TrackLength \in Nat \ {0}
    /\ Modes \subseteq {"normal", "domination"}
    /\ MaxActs \in [Modes -> Nat] /\ MaxTurns \in [Modes -> Nat]
    /\ Amounts \in [Modes -> SUBSET (Nat \ {0})]
    /\ Marks \in [Modes -> SUBSET (Nat \ {0})]
    /\ IsFiniteSet(Points)

Player == 1..N
ASSUME PointsAssumption == Points \cap Player = {}

VARIABLES
    mode,
    turn,         \* whose turn it is
    phase,        \* "playing", then "ending" while endTurn goes over the actors
    acts,         \* effects merged in this turn
    turns,        \* turns played
    damageTaken,  \* Actor.damageTaken: who did each damage, in order
    marks,        \* Actor.marks: marks[v][a] of a on v
    struck,       \* whom the player damaged in this turn
    hurt,         \* of them, who has yet to be asked for a tagback (Actor.damagedBy)
    points,       \* Actor.points
    numOfDeaths,  \* Scoreboard.numOfDeaths
    track,        \* DominationMode.spawnTracker
    damaged,      \* the control points that were damaged in this turn
    stepped,      \* and those the player ended it on
    pending,      \* whom the loop of endTurn has yet to look at
    frenzyBefore, \* endTurn's local of that name
    last,         \* the player who is lastInFrenzy, 0 if nobody
    winner        \* Scoreboard.claimWinner, 0 if not claimed yet

boards == <<damageTaken, marks, points>>
scoreboard == <<numOfDeaths, track>>
course == <<mode, turn, turns, phase, pending, frenzyBefore, last, winner>>
hits == <<struck, hurt>>
vars == <<course, acts, boards, hits, scoreboard, damaged, stepped>>

\* The control points of this game.
Control == IF mode = "domination" THEN Points ELSE {}

TypeOK ==
    /\ mode \in Modes
    /\ turn \in Player
    /\ phase \in {"playing", "ending", "over"}
    /\ acts \in 0..MaxActs[mode] /\ turns \in 0..MaxTurns[mode]
    /\ damageTaken \in [Player -> Seq(Player)]
    /\ marks \in [Player -> [Player -> 0..MaxMarks]]
    /\ struck \subseteq Player /\ hurt \subseteq struck
    /\ points \in [Player -> Nat]
    /\ numOfDeaths \in Nat
    /\ track \in [Points -> Seq(Player)]
    /\ damaged \subseteq Points /\ stepped \subseteq Points
    /\ pending \subseteq Player \cup Points
    /\ frenzyBefore \in BOOLEAN
    /\ last \in 0..N /\ winner \in 0..N
    /\ \A v \in Player : Len(damageTaken[v]) <= HP + 1
    /\ \A c \in Points : Len(track[c]) <= TrackLength

\* Everybody is on the map, after a first round without a shot.
Init ==
    /\ mode \in Modes
    /\ turn = 1 /\ phase = "playing" /\ acts = 0 /\ turns = 0
    /\ damageTaken = [v \in Player |-> <<>>]
    /\ marks = [v \in Player |-> [a \in Player |-> 0]]
    /\ struck = {} /\ hurt = {}
    /\ points = [p \in Player |-> 0]
    /\ numOfDeaths = 0
    /\ track = [c \in Points |-> <<>>]
    /\ damaged = {} /\ stepped = {} /\ pending = {}
    /\ frenzyBefore = FALSE
    /\ last = 0 /\ winner = 0

-----------------------------------------------------------------------------
(* Actor *)

Less(x, y) == IF x < y THEN x ELSE y

\* damageRaw: what exceeds the board is lost.
DamageRaw(taken, a, n) ==
    taken \o [i \in 1..Less(n, HP + 1 - Len(taken)) |-> a]

\* Slip: three marks of each effect, whatever is there.
AddMarkUncapped(held, a, n) ==
    [held EXCEPT ![a] = @ + Less(n, MaxMarks)]

\* addMark, on one player's marks.
AddMark(held, a, n) ==
    [held EXCEPT ![a] = @ + Less(n, MaxMarks - @)]

\* Slip: the marks come off unpaid.
DamageUnmarked(v, n) ==
    /\ damageTaken' = [damageTaken EXCEPT ![v] = DamageRaw(@, turn, n)]
    /\ marks' = [marks EXCEPT ![v][turn] = 0]

\* damage: the marks of the shooter come off and add to it.
Damage(v, n) ==
    /\ damageTaken' = [damageTaken EXCEPT ![v] = DamageRaw(@, turn, n + marks[v][turn])]
    /\ marks' = [marks EXCEPT ![v][turn] = 0]

\* isDead
Dead(taken) == Len(taken) >= HP

\* How often a is on the board, or track, s.
Count(s, a) == Cardinality({i \in DOMAIN s : s[i] = a})
-----------------------------------------------------------------------------
(* A turn.  Nobody targets himself. *)

Acts ==
    /\ phase = "playing"
    /\ acts < MaxActs[mode]
    /\ acts' = acts + 1
    /\ UNCHANGED <<course, points, scoreboard, stepped>>

Targets == Player \ {turn}

\* DamageEffect.mergeInGameMap
Shoot(v, n) ==
    /\ Acts
    /\ v \in Targets
    /\ Damage(v, n)
    /\ struck' = struck \cup {v} /\ hurt' = hurt \cup {v}
    /\ UNCHANGED damaged

\* The targeting scope adds a damage without a tagback, on somebody who was
\* damaged.
Scope(v) ==
    /\ Acts
    /\ v \in struck
    /\ damageTaken' = [damageTaken EXCEPT ![v] = DamageRaw(@, turn, 1)]
    /\ UNCHANGED <<marks, hits, damaged>>

\* MarkEffect.mergeInGameMap
Mark(v, n) ==
    /\ Acts
    /\ v \in Targets
    /\ marks' = [marks EXCEPT ![v] = AddMark(@, turn, n)]
    /\ UNCHANGED <<damageTaken, hits, damaged>>

\* ControlPointActor.damage; a mark on a control point is lost.
ShootPoint(c) ==
    /\ Acts
    /\ c \in Control \ damaged
    /\ damaged' = damaged \cup {c}
    /\ UNCHANGED <<damageTaken, marks, hits>>

\* resolveEffect asks whoever was hurt, once: he may use a grenade, or not.
Tagback(a) ==
    /\ phase = "playing"
    /\ a \in hurt
    /\ hurt' = hurt \ {a}
    /\ \/ marks' = [marks EXCEPT ![turn] = AddMark(@, a, 1)]
       \/ UNCHANGED marks
    /\ UNCHANGED <<course, acts, struck, damageTaken, points, scoreboard, damaged, stepped>>
-----------------------------------------------------------------------------
(* Scoreboard *)

PointForDeath == <<8, 6, 4, 2, 1, 1, 1, 1>>
PointForDeathFinal == <<2, 1, 1, 1>>
PointForSpawnTracker == <<8, 6, 4, 2, 1>>

\* Scoreboard.finalFrenzy, and its override in DominationMode.
FinalFrenzy(deaths, tracks) ==
    \/ deaths >= MaxDeaths
    \/ Cardinality({c \in Control : Len(tracks[c]) >= TrackLength}) >= 2

\* Slip: the fewest first.
RankingsAscending(s, leftOut) ==
    LET paid == Range(s) \ leftOut
    IN {r \in Bijection(1..Cardinality(paid), paid) :
          \A i, j \in DOMAIN r : i < j => Count(s, r[i]) <= Count(s, r[j])}

\* An order in which the actors on s, but for those left out, are paid: by how
\* often they are there, equals in the order of a hash map.
Rankings(s, leftOut) ==
    LET paid == Range(s) \ leftOut
    IN {r \in Bijection(1..Cardinality(paid), paid) :
          \A i, j \in DOMAIN r : i < j => Count(s, r[i]) >= Count(s, r[j])}

\* What the table pays a in the order r; past its end it pays nothing.
Share(table, r, a) ==
    LET place == CHOOSE i \in DOMAIN r : r[i] = a
    IN IF a \in Range(r) /\ place \in DOMAIN table THEN table[place] ELSE 0

\* score: the first damage is worth a point, and so is the rank of each of the
\* others on the board of v.  The first index into the table is
\* Actor.numOfDeaths, which stays 0.
Score(v, table) ==
    LET taken == damageTaken[v] IN
    \E r \in Rankings(taken, {v}) :
       points' = [a \in Player |-> points[a] + Share(table, r, a)
                                   + (IF a = taken[1] /\ a # v THEN 1 ELSE 0)]

\* addKill: a damage past the tenth puts a mark of the killer on the victim.
AddKill(v) ==
    /\ numOfDeaths' = numOfDeaths + 1
    /\ marks' = IF Len(damageTaken[v]) > Overkill /\ v # turn
                THEN [marks EXCEPT ![v] = AddMark(@, turn, 1)] ELSE marks

\* addSpawnTrackerPoint, twice if the point was damaged and stepped on.
AddTrack(c) ==
    LET n == (IF c \in damaged THEN 1 ELSE 0) + (IF c \in stepped THEN 1 ELSE 0)
    IN track[c] \o [i \in 1..Less(n, TrackLength - Len(track[c])) |-> turn]

\* Slip: the winner is chosen before the tracks are paid.
ClaimEarly ==
    \E r \in [Control -> UNION {Rankings(track[c], {}) : c \in Control}] :
       /\ \A c \in Control : r[c] \in Rankings(track[c], {})
       /\ points' = [a \in Player |-> points[a]
             + SumFunction([c \in Control |-> Share(PointForSpawnTracker, r[c], a)])]
       /\ winner' \in {p \in Player : \A q \in Player : points[q] <= points[p]}

\* claimWinner: in a domination game the tracks are paid first.
ClaimWinner ==
    \E r \in [Control -> UNION {Rankings(track[c], {}) : c \in Control}] :
       /\ \A c \in Control : r[c] \in Rankings(track[c], {})
       /\ points' = [a \in Player |-> points[a]
             + SumFunction([c \in Control |-> Share(PointForSpawnTracker, r[c], a)])]
       /\ winner' \in {p \in Player : \A q \in Player : points'[q] <= points'[p]}

-----------------------------------------------------------------------------
(* MainController.endTurn *)

\* Slip: the dead are looked for before the tiles.
EndTurnEarly ==
    /\ phase = "playing" /\ hurt = {}
    /\ phase' = "ending"
    /\ frenzyBefore' = FinalFrenzy(numOfDeaths, track)
    /\ \/ UNCHANGED <<damageTaken, stepped>>
       \/ \E c \in Control :
             /\ stepped' = {c}
             /\ damageTaken' = [damageTaken EXCEPT ![turn] = DamageRaw(@, turn, 1)]
    /\ pending' = {v \in Player : Dead(damageTaken[v])} \cup damaged \cup stepped'
    /\ UNCHANGED <<mode, turn, turns, acts, last, winner, marks, points, hits,
                   scoreboard, damaged>>

\* The tiles come first: who stands on a control point takes a damage of his own.
EndTurn ==
    /\ phase = "playing" /\ hurt = {}
    /\ phase' = "ending"
    /\ frenzyBefore' = FinalFrenzy(numOfDeaths, track)
    /\ \/ UNCHANGED <<damageTaken, stepped>>
       \/ \E c \in Control :
             /\ stepped' = {c}
             /\ damageTaken' = [damageTaken EXCEPT ![turn] = DamageRaw(@, turn, 1)]
    /\ pending' = {v \in Player : Dead(damageTaken'[v])} \cup damaged \cup stepped'
    /\ UNCHANGED <<mode, turn, turns, acts, last, winner, marks, points, hits,
                   scoreboard, damaged>>

\* Then endTurn of the actors, in the order of a hash map.  It does nothing for a
\* player who is alive, nor for a control point that was left alone.
Settles(u) ==
    /\ phase = "ending"
    /\ u \in pending
    /\ pending' = pending \ {u}
    /\ UNCHANGED <<mode, turn, turns, phase, acts, frenzyBefore, last, winner, hits>>

SettleDead(v) ==
    /\ Settles(v)
    /\ v \in Player
    /\ AddKill(v)
    /\ Score(v, IF FinalFrenzy(numOfDeaths', track) THEN PointForDeathFinal ELSE PointForDeath)
    /\ damageTaken' = [damageTaken EXCEPT ![v] = <<>>]
    /\ UNCHANGED <<track, damaged, stepped>>

SettlePoint(c) ==
    /\ Settles(c)
    /\ c \in Control
    /\ track' = [track EXCEPT ![c] = AddTrack(c)]
    /\ damaged' = damaged \ {c} /\ stepped' = stepped \ {c}
    /\ UNCHANGED <<boards, numOfDeaths>>

NextPlayer == IF turn = N THEN 1 ELSE turn + 1

\* The rest of endTurn: the next turn starts, unless this was the turn of the last
\* in the frenzy.  The game may be closing at the end of any turn.
EndGame ==
    /\ phase = "ending" /\ pending = {}
    /\ phase' = "over"
    /\ ClaimWinner
    /\ last' = IF ~frenzyBefore /\ FinalFrenzy(numOfDeaths, track) THEN turn ELSE last
    /\ UNCHANGED <<mode, turn, turns, acts, pending, frenzyBefore, damageTaken, marks,
                   hits, scoreboard, damaged, stepped>>

NextTurn ==
    /\ phase = "ending" /\ pending = {}
    /\ ~(FinalFrenzy(numOfDeaths, track) /\ last = turn)
    /\ last' = IF ~frenzyBefore /\ FinalFrenzy(numOfDeaths, track) THEN turn ELSE last
    /\ phase' = "playing" /\ turn' = NextPlayer /\ acts' = 0
    /\ turns < MaxTurns[mode] /\ turns' = turns + 1
    /\ struck' = {} /\ frenzyBefore' = FALSE
    /\ UNCHANGED <<mode, pending, winner, boards, hurt, scoreboard, damaged,
                   stepped>>

Next ==
    \/ \E v \in Player, n \in Amounts[mode] : Shoot(v, n)
    \/ \E v \in Player, n \in Marks[mode] : Mark(v, n)
    \/ \E v \in Player : Scope(v) \/ Tagback(v) \/ SettleDead(v)
    \/ \E c \in Points : ShootPoint(c) \/ SettlePoint(c)
    \/ EndTurn
    \/ EndGame \/ NextTurn

Spec == Init /\ [][Next]_vars
-----------------------------------------------------------------------------
(* Properties *)

\* How often each player is on s, but for who is left out.
Tally(s, leftOut) == [a \in Player |-> IF a \in leftOut THEN 0 ELSE Count(s, a)]

Entry(table, i) == IF i \in DOMAIN table THEN table[i] ELSE 0

\* What a may be paid for his place in the tally t: places of equals are contested.
Worth(table, t, a) ==
    LET above   == Cardinality({b \in Player : t[b] > t[a]})
        atLeast == Cardinality({b \in Player : t[b] >= t[a]})
    IN IF t[a] = 0 THEN {0} ELSE {Entry(table, i) : i \in above + 1..atLeast}

\* What is paid for the tally t altogether.
Payable(table, t) ==
    SumFunction([i \in 1..Cardinality({a \in Player : t[a] > 0}) |-> Entry(table, i)])

Gain(a) == points'[a] - points[a]

\* A death is paid once, by rank: whoever did more damage gets no less, the whole
\* row of the table is paid and not more, the first damage is worth one point, and
\* the dead player earns nothing.  (Scoreboard.score)
PaidByRank ==
    [][\A v \in Player : v \in pending \ pending' =>
          LET tally == Tally(damageTaken[v], {v})
              table == IF FinalFrenzy(numOfDeaths', track) THEN PointForDeathFinal
                       ELSE PointForDeath
              first(a) == IF a = damageTaken[v][1] /\ a # v THEN 1 ELSE 0
          IN /\ \A a \in Player : Gain(a) - first(a) \in Worth(table, tally, a)
             /\ SumFunction([a \in Player |-> Gain(a) - first(a)]) = Payable(table, tally)]_vars

\* Points are paid for deaths and at the end only; there each track is paid by
\* rank, all of it, and the winner is nobody's inferior afterwards.
\* (DominationMode.claimWinner)
FairEnd ==
    [][/\ points' # points => pending' # pending \/ phase' = "over"
       /\ phase' = "over" /\ phase # "over" =>
             LET tally == [c \in Control |-> Tally(track[c], {})]
                 worth(c, a) == Worth(PointForSpawnTracker, tally[c], a)
             IN /\ \A a \in Player :
                      Gain(a) \in SumFunction([c \in Control |-> Min(worth(c, a))])
                                ..SumFunction([c \in Control |-> Max(worth(c, a))])
                /\ SumFunction([a \in Player |-> Gain(a)])
                     = SumFunction([c \in Control |->
                                      Payable(PointForSpawnTracker, tally[c])])
                /\ \A p \in Player : points'[p] <= points'[winner']]_vars

\* A mark is not lost, not even by a death: it comes off only as a damage of whoever
\* put it there, with the others of his, as far as there is room on the board.
\* (Actor.damage, Actor.addMark)
MarksPayOff ==
    [][\A v, a \in Player : marks'[v][a] < marks[v][a] =>
          /\ a = turn /\ marks'[v][a] = 0
          /\ Count(damageTaken'[v], a) >
                Less(HP - Len(damageTaken[v]) + Count(damageTaken[v], a),
                     Count(damageTaken[v], a) + marks[v][a])]_vars

\* Who is dead has died in the turn that is being played, which is not his own, or
\* waits to be scored; so nobody starts a turn, or ends the game, unscored.
\* (MainController.endTurn)
DeadAreSettled ==
    \A v \in Player : Dead(damageTaken[v]) =>
       (phase = "playing" /\ v # turn) \/ (phase = "ending" /\ v \in pending)
=============================================================================
