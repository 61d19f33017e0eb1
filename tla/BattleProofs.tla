---------------------------- MODULE BattleProofs ----------------------------
(***************************************************************************)
(* Proofs about Battle, for every number of players, board and track       *)
(* length, game mode, and set of damages and marks an effect may do.       *)
(***************************************************************************)
EXTENDS Battle, Sums, SequenceTheorems, TLAPS

-----------------------------------------------------------------------------
(* Types *)

\* Boards and tracks only grow up to their length: the shape of the things that
\* are on the table.
BoardTypes ==
    /\ damageTaken \in [Player -> Seq(Player)]
    /\ marks \in [Player -> [Player -> 0..MaxMarks]]
    /\ \A v \in Player : Len(damageTaken[v]) <= HP + 1

TrackTypes ==
    /\ track \in [Points -> Seq(Player)]
    /\ \A c \in Points : Len(track[c]) <= TrackLength

\* The course of the game and the scoreboard.
CourseTypes ==
    /\ mode \in Modes /\ turn \in Player /\ phase \in {"playing", "ending", "over"}
    /\ acts \in 0..MaxActs[mode] /\ turns \in 0..MaxTurns[mode]
    /\ struck \subseteq Player /\ hurt \subseteq struck
    /\ points \in [Player -> Nat] /\ numOfDeaths \in Nat
    /\ damaged \subseteq Points /\ stepped \subseteq Points
    /\ pending \subseteq Player \cup Points
    /\ frenzyBefore \in BOOLEAN /\ last \in 0..N /\ winner \in 0..N

\* The turn that is played: nobody hurts himself, and nothing of it is left when
\* the next one starts.
Course ==
    /\ hurt \subseteq struck /\ struck \subseteq Player \ {turn}
    /\ phase # "playing" => hurt = {}
    /\ phase # "ending" => pending = {}

TypeInv == BoardTypes /\ TrackTypes /\ CourseTypes /\ Course

\* A player more on somebody's list n times, up to a length.
Extended(s, a, n, max) == s \o [i \in 1..Less(n, max - Len(s)) |-> a]

\* Appending somebody to a board or a track stays within its length, and keeps
\* what is there.
LEMMA ExtendedType ==
    ASSUME NEW s \in Seq(Player), NEW a \in Player, NEW n \in Nat, NEW max \in Nat,
           Len(s) <= max
    PROVE  /\ Extended(s, a, n, max) \in Seq(Player)
           /\ Len(Extended(s, a, n, max)) = Len(s) + Less(n, max - Len(s))
           /\ Len(Extended(s, a, n, max)) <= max
           /\ \A i \in 1..Len(Extended(s, a, n, max)) :
                 Extended(s, a, n, max)[i] = IF i <= Len(s) THEN s[i] ELSE a
<1> DEFINE k == Less(n, max - Len(s))
           more == [i \in 1..k |-> a]
<1>1. Len(s) \in Nat
  BY LenProperties
<1>2. k \in Nat /\ Len(s) + k <= max
  BY <1>1 DEF Less
<1>3. more \in Seq(Player) /\ Len(more) = k /\ \A i \in 1..k : more[i] = a
  <2> HIDE DEF k
  <2>1. more \in [1..k -> Player]
    OBVIOUS
  <2>2. more \in Seq(Player)
    BY <1>2, <2>1
  <2>3. DOMAIN more = 1..Len(more) /\ Len(more) \in Nat
    BY <2>2, LenProperties
  <2> QED BY <1>2, <2>2, <2>3
<1> HIDE DEF k, more
<1>4. /\ s \o more \in Seq(Player)
      /\ Len(s \o more) = Len(s) + k
      /\ \A i \in 1..Len(s) + k : (s \o more)[i] = IF i <= Len(s) THEN s[i] ELSE more[i - Len(s)]
  BY <1>3, ConcatProperties
<1>5. \A i \in 1..Len(s) + k : ~(i <= Len(s)) => more[i - Len(s)] = a
  BY <1>1, <1>2, <1>3
<1>6. Extended(s, a, n, max) = s \o more
  BY DEF Extended, k, more
<1>7. Less(n, max - Len(s)) = k
  BY DEF k
<1> QED BY <1>2, <1>4, <1>5, <1>6, <1>7

\* damageRaw keeps a board a board.
LEMMA DamageRawType ==
    ASSUME NEW s \in Seq(Player), NEW a \in Player, NEW n \in Nat, Len(s) <= HP + 1
    PROVE  /\ DamageRaw(s, a, n) \in Seq(Player)
           /\ Len(DamageRaw(s, a, n)) <= HP + 1
<1>1. HP + 1 \in Nat
  BY BattleAssumption
<1>2. DamageRaw(s, a, n) = Extended(s, a, n, HP + 1)
  <2>1. HP + 1 - Len(s) = (HP + 1) - Len(s)
    BY BattleAssumption, LenProperties
  <2> QED BY <2>1 DEF DamageRaw, Extended
<1> QED BY <1>1, <1>2, ExtendedType

\* addMark keeps the marks of a player, and never takes any off.
LEMMA AddMarkType ==
    ASSUME NEW held \in [Player -> 0..MaxMarks], NEW a \in Player, NEW n \in Nat
    PROVE  /\ AddMark(held, a, n) \in [Player -> 0..MaxMarks]
           /\ \A b \in Player : AddMark(held, a, n)[b] >= held[b]
<1>1. MaxMarks \in Nat /\ held[a] \in 0..MaxMarks
  BY BattleAssumption
<1>2. held[a] + Less(n, MaxMarks - held[a]) \in 0..MaxMarks
  BY <1>1 DEF Less
<1>3. held[a] + Less(n, MaxMarks - held[a]) >= held[a]
  BY <1>1 DEF Less
<1>4. \A b \in Player : held[b] \in Int
  BY <1>1
<1> QED BY <1>2, <1>3, <1>4 DEF AddMark

\* The player whose turn it is.
LEMMA TurnRound == turn \in Player => NextPlayer \in Player
BY BattleAssumption DEF Player, NextPlayer

\* Nothing is taken away by a payment.
LEMMA ShareType ==
    ASSUME NEW r, NEW a,
           NEW table \in {PointForDeath, PointForDeathFinal, PointForSpawnTracker}
    PROVE  Share(table, r, a) \in Nat
<1>1. \A i \in DOMAIN PointForDeath : PointForDeath[i] \in Nat
  BY DEF PointForDeath
<1>2. \A i \in DOMAIN PointForDeathFinal : PointForDeathFinal[i] \in Nat
  BY DEF PointForDeathFinal
<1>3. \A i \in DOMAIN PointForSpawnTracker : PointForSpawnTracker[i] \in Nat
  BY DEF PointForSpawnTracker
<1> QED BY <1>1, <1>2, <1>3 DEF Share

\* The sum of what the tracks pay a player.
LEMMA TracksPay ==
    ASSUME NEW r, NEW a
    PROVE  SumFunction([c \in Control |-> Share(PointForSpawnTracker, r[c], a)]) \in Nat
<1>1. IsFiniteSet(Control)
  BY BattleAssumption, FS_EmptySet DEF Control
<1>2. [c \in Control |-> Share(PointForSpawnTracker, r[c], a)] \in [Control -> Nat]
  BY ShareType
<1> QED BY <1>1, <1>2, SumOfNaturals

-----------------------------------------------------------------------------
(* Type correctness *)

\* A player's place, and nobody's, are numbers up to N.
LEMMA SomePlayer == 0 \in 0..N /\ Player \subseteq 0..N /\ 1 \in Player
BY BattleAssumption DEF Player

\* A game starts with empty boards.
LEMMA InitTypeInv == Init => TypeInv
<1> SUFFICES ASSUME Init PROVE TypeInv
  OBVIOUS
<1>1. <<>> \in Seq(Player) /\ Len(<<>>) = 0
  BY EmptySeq
<1>2. BoardTypes
  BY <1>1, BattleAssumption DEF Init, BoardTypes
<1>3. TrackTypes
  BY <1>1, BattleAssumption DEF Init, TrackTypes
<1>4. CourseTypes
  <2>1. 0 \in 0..MaxActs[mode] /\ 0 \in 0..MaxTurns[mode]
    BY BattleAssumption DEF Init
  <2> QED BY <2>1, SomePlayer DEF Init, CourseTypes
<1>5. Course
  BY DEF Init, Course
<1> QED BY <1>2, <1>3, <1>4, <1>5 DEF TypeInv

\* An effect counts, and leaves the course of the game, the points, and the
\* scoreboard alone.
LEMMA ActsType ==
    ASSUME TypeInv, Acts
    PROVE  /\ acts' \in 0..MaxActs[mode'] /\ phase = "playing"
           /\ UNCHANGED <<course, points, scoreboard, stepped>>
           /\ TrackTypes'
<1>1. mode' = mode /\ MaxActs[mode] \in Nat
  BY BattleAssumption DEF TypeInv, CourseTypes, Acts, course
<1>2. acts' \in 0..MaxActs[mode]
  BY <1>1 DEF TypeInv, CourseTypes, Acts
<1> QED BY <1>1, <1>2 DEF TypeInv, TrackTypes, Acts, scoreboard

\* A death is paid in points.
LEMMA ScoreType ==
    ASSUME points \in [Player -> Nat], NEW v \in Player,
           NEW table \in {PointForDeath, PointForDeathFinal}, Score(v, table)
    PROVE  points' \in [Player -> Nat]
<1>1. \A r, a : Share(table, r, a) \in Nat
  BY ShareType
<1> QED BY <1>1 DEF Score

\* A track is claimed up to its length.
LEMMA AddTrackType ==
    ASSUME NEW c \in Points, TrackTypes, turn \in Player
    PROVE  AddTrack(c) \in Seq(Player) /\ Len(AddTrack(c)) <= TrackLength
<1> DEFINE n == (IF c \in damaged THEN 1 ELSE 0) + (IF c \in stepped THEN 1 ELSE 0)
<1>1. n \in Nat /\ TrackLength \in Nat
  BY BattleAssumption
<1>2. AddTrack(c) = Extended(track[c], turn, n, TrackLength)
  BY DEF AddTrack, Extended
<1> HIDE DEF n
<1> QED BY <1>1, <1>2, ExtendedType DEF TrackTypes

\* The tracks are paid in points, and there is a winner.
LEMMA ClaimType ==
    ASSUME points \in [Player -> Nat], ClaimWinner
    PROVE  points' \in [Player -> Nat] /\ winner' \in Player
<1>1. PICK r : points' = [a \in Player |-> points[a]
             + SumFunction([c \in Control |-> Share(PointForSpawnTracker, r[c], a)])]
  BY DEF ClaimWinner
<1>2. \A a : SumFunction([c \in Control |-> Share(PointForSpawnTracker, r[c], a)]) \in Nat
  BY TracksPay
<1>3. points' \in [Player -> Nat]
  BY <1>1, <1>2
<1> QED BY <1>3 DEF ClaimWinner

\* Every step of the turn, of the scoring, and of the end of the game keeps the
\* types.
LEMMA StepTypeInv == TypeInv /\ [Next]_vars => TypeInv'
<1> SUFFICES ASSUME TypeInv, [Next]_vars PROVE TypeInv'
  OBVIOUS
<1> USE DEF TypeInv
<1>1. ASSUME NEW v \in Player, NEW n \in Amounts[mode], Shoot(v, n) PROVE TypeInv'
  <2>1. n \in Nat /\ marks[v][turn] \in Nat /\ n + marks[v][turn] \in Nat
    BY BattleAssumption DEF BoardTypes, CourseTypes
  <2>2. BoardTypes'
    <3>1. DamageRaw(damageTaken[v], turn, n + marks[v][turn]) \in Seq(Player)
          /\ Len(DamageRaw(damageTaken[v], turn, n + marks[v][turn])) <= HP + 1
      BY <2>1, DamageRawType DEF BoardTypes, CourseTypes
    <3>2. 0 \in 0..MaxMarks
      BY BattleAssumption
    <3> QED BY <1>1, <3>1, <3>2 DEF Shoot, Damage, BoardTypes, CourseTypes
  <2>3. TrackTypes' /\ CourseTypes' /\ Course'
    BY <1>1, ActsType DEF Shoot, course, scoreboard, Targets, CourseTypes, Course
  <2> QED BY <2>2, <2>3
<1>2. ASSUME NEW v \in Player, NEW n \in Marks[mode], Mark(v, n) PROVE TypeInv'
  <2>1. n \in Nat
    BY BattleAssumption DEF CourseTypes
  <2>2. BoardTypes'
    <3>1. AddMark(marks[v], turn, n) \in [Player -> 0..MaxMarks]
      BY <2>1, AddMarkType DEF BoardTypes, CourseTypes
    <3> QED BY <1>2, <3>1 DEF Mark, BoardTypes
  <2>3. TrackTypes' /\ CourseTypes' /\ Course'
    BY <1>2, ActsType DEF Mark, hits, course, scoreboard, CourseTypes, Course
  <2> QED BY <2>2, <2>3
<1>3. ASSUME NEW v \in Player, Scope(v) PROVE TypeInv'
  <2>1. BoardTypes'
    <3>1. DamageRaw(damageTaken[v], turn, 1) \in Seq(Player)
          /\ Len(DamageRaw(damageTaken[v], turn, 1)) <= HP + 1
      BY DamageRawType DEF BoardTypes, CourseTypes
    <3> QED BY <1>3, <3>1 DEF Scope, BoardTypes
  <2>2. TrackTypes' /\ CourseTypes' /\ Course'
    BY <1>3, ActsType DEF Scope, hits, course, scoreboard, CourseTypes, Course
  <2> QED BY <2>1, <2>2
<1>4. ASSUME NEW a \in Player, Tagback(a) PROVE TypeInv'
  <2>1. BoardTypes'
    <3>1. AddMark(marks[turn], a, 1) \in [Player -> 0..MaxMarks]
      BY AddMarkType DEF BoardTypes, CourseTypes
    <3> QED BY <1>4, <3>1 DEF Tagback, BoardTypes, CourseTypes
  <2>2. TrackTypes' /\ CourseTypes' /\ Course'
    BY <1>4 DEF Tagback, course, scoreboard, TrackTypes, CourseTypes, Course
  <2> QED BY <2>1, <2>2
<1>5. ASSUME NEW v \in Player, SettleDead(v) PROVE TypeInv'
  <2>1. BoardTypes'
    <3>1. AddMark(marks[v], turn, 1) \in [Player -> 0..MaxMarks]
      BY AddMarkType DEF BoardTypes, CourseTypes
    <3>2. marks' \in [Player -> [Player -> 0..MaxMarks]]
      BY <1>5, <3>1 DEF SettleDead, AddKill, BoardTypes
    <3>3. <<>> \in Seq(Player) /\ Len(<<>>) = 0 /\ 0 <= HP + 1
      BY EmptySeq, BattleAssumption
    <3> QED BY <1>5, <3>2, <3>3 DEF SettleDead, BoardTypes
  <2>2. points' \in [Player -> Nat]
    BY <1>5, ScoreType DEF SettleDead, CourseTypes
  <2>3. TrackTypes' /\ CourseTypes' /\ Course'
    BY <1>5, <2>2 DEF SettleDead, AddKill, Settles, hits, TrackTypes, CourseTypes, Course
  <2> QED BY <2>1, <2>3
<1>6. ASSUME NEW c \in Points, ShootPoint(c) PROVE TypeInv'
  <2>1. BoardTypes'
    BY <1>6 DEF ShootPoint, BoardTypes
  <2>2. TrackTypes' /\ CourseTypes' /\ Course'
    BY <1>6, ActsType DEF ShootPoint, hits, course, scoreboard, CourseTypes, Course
  <2> QED BY <2>1, <2>2
<1>7. ASSUME NEW c \in Points, SettlePoint(c) PROVE TypeInv'
  <2>1. BoardTypes' /\ CourseTypes' /\ Course'
    BY <1>7 DEF SettlePoint, Settles, boards, hits, BoardTypes, CourseTypes, Course
  <2>2. TrackTypes'
    <3>1. AddTrack(c) \in Seq(Player) /\ Len(AddTrack(c)) <= TrackLength
      BY AddTrackType DEF TrackTypes, CourseTypes
    <3> QED BY <1>7, <3>1 DEF SettlePoint, TrackTypes
  <2> QED BY <2>1, <2>2
<1>8. CASE EndTurn
  <2>1. \A c \in Control : c \in Points
    BY DEF Control
  <2>2. BoardTypes'
    <3>1. DamageRaw(damageTaken[turn], turn, 1) \in Seq(Player)
          /\ Len(DamageRaw(damageTaken[turn], turn, 1)) <= HP + 1
      BY DamageRawType DEF BoardTypes, CourseTypes
    <3> QED BY <1>8, <3>1 DEF EndTurn, BoardTypes
  <2>3. frenzyBefore' \in BOOLEAN
    BY <1>8 DEF EndTurn, FinalFrenzy
  <2>4. stepped' \subseteq Points
    BY <1>8, <2>1 DEF EndTurn, CourseTypes
  <2>5. pending' \subseteq Player \cup Points
    BY <1>8, <2>4 DEF EndTurn, CourseTypes
  <2>6. TrackTypes' /\ CourseTypes' /\ Course'
    BY <1>8, <2>3, <2>4, <2>5 DEF EndTurn, hits, scoreboard, TrackTypes, CourseTypes, Course
  <2> QED BY <2>2, <2>6
<1>9. CASE EndGame
  <2>1. points' \in [Player -> Nat] /\ winner' \in Player
    BY <1>9, ClaimType DEF EndGame, CourseTypes
  <2>2. last' \in 0..N /\ winner' \in 0..N
    BY <1>9, <2>1, SomePlayer DEF EndGame, CourseTypes
  <2>3. BoardTypes' /\ TrackTypes'
    BY <1>9 DEF EndGame, scoreboard, BoardTypes, TrackTypes
  <2>4. CourseTypes' /\ Course'
    BY <1>9, <2>1, <2>2 DEF EndGame, hits, scoreboard, CourseTypes, Course
  <2> QED BY <2>3, <2>4
<1>10. CASE NextTurn
  <2>1. turn' \in Player /\ last' \in 0..N
    BY <1>10, TurnRound, SomePlayer DEF NextTurn, CourseTypes
  <2>2. acts' \in 0..MaxActs[mode'] /\ turns' \in 0..MaxTurns[mode']
    BY <1>10, BattleAssumption DEF NextTurn, CourseTypes
  <2>3. BoardTypes' /\ TrackTypes'
    BY <1>10 DEF NextTurn, boards, scoreboard, BoardTypes, TrackTypes
  <2>4. CourseTypes' /\ Course'
    BY <1>10, <2>1, <2>2 DEF NextTurn, boards, scoreboard, CourseTypes, Course
  <2> QED BY <2>3, <2>4
<1>11. CASE UNCHANGED vars
  BY <1>11 DEF vars, course, boards, hits, scoreboard, BoardTypes, TrackTypes, CourseTypes, Course
<1> QED BY <1>1, <1>2, <1>3, <1>4, <1>5, <1>6, <1>7, <1>8, <1>9, <1>10, <1>11 DEF Next

\* Boards, tracks, marks and points stay what they are, whoever shoots whom, and
\* however the deaths and the tracks are paid.
THEOREM TypeCorrect == Spec => []TypeOK
<1>1. TypeInv => TypeOK
  BY DEF TypeInv, TypeOK, BoardTypes, TrackTypes, CourseTypes
<1> QED BY <1>1, InitTypeInv, StepTypeInv, PTL DEF Spec

-----------------------------------------------------------------------------
(* The dead are settled *)

\* endTurn looks at the dead only, and at control points.
PendingDead == \A v \in Player : v \in pending => Dead(damageTaken[v])

SettleInv == TypeInv /\ DeadAreSettled /\ PendingDead

\* Somebody with an empty board is alive.
LEMMA EmptyBoard == ~Dead(<<>>)
BY EmptySeq, BattleAssumption DEF Dead

\* At the beginning everybody is alive.
LEMMA InitSettleInv == Init => SettleInv
<1> SUFFICES ASSUME Init PROVE SettleInv
  OBVIOUS
<1>1. TypeInv
  BY InitTypeInv
<1>2. DeadAreSettled /\ PendingDead
  BY EmptyBoard DEF Init, DeadAreSettled, PendingDead
<1> QED BY <1>1, <1>2 DEF SettleInv

\* Nobody shoots himself; who dies of a step on a control point does so before
\* endTurn looks for the dead; and only an empty list lets the game go on.
LEMMA StepSettleInv == SettleInv /\ [Next]_vars => SettleInv'
<1> SUFFICES ASSUME SettleInv, [Next]_vars PROVE SettleInv'
  OBVIOUS
<1> USE DEF SettleInv
<1>0. TypeInv'
  BY StepTypeInv
<1> SUFFICES DeadAreSettled' /\ PendingDead'
  BY <1>0
<1> USE DEF DeadAreSettled, PendingDead
<1>1. ASSUME NEW v \in Player, NEW n \in Amounts[mode], Shoot(v, n)
      PROVE  DeadAreSettled' /\ PendingDead'
  <2>1. v # turn /\ phase' = "playing" /\ turn' = turn /\ pending' = {}
    BY <1>1, ActsType DEF Shoot, Targets, course, TypeInv, Course
  <2>2. \A u \in Player \ {v} : damageTaken'[u] = damageTaken[u]
    BY <1>1 DEF Shoot, Damage, TypeInv, BoardTypes
  <2> QED BY <2>1, <2>2, <1>1, ActsType DEF Shoot
<1>2. ASSUME NEW v \in Player, Scope(v) PROVE DeadAreSettled' /\ PendingDead'
  <2>1. v # turn /\ phase' = "playing" /\ turn' = turn /\ pending' = {}
    BY <1>2, ActsType DEF Scope, course, TypeInv, Course
  <2>2. \A u \in Player \ {v} : damageTaken'[u] = damageTaken[u]
    BY <1>2 DEF Scope, TypeInv, BoardTypes
  <2> QED BY <2>1, <2>2, <1>2, ActsType DEF Scope
<1>3. ASSUME NEW v \in Player, NEW n \in Marks[mode], Mark(v, n)
      PROVE  DeadAreSettled' /\ PendingDead'
  BY <1>3, ActsType DEF Mark, course
<1>4. ASSUME NEW c \in Points, ShootPoint(c) PROVE DeadAreSettled' /\ PendingDead'
  BY <1>4, ActsType DEF ShootPoint, course
<1>5. ASSUME NEW a \in Player, Tagback(a) PROVE DeadAreSettled' /\ PendingDead'
  BY <1>5 DEF Tagback, course
<1>6. ASSUME NEW v \in Player, SettleDead(v) PROVE DeadAreSettled' /\ PendingDead'
  <2>1. damageTaken'[v] = <<>> /\ \A u \in Player \ {v} : damageTaken'[u] = damageTaken[u]
    BY <1>6 DEF SettleDead, TypeInv, BoardTypes
  <2>2. phase = "ending" /\ phase' = phase /\ pending' = pending \ {v}
    BY <1>6 DEF SettleDead, Settles
  <2> QED BY <2>1, <2>2, EmptyBoard
<1>7. ASSUME NEW c \in Points, SettlePoint(c) PROVE DeadAreSettled' /\ PendingDead'
  <2>1. c \notin Player
    BY PointsAssumption
  <2> QED BY <1>7, <2>1 DEF SettlePoint, Settles, boards
<1>8. CASE EndTurn
  <2>1. stepped' \subseteq Points /\ damaged \subseteq Points
    BY <1>8 DEF EndTurn, Control, TypeInv, CourseTypes
  <2> QED BY <1>8, <2>1, PointsAssumption DEF EndTurn
<1>9. CASE EndGame \/ NextTurn
  BY <1>9 DEF EndGame, NextTurn, boards
<1>10. CASE UNCHANGED vars
  BY <1>10 DEF vars, course, boards
<1> QED BY <1>1, <1>2, <1>3, <1>4, <1>5, <1>6, <1>7, <1>8, <1>9, <1>10 DEF Next

\* Whoever is dead was killed in the turn that is played, by somebody else, or waits
\* for endTurn to score him: no turn starts, and no game ends, with an unscored
\* death.
THEOREM DeadSettled == Spec => []DeadAreSettled
<1>1. SettleInv => DeadAreSettled
  BY DEF SettleInv
<1> QED BY <1>1, InitSettleInv, StepSettleInv, PTL DEF Spec

-----------------------------------------------------------------------------
(* Marks are paid *)

\* How often a player is on a list that he, or somebody, was added to.
LEMMA ExtendedCount ==
    ASSUME NEW s \in Seq(Player), NEW a \in Player, NEW n \in Nat, NEW max \in Nat,
           Len(s) <= max
    PROVE  /\ Count(s, a) \in Nat
           /\ Count(Extended(s, a, n, max), a) = Count(s, a) + Less(n, max - Len(s))
<1> DEFINE t == Extended(s, a, n, max)
           k == Less(n, max - Len(s))
           old == {i \in DOMAIN s : s[i] = a}
           new == Len(s) + 1..Len(s) + k
<1>1. Len(s) \in Nat /\ DOMAIN s = 1..Len(s)
  BY LenProperties
<1>2. k \in Nat
  BY <1>1 DEF Less
<1>3. /\ t \in Seq(Player) /\ Len(t) = Len(s) + k
      /\ \A i \in 1..Len(t) : t[i] = IF i <= Len(s) THEN s[i] ELSE a
  BY ExtendedType
<1>4. DOMAIN t = 1..Len(s) + k
  BY <1>3, LenProperties
<1> HIDE DEF t, k
<1>5. {i \in DOMAIN t : t[i] = a} = old \cup new
  BY <1>1, <1>2, <1>3, <1>4
<1>6. old \cap new = {}
  BY <1>1
<1>7. IsFiniteSet(old) /\ IsFiniteSet(new) /\ Cardinality(new) = k
  <2>1. IsFiniteSet(1..Len(s)) /\ old \subseteq 1..Len(s)
    BY <1>1, FS_Interval
  <2>2. Len(s) + 1 \in Int /\ Len(s) + k \in Int
    BY <1>1, <1>2
  <2>3. /\ IsFiniteSet(new)
        /\ Cardinality(new)
             = IF Len(s) + 1 > Len(s) + k THEN 0 ELSE (Len(s) + k) - (Len(s) + 1) + 1
    BY <2>2, FS_Interval
  <2>4. Cardinality(new) = k
    BY <1>1, <1>2, <2>3
  <2> QED BY <2>1, <2>3, <2>4, FS_Subset
<1>8. Cardinality(old) \in Nat
  BY <1>7, FS_CardinalityType
<1>9. Cardinality(old \cup new) = Cardinality(old) + k
  <2> HIDE DEF old, new
  <2>1. /\ Cardinality(old \cap new) = 0
        /\ Cardinality(old \cup new)
             = Cardinality(old) + Cardinality(new) - Cardinality(old \cap new)
    BY <1>6, <1>7, FS_Union, FS_EmptySet
  <2> QED BY <1>7, <1>8, <1>2, <2>1
<1> QED BY <1>5, <1>8, <1>9 DEF Count, t, k

\* What a step may do to a mark.
PaysOff(v, a) ==
    marks'[v][a] < marks[v][a] =>
       /\ a = turn /\ marks'[v][a] = 0
       /\ Count(damageTaken'[v], a) >
             Less(HP - Len(damageTaken[v]) + Count(damageTaken[v], a),
                  Count(damageTaken[v], a) + marks[v][a])

\* Marks only come off in a damage of who put them there, which is at least one more
\* than they are; the others are added, or leave them alone.
LEMMA StepPaysOff ==
    ASSUME TypeInv, [Next]_vars, NEW w \in Player, NEW a \in Player
    PROVE  PaysOff(w, a)
<1> USE DEF TypeInv
<1>0. marks[w][a] \in Nat /\ marks \in [Player -> [Player -> 0..MaxMarks]]
  BY BattleAssumption DEF BoardTypes
<1>1. ASSUME NEW v \in Player, NEW n \in Amounts[mode], Shoot(v, n) PROVE PaysOff(w, a)
  <2>1. CASE w = v /\ a = turn
    <3> DEFINE s == damageTaken[v]
               m == marks[v][turn]
    <3>1. /\ s \in Seq(Player) /\ Len(s) \in Nat /\ Len(s) <= HP + 1
          /\ n \in Nat \ {0} /\ m \in Nat /\ HP \in Nat /\ turn \in Player
      BY <2>1, BattleAssumption, LenProperties DEF BoardTypes, CourseTypes
    <3>2. damageTaken'[v] = DamageRaw(s, turn, n + m) /\ marks'[v][turn] = 0
      BY <1>1, <2>1 DEF Shoot, Damage, BoardTypes, CourseTypes
    <3>3. DamageRaw(s, turn, n + m) = Extended(s, turn, n + m, HP + 1)
      <4>1. HP + 1 - Len(s) = (HP + 1) - Len(s)
        BY <3>1
      <4> QED BY <4>1 DEF DamageRaw, Extended
    <3> HIDE DEF s, m
    <3>4. /\ Count(s, turn) \in Nat
          /\ Count(damageTaken'[v], turn) = Count(s, turn) + Less(n + m, (HP + 1) - Len(s))
      BY <3>1, <3>2, <3>3, ExtendedCount
    <3>5. Count(s, turn) + Less(n + m, (HP + 1) - Len(s))
            > Less(HP - Len(s) + Count(s, turn), Count(s, turn) + m)
      BY <3>1, <3>4 DEF Less
    <3> QED BY <2>1, <3>2, <3>4, <3>5 DEF PaysOff, s, m
  <2>2. CASE ~(w = v /\ a = turn)
    <3>1. marks'[w][a] = marks[w][a]
      BY <1>0, <1>1, <2>2 DEF Shoot, Damage
    <3> QED BY <1>0, <3>1 DEF PaysOff
  <2> QED BY <2>1, <2>2
<1>2. ASSUME NEW u \in Player, NEW b \in Player, NEW n \in Nat,
             marks' = [marks EXCEPT ![u] = AddMark(@, b, n)]
      PROVE  PaysOff(w, a)
  <2>1. marks'[w][a] >= marks[w][a] /\ marks'[w][a] \in Int
    <3>1. marks[u] \in [Player -> 0..MaxMarks]
      BY <1>0
    <3>2. /\ AddMark(marks[u], b, n) \in [Player -> 0..MaxMarks]
          /\ AddMark(marks[u], b, n)[a] >= marks[u][a]
      BY <3>1, AddMarkType
    <3> QED BY <1>0, <1>2, <3>2
  <2> QED BY <1>0, <2>1 DEF PaysOff
<1>3. CASE UNCHANGED marks
  BY <1>0, <1>3 DEF PaysOff
<1>4. ASSUME NEW v \in Player, NEW n \in Marks[mode], Mark(v, n) PROVE PaysOff(w, a)
  <2>1. n \in Nat /\ turn \in Player
    BY BattleAssumption DEF CourseTypes
  <2> QED BY <1>2, <1>4, <2>1 DEF Mark
<1>5. ASSUME NEW v \in Player, Tagback(v) PROVE PaysOff(w, a)
  BY <1>2, <1>3, <1>5 DEF Tagback, CourseTypes
<1>6. ASSUME NEW v \in Player, SettleDead(v) PROVE PaysOff(w, a)
  BY <1>2, <1>3, <1>6 DEF SettleDead, AddKill, CourseTypes
<1>7. ASSUME NEW v \in Player, Scope(v) PROVE PaysOff(w, a)
  BY <1>3, <1>7 DEF Scope
<1>8. ASSUME NEW c \in Points, ShootPoint(c) \/ SettlePoint(c) PROVE PaysOff(w, a)
  BY <1>3, <1>8 DEF ShootPoint, SettlePoint, boards
<1>9. CASE EndTurn \/ EndGame \/ NextTurn
  BY <1>3, <1>9 DEF EndTurn, EndGame, NextTurn, boards
<1>10. CASE UNCHANGED vars
  BY <1>3, <1>10 DEF vars, boards
<1> QED BY <1>1, <1>4, <1>5, <1>6, <1>7, <1>8, <1>9, <1>10 DEF Next

\* A mark is never lost: it comes off as a damage of whoever put it there, with all
\* the others of his, as far as there is room on the board.
THEOREM MarksPaid == Spec => MarksPayOff
<1>1. TypeInv /\ [Next]_vars => [\A v, a \in Player : PaysOff(v, a)]_vars
  BY StepPaysOff
<1> QED BY <1>1, InitTypeInv, StepTypeInv, PTL DEF Spec, MarksPayOff, PaysOff

-----------------------------------------------------------------------------
(* Payments by rank *)

Paid(s, leftOut) == Range(s) \ leftOut

\* Somebody is in the tally of a list just when he is on it, and not left out.
LEMMA TallyType ==
    ASSUME NEW s \in Seq(Player), NEW leftOut
    PROVE  /\ Tally(s, leftOut) \in [Player -> Nat]
           /\ IsFiniteSet(Player) /\ IsFiniteSet(Paid(s, leftOut))
           /\ Paid(s, leftOut) = {a \in Player : Tally(s, leftOut)[a] > 0}
           /\ \A a \in Paid(s, leftOut) : Tally(s, leftOut)[a] = Count(s, a)
<1>1. DOMAIN s = 1..Len(s) /\ Len(s) \in Nat /\ \A i \in DOMAIN s : s[i] \in Player
  BY LenProperties, ElementOfSeq
<1>2. IsFiniteSet(DOMAIN s)
  BY <1>1, FS_Interval
<1>3. ASSUME NEW a
      PROVE  Count(s, a) \in Nat /\ (Count(s, a) > 0 <=> a \in Range(s))
  <2> DEFINE at == {i \in DOMAIN s : s[i] = a}
  <2>1. IsFiniteSet(at)
    BY <1>2, FS_Subset
  <2>2. Cardinality(at) \in Nat /\ (Cardinality(at) = 0 <=> at = {})
    BY <2>1, FS_CardinalityType, FS_EmptySet
  <2>3. at # {} <=> a \in Range(s)
    BY DEF Range
  <2> QED BY <2>2, <2>3 DEF Count
<1>4. Range(s) \subseteq Player
  BY <1>1 DEF Range
<1>5. IsFiniteSet(Player)
  BY BattleAssumption, FS_Interval DEF Player
<1>6. IsFiniteSet(Paid(s, leftOut))
  BY <1>4, <1>5, FS_Subset DEF Paid
<1>7. Tally(s, leftOut) \in [Player -> Nat]
  BY <1>3 DEF Tally
<1>8. \A a \in Player : Tally(s, leftOut)[a] > 0 <=> a \in Paid(s, leftOut)
  BY <1>3 DEF Tally, Paid
<1>9. Paid(s, leftOut) \subseteq Player
  BY <1>4 DEF Paid
<1>10. \A a \in Paid(s, leftOut) : Tally(s, leftOut)[a] = Count(s, a)
  BY <1>9 DEF Tally, Paid
<1> QED BY <1>5, <1>6, <1>7, <1>8, <1>9, <1>10

\* A ranking has everybody who is paid in one place.
LEMMA RankingPlaces ==
    ASSUME NEW s \in Seq(Player), NEW leftOut, NEW r \in Rankings(s, leftOut)
    PROVE  LET K == Cardinality(Paid(s, leftOut)) IN
           /\ K \in Nat /\ r \in Bijection(1..K, Paid(s, leftOut)) /\ DOMAIN r = 1..K
           /\ \A i \in 1..K : r[i] \in Paid(s, leftOut)
           /\ \A i, j \in 1..K : r[i] = r[j] => i = j
           /\ \A a \in Paid(s, leftOut) : \E i \in 1..K : r[i] = a
           /\ Range(r) = Paid(s, leftOut)
           /\ \A i, j \in 1..K : i < j => Count(s, r[i]) >= Count(s, r[j])
<1> DEFINE K == Cardinality(Paid(s, leftOut))
<1>1. K \in Nat
  BY TallyType, FS_CardinalityType
<1>2. r \in Bijection(1..K, Paid(s, leftOut))
  BY DEF Rankings, Paid
<1>3. /\ DOMAIN r = 1..K
      /\ \A i \in 1..K : r[i] \in Paid(s, leftOut)
      /\ \A i, j \in 1..K : r[i] = r[j] => i = j
      /\ \A a \in Paid(s, leftOut) : \E i \in 1..K : r[i] = a
  BY <1>2 DEF Bijection, Injection, Surjection, IsInjective
<1>4. Range(r) = Paid(s, leftOut)
  BY <1>3 DEF Range
<1>5. \A i, j \in 1..K : i < j => Count(s, r[i]) >= Count(s, r[j])
  BY <1>3 DEF Rankings
<1> QED BY <1>1, <1>2, <1>3, <1>4, <1>5

\* The entries of the tables.
Tables == {PointForDeath, PointForDeathFinal, PointForSpawnTracker}

\* A table pays nothing below 0, and nothing past its end.
LEMMA EntryType == ASSUME NEW table \in Tables, NEW i PROVE Entry(table, i) \in Nat
<1>1. \A j \in DOMAIN PointForDeath : PointForDeath[j] \in Nat
  BY DEF PointForDeath
<1>2. \A j \in DOMAIN PointForDeathFinal : PointForDeathFinal[j] \in Nat
  BY DEF PointForDeathFinal
<1>3. \A j \in DOMAIN PointForSpawnTracker : PointForSpawnTracker[j] \in Nat
  BY DEF PointForSpawnTracker
<1> QED BY <1>1, <1>2, <1>3 DEF Entry, Tables

\* Who is in place i of a ranking gets entry i of the table, who is in none, nothing.
LEMMA ShareOfPlace ==
    ASSUME NEW s \in Seq(Player), NEW leftOut, NEW r \in Rankings(s, leftOut), NEW table
    PROVE  /\ \A i \in DOMAIN r : Share(table, r, r[i]) = Entry(table, i)
           /\ \A a : a \notin Paid(s, leftOut) => Share(table, r, a) = 0
<1>1. ASSUME NEW i \in DOMAIN r PROVE Share(table, r, r[i]) = Entry(table, i)
  <2>1. r[i] \in Range(r)
    BY DEF Range
  <2>2. \A j \in DOMAIN r : r[j] = r[i] => j = i
    BY RankingPlaces
  <2>3. (CHOOSE j \in DOMAIN r : r[j] = r[i]) = i
    BY <2>2
  <2> QED BY <2>1, <2>3 DEF Share, Entry
<1>2. ASSUME NEW a, a \notin Paid(s, leftOut) PROVE Share(table, r, a) = 0
  <2>1. a \notin Range(r)
    BY <1>2, RankingPlaces
  <2> QED BY <2>1 DEF Share
<1> QED BY <1>1, <1>2

\* Whoever did more is in an earlier place, and whoever is in an earlier place did
\* not do less: so everybody gets an entry that his damages are worth.
LEMMA ShareWorth ==
    ASSUME NEW s \in Seq(Player), NEW leftOut, NEW r \in Rankings(s, leftOut), NEW table,
           NEW a \in Player
    PROVE  Share(table, r, a) \in Worth(table, Tally(s, leftOut), a)
<1> DEFINE t == Tally(s, leftOut)
           K == Cardinality(Paid(s, leftOut))
           above == {b \in Player : t[b] > t[a]}
           atLeast == {b \in Player : t[b] >= t[a]}
<1>1. /\ t \in [Player -> Nat] /\ IsFiniteSet(Player)
      /\ Paid(s, leftOut) = {b \in Player : t[b] > 0}
      /\ \A b \in Paid(s, leftOut) : t[b] = Count(s, b)
  BY TallyType
<1>2. CASE a \notin Paid(s, leftOut)
  <2>1. t[a] = 0
    BY <1>1, <1>2
  <2> QED BY <1>2, <2>1, ShareOfPlace DEF Worth
<1>3. CASE a \in Paid(s, leftOut)
  <2>0. /\ K \in Nat /\ DOMAIN r = 1..K
        /\ \A j \in 1..K : r[j] \in Paid(s, leftOut)
        /\ \A j, l \in 1..K : r[j] = r[l] => j = l
        /\ \A b \in Paid(s, leftOut) : \E j \in 1..K : r[j] = b
        /\ \A j, l \in 1..K : j < l => Count(s, r[j]) >= Count(s, r[l])
    BY RankingPlaces
  <2> HIDE DEF t, K
  <2>1. PICK i \in 1..K : r[i] = a
    BY <1>3, <2>0
  <2>2. i \in Nat /\ i - 1 \in Nat /\ IsFiniteSet(1..i - 1) /\ Cardinality(1..i - 1) = i - 1
        /\ IsFiniteSet(1..i) /\ Cardinality(1..i) = i
    <3>1. i \in Nat /\ i >= 1
      BY <2>0
    <3>2. \A n \in Nat : IsFiniteSet(1..n) /\ Cardinality(1..n) = n
      <4> SUFFICES ASSUME NEW n \in Nat PROVE IsFiniteSet(1..n) /\ Cardinality(1..n) = n
        OBVIOUS
      <4>1. /\ IsFiniteSet(1..n)
            /\ Cardinality(1..n) = IF 1 > n THEN 0 ELSE n - 1 + 1
        BY FS_Interval
      <4> QED BY <4>1
    <3> QED BY <3>1, <3>2
  <2>3. \A b \in above : \E j \in 1..i - 1 : r[j] = b
    <3> SUFFICES ASSUME NEW b \in above PROVE \E j \in 1..i - 1 : r[j] = b
      OBVIOUS
    <3>1. b \in Paid(s, leftOut) /\ t[b] > t[a]
      BY <1>1
    <3>2. PICK j \in 1..K : r[j] = b
      BY <2>0, <3>1
    <3>3. Count(s, r[j]) > Count(s, r[i]) /\ Count(s, r[i]) \in Nat /\ Count(s, r[j]) \in Nat
      BY <1>1, <1>3, <2>1, <3>1, <3>2
    <3>4. ~(i < j) /\ i # j
      BY <2>0, <2>1, <3>2, <3>3
    <3> QED BY <2>0, <3>2, <3>4
  <2>4. IsFiniteSet(above) /\ IsFiniteSet(atLeast)
    BY <1>1, FS_Subset
  <2>5. Cardinality(above) <= i - 1
    <3> DEFINE T == {r[j] : j \in 1..i - 1}
               f == [j \in 1..i - 1 |-> r[j]]
    <3>1. f \in Surjection(1..i - 1, T)
      BY DEF Surjection
    <3>2. IsFiniteSet(T) /\ Cardinality(T) <= i - 1
      <4> HIDE DEF f, T
      <4> QED BY <2>2, <3>1, FS_Surjection
    <3>3. above \in SUBSET T
      BY <2>3
    <3>4. Cardinality(above) <= Cardinality(T)
      <4> HIDE DEF T
      <4> QED BY <3>2, <3>3, FS_Subset
    <3>5. Cardinality(above) \in Nat /\ Cardinality(T) \in Nat
      BY <2>4, <3>2, FS_CardinalityType
    <3> QED BY <2>2, <3>2, <3>4, <3>5
  <2>6. i <= Cardinality(atLeast)
    <3> DEFINE T == {r[j] : j \in 1..i}
               f == [j \in 1..i |-> r[j]]
    <3>1. f \in Bijection(1..i, T)
      BY <2>0 DEF Bijection, Injection, Surjection, IsInjective
    <3>2. IsFiniteSet(T) /\ Cardinality(T) = i
      <4> HIDE DEF f, T
      <4>1. ExistsBijection(1..i, T)
        BY <3>1 DEF ExistsBijection
      <4> QED BY <2>2, <4>1, FS_Bijection
    <3>3. ASSUME NEW j \in 1..i PROVE r[j] \in atLeast
      <4>1. r[j] \in Paid(s, leftOut) /\ j \in 1..K /\ (j = i \/ j < i)
        BY <2>0
      <4>2. t[r[j]] = Count(s, r[j]) /\ t[a] = Count(s, r[i]) /\ t[a] \in Nat /\ t[r[j]] \in Nat
        BY <1>1, <1>3, <2>1, <4>1
      <4>3. t[r[j]] >= t[a]
        BY <2>0, <2>1, <4>1, <4>2
      <4> QED BY <1>1, <4>1, <4>3
    <3>4. T \in SUBSET atLeast
      BY <3>3
    <3> HIDE DEF T, atLeast
    <3> QED BY <2>4, <3>2, <3>4, FS_Subset
  <2>7. i \in Cardinality(above) + 1..Cardinality(atLeast)
    <3>1. Cardinality(above) \in Nat /\ Cardinality(atLeast) \in Nat
      BY <2>4, FS_CardinalityType
    <3> QED BY <2>2, <2>5, <2>6, <3>1
  <2>8. t[a] # 0
    BY <1>1, <1>3
  <2>9. Share(table, r, a) = Entry(table, i)
    BY <2>0, <2>1, ShareOfPlace
  <2> QED BY <2>7, <2>8, <2>9 DEF Worth, t
<1> QED BY <1>2, <1>3

\* The whole row of the table is paid for a list, and nothing else.
LEMMA ShareSum ==
    ASSUME NEW s \in Seq(Player), NEW leftOut, NEW r \in Rankings(s, leftOut),
           NEW table \in Tables
    PROVE  SumFunction([a \in Player |-> Share(table, r, a)])
             = Payable(table, Tally(s, leftOut))
<1> DEFINE paid == Paid(s, leftOut)
           K == Cardinality(paid)
           share == [a \in Player |-> Share(table, r, a)]
           row == [i \in 1..K |-> Entry(table, i)]
           along == [i \in 1..K |-> share[r[i]]]
<1>1. /\ IsFiniteSet(Player) /\ IsFiniteSet(paid)
      /\ paid = {a \in Player : Tally(s, leftOut)[a] > 0}
  BY TallyType
<1>2. /\ K \in Nat /\ r \in Bijection(1..K, paid) /\ DOMAIN r = 1..K
      /\ \A i \in 1..K : r[i] \in paid
  BY RankingPlaces
<1>3. \A a \in Player : share[a] \in Int
  BY ShareType DEF Tables
<1>4. SumFunctionOnSet(share, Player) = SumFunctionOnSet(share, paid)
  <2>1. paid \in SUBSET Player /\ \A a \in Player \ paid : share[a] = 0
    BY <1>1, ShareOfPlace
  <2> HIDE DEF share, paid
  <2> QED BY <1>1, <1>3, <2>1, SumOutside
<1>5. SumFunctionOnSet(share, paid) = SumFunctionOnSet(along, 1..K)
  <2>1. IsFiniteSet(1..K) /\ \A a \in paid : share[a] \in Int
    BY <1>1, <1>2, <1>3, FS_Interval
  <2> HIDE DEF share, paid, K
  <2> QED BY <1>1, <1>2, <2>1, SumBijection
<1>6. along = row
  <2>1. \A i \in 1..K : share[r[i]] = Entry(table, i)
    BY <1>1, <1>2, ShareOfPlace
  <2> QED BY <2>1
<1>7. SumFunction(share) = SumFunctionOnSet(share, Player)
      /\ SumFunction(row) = SumFunctionOnSet(row, 1..K)
  BY DEF SumFunction
<1>8. Payable(table, Tally(s, leftOut)) = SumFunction(row)
  BY <1>1 DEF Payable
<1> HIDE DEF share, row, along, paid, K
<1>9. SumFunction(share) = Payable(table, Tally(s, leftOut))
  BY <1>4, <1>5, <1>6, <1>7, <1>8
<1> QED BY <1>9 DEF share

\* What a payment for the death of v looks like.
RankPays(v) ==
    LET tally == Tally(damageTaken[v], {v})
        table == IF FinalFrenzy(numOfDeaths', track) THEN PointForDeathFinal
                 ELSE PointForDeath
        first(a) == IF a = damageTaken[v][1] /\ a # v THEN 1 ELSE 0
    IN /\ \A a \in Player : Gain(a) - first(a) \in Worth(table, tally, a)
       /\ SumFunction([a \in Player |-> Gain(a) - first(a)]) = Payable(table, tally)

\* score pays every death by the order in which it ranks those who did the damage.
LEMMA StepRankPays ==
    ASSUME TypeInv, [Next]_vars, NEW v \in Player, v \in pending \ pending'
    PROVE  RankPays(v)
<1>1. SettleDead(v)
  <2>1. ASSUME NEW u \in Player, SettleDead(u) PROVE u = v
    BY <2>1 DEF SettleDead, Settles
  <2>2. ASSUME NEW c \in Points, SettlePoint(c) PROVE FALSE
    BY <2>2, PointsAssumption DEF SettlePoint, Settles
  <2>3. ASSUME NEW u \in Player, Scope(u) \/ Tagback(u) PROVE FALSE
    BY <2>3 DEF Scope, Tagback, Acts, course
  <2>4. ASSUME NEW u \in Player, NEW n, Shoot(u, n) \/ Mark(u, n) PROVE FALSE
    BY <2>4 DEF Shoot, Mark, Acts, course
  <2>5. ASSUME NEW c \in Points, ShootPoint(c) PROVE FALSE
    BY <2>5 DEF ShootPoint, Acts, course
  <2>6. ~EndTurn /\ ~EndGame /\ ~NextTurn /\ ~(UNCHANGED vars)
    BY DEF EndTurn, EndGame, NextTurn, vars, course, TypeInv, Course
  <2> QED BY <2>1, <2>2, <2>3, <2>4, <2>5, <2>6 DEF Next
<1> DEFINE s == damageTaken[v]
           table == IF FinalFrenzy(numOfDeaths', track) THEN PointForDeathFinal
                    ELSE PointForDeath
           first(a) == IF a = s[1] /\ a # v THEN 1 ELSE 0
<1>2. s \in Seq(Player) /\ points \in [Player -> Nat] /\ table \in Tables
  BY DEF TypeInv, BoardTypes, CourseTypes, Tables
<1>3. PICK r \in Rankings(s, {v}) :
         points' = [a \in Player |-> points[a] + Share(table, r, a) + first(a)]
  BY <1>1 DEF SettleDead, Score
<1> HIDE DEF s, table
<1>4. ASSUME NEW a \in Player PROVE Gain(a) - first(a) = Share(table, r, a)
  <2>1. Share(table, r, a) \in Nat
    BY <1>2, ShareType DEF Tables
  <2> QED BY <1>2, <1>3, <2>1 DEF Gain
<1>5. \A a \in Player : Gain(a) - first(a) \in Worth(table, Tally(s, {v}), a)
  BY <1>2, <1>4, ShareWorth
<1>6. [a \in Player |-> Gain(a) - first(a)] = [a \in Player |-> Share(table, r, a)]
  BY <1>4
<1>7. SumFunction([a \in Player |-> Gain(a) - first(a)]) = Payable(table, Tally(s, {v}))
  BY <1>2, <1>6, ShareSum
<1> QED BY <1>5, <1>7 DEF RankPays, s, table

\* A death is paid once, by rank: whoever did more damage gets no less, the whole
\* row of the table is paid and not more, and the dead player earns nothing.
THEOREM DeathsPaid == Spec => PaidByRank
<1>1. TypeInv /\ [Next]_vars => [\A v \in Player : v \in pending \ pending' => RankPays(v)]_vars
  BY StepRankPays
<1> QED BY <1>1, InitTypeInv, StepTypeInv, PTL DEF Spec, PaidByRank, RankPays

-----------------------------------------------------------------------------
(* The end of a domination game *)

LEMMA MinMax ==
    ASSUME NEW S \in SUBSET Int, IsFiniteSet(S), S # {}
    PROVE  /\ Min(S) \in S /\ \A x \in S : Min(S) <= x
           /\ Max(S) \in S /\ \A x \in S : Max(S) >= x
BY LeastAndGreatest DEF Min, Max

\* What a place may be worth lies between the least and the greatest of it.
LEMMA WorthBounds ==
    ASSUME NEW table \in Tables, NEW s \in Seq(Player), NEW a \in Player,
           NEW share \in Worth(table, Tally(s, {}), a)
    PROVE  LET worth == Worth(table, Tally(s, {}), a)
           IN /\ share \in Int /\ Min(worth) \in Int /\ Max(worth) \in Int
              /\ Min(worth) <= share /\ share <= Max(worth)
<1> DEFINE t == Tally(s, {})
           above == Cardinality({b \in Player : t[b] > t[a]})
           atLeast == Cardinality({b \in Player : t[b] >= t[a]})
           worth == Worth(table, t, a)
<1>1. worth = IF t[a] = 0 THEN {0} ELSE {Entry(table, i) : i \in above + 1..atLeast}
  BY DEF Worth
<1>2. above \in Nat /\ atLeast \in Nat
  <2>1. IsFiniteSet({b \in Player : t[b] > t[a]}) /\ IsFiniteSet({b \in Player : t[b] >= t[a]})
    BY TallyType, FS_Subset
  <2> QED BY <2>1, FS_CardinalityType
<1> HIDE DEF above, atLeast, t
<1>3. worth \in SUBSET Int
  BY <1>1, EntryType
<1>4. IsFiniteSet(worth)
  <2> DEFINE places == above + 1..atLeast
             entries == {Entry(table, i) : i \in places}
             f == [i \in places |-> Entry(table, i)]
  <2>1. IsFiniteSet(places)
    BY <1>2, FS_Interval
  <2>2. f \in Surjection(places, entries)
    BY DEF Surjection
  <2>3. IsFiniteSet(entries)
    <3> HIDE DEF f, entries, places
    <3> QED BY <2>1, <2>2, FS_Surjection
  <2> QED BY <1>1, <2>3, FS_Singleton
<1>5. share \in worth
  BY DEF t
<1> HIDE DEF worth
<1>6. /\ Min(worth) \in worth /\ \A x \in worth : Min(worth) <= x
      /\ Max(worth) \in worth /\ \A x \in worth : Max(worth) >= x
  BY <1>3, <1>4, <1>5, MinMax
<1>7. /\ share \in Int /\ Min(worth) \in Int /\ Max(worth) \in Int
      /\ Min(worth) <= share /\ share <= Max(worth)
  BY <1>3, <1>5, <1>6
<1> QED BY <1>7 DEF worth, t

\* What the end of the game looks like.
EndPays ==
    LET tally == [c \in Control |-> Tally(track[c], {})]
        worth(c, a) == Worth(PointForSpawnTracker, tally[c], a)
    IN /\ \A a \in Player :
             Gain(a) \in SumFunction([c \in Control |-> Min(worth(c, a))])
                       ..SumFunction([c \in Control |-> Max(worth(c, a))])
       /\ SumFunction([a \in Player |-> Gain(a)])
            = SumFunction([c \in Control |-> Payable(PointForSpawnTracker, tally[c])])
       /\ \A p \in Player : points'[p] <= points'[winner']

\* claimWinner pays every track by rank, all of it, before the winner is chosen.
LEMMA ClaimPays == TypeInv /\ ClaimWinner => EndPays
<1> SUFFICES ASSUME TypeInv, ClaimWinner PROVE EndPays
  OBVIOUS
<1> DEFINE tally == [c \in Control |-> Tally(track[c], {})]
           worth(c, a) == Worth(PointForSpawnTracker, tally[c], a)
<1>1. PICK r :
        /\ \A c \in Control : r[c] \in Rankings(track[c], {})
        /\ points' = [a \in Player |-> points[a]
              + SumFunction([c \in Control |-> Share(PointForSpawnTracker, r[c], a)])]
        /\ winner' \in {p \in Player : \A q \in Player : points'[q] <= points'[p]}
  BY DEF ClaimWinner
<1>2. /\ IsFiniteSet(Control) /\ IsFiniteSet(Player)
      /\ \A c \in Control : track[c] \in Seq(Player) /\ tally[c] = Tally(track[c], {})
      /\ points \in [Player -> Nat] /\ PointForSpawnTracker \in Tables
  <2>1. IsFiniteSet(Control)
    BY BattleAssumption, FS_EmptySet DEF Control
  <2>2. IsFiniteSet(Player)
    BY TallyType, EmptySeq
  <2> QED BY <2>1, <2>2 DEF Control, TypeInv, TrackTypes, CourseTypes, Tables
<1> DEFINE share(c, a) == Share(PointForSpawnTracker, r[c], a)
           m == [c \in Control |-> [a \in Player |-> share(c, a)]]
<1> HIDE DEF tally
<1>3. \A c \in Control, a \in Player : share(c, a) \in Int
  BY ShareType
<1>4. ASSUME NEW a \in Player
      PROVE  /\ Gain(a) = SumFunction([c \in Control |-> share(c, a)])
             /\ SumFunction([c \in Control |-> share(c, a)]) \in Int
  <2>1. SumFunction([c \in Control |-> share(c, a)]) \in Nat
    BY TracksPay
  <2>2. points'[a] = points[a] + SumFunction([c \in Control |-> share(c, a)])
    BY <1>1
  <2> HIDE DEF share
  <2> QED BY <1>2, <2>1, <2>2 DEF Gain
<1>5. ASSUME NEW a \in Player
      PROVE  Gain(a) \in SumFunction([c \in Control |-> Min(worth(c, a))])
                       ..SumFunction([c \in Control |-> Max(worth(c, a))])
  <2> DEFINE low == [c \in Control |-> Min(worth(c, a))]
             mid == [c \in Control |-> share(c, a)]
             high == [c \in Control |-> Max(worth(c, a))]
  <2>1. ASSUME NEW c \in Control
        PROVE  /\ share(c, a) \in Int /\ Min(worth(c, a)) \in Int /\ Max(worth(c, a)) \in Int
               /\ Min(worth(c, a)) <= share(c, a) /\ share(c, a) <= Max(worth(c, a))
    <3>1. share(c, a) \in Worth(PointForSpawnTracker, Tally(track[c], {}), a)
      BY <1>1, <1>2, ShareWorth
    <3> HIDE DEF share
    <3> QED BY <1>2, <3>1, WorthBounds
  <2>2. \A c \in Control : /\ low[c] \in Int /\ mid[c] \in Int /\ high[c] \in Int
                           /\ low[c] <= mid[c] /\ mid[c] <= high[c]
    BY <2>1
  <2>3. /\ SumFunction(low) = SumFunctionOnSet(low, Control)
        /\ SumFunction(mid) = SumFunctionOnSet(mid, Control)
        /\ SumFunction(high) = SumFunctionOnSet(high, Control)
    BY DEF SumFunction
  <2>4. Gain(a) = SumFunction(mid)
    BY <1>4
  <2> HIDE DEF low, mid, high
  <2>5. SumFunctionOnSet(low, Control) <= SumFunctionOnSet(mid, Control)
        /\ SumFunctionOnSet(mid, Control) <= SumFunctionOnSet(high, Control)
    BY <1>2, <2>2, SumMonotone
  <2>6. /\ SumFunctionOnSet(low, Control) \in Int
        /\ SumFunctionOnSet(mid, Control) \in Int
        /\ SumFunctionOnSet(high, Control) \in Int
    BY <1>2, <2>2, SumType
  <2>7. Gain(a) \in SumFunction(low)..SumFunction(high)
    BY <2>3, <2>4, <2>5, <2>6
  <2> QED BY <2>7 DEF low, high
<1>6. SumFunction([a \in Player |-> Gain(a)])
        = SumFunction([c \in Control |-> Payable(PointForSpawnTracker, tally[c])])
  <2>1. [a \in Player |-> Gain(a)]
          = [a \in Player |-> SumFunction([c \in Control |-> m[c][a]])]
    <3>1. ASSUME NEW a \in Player
          PROVE  [c \in Control |-> m[c][a]] = [c \in Control |-> share(c, a)]
      OBVIOUS
    <3>2. ASSUME NEW a \in Player PROVE Gain(a) = SumFunction([c \in Control |-> m[c][a]])
      BY <1>4, <3>1
    <3> HIDE DEF m
    <3> QED BY <3>2
  <2>2. [c \in Control |-> Payable(PointForSpawnTracker, tally[c])]
          = [c \in Control |-> SumFunction([a \in Player |-> m[c][a]])]
    <3>1. ASSUME NEW c \in Control
          PROVE  [a \in Player |-> m[c][a]] = [a \in Player |-> share(c, a)]
      OBVIOUS
    <3>2. ASSUME NEW c \in Control
          PROVE  Payable(PointForSpawnTracker, tally[c])
                   = SumFunction([a \in Player |-> m[c][a]])
      <4>1. SumFunction([a \in Player |-> share(c, a)])
              = Payable(PointForSpawnTracker, Tally(track[c], {}))
        BY <1>1, <1>2, ShareSum
      <4> QED BY <1>2, <3>1, <4>1
    <3> HIDE DEF m
    <3> QED BY <3>2
  <2>3. \A c \in Control, a \in Player : m[c][a] \in Int
    BY <1>3
  <2> HIDE DEF m
  <2>4. ByColumns(m, Control, Player) = ByRows(m, Control, Player)
    BY <1>2, <2>3, SumExchange
  <2> QED BY <2>1, <2>2, <2>4 DEF ByRows, ByColumns
<1>7. \A p \in Player : points'[p] <= points'[winner']
  BY <1>1
<1> QED BY <1>5, <1>6, <1>7 DEF EndPays, tally

\* Points are paid for deaths and at the end only.
LEMMA StepEndPays ==
    ASSUME TypeInv, [Next]_vars
    PROVE  /\ points' # points => pending' # pending \/ phase' = "over"
           /\ phase' = "over" /\ phase # "over" => EndPays
<1>1. ASSUME NEW v \in Player, SettleDead(v)
      PROVE  pending' # pending /\ phase' = phase
  BY <1>1 DEF SettleDead, Settles
<1>2. CASE EndGame
  BY <1>2, ClaimPays DEF EndGame
<1>3. ASSUME NEW v \in Player, Scope(v) \/ Tagback(v)
      PROVE  points' = points /\ phase' = phase
  BY <1>3 DEF Scope, Tagback, Acts, course
<1>4. ASSUME NEW v \in Player, NEW n, Shoot(v, n) \/ Mark(v, n)
      PROVE  points' = points /\ phase' = phase
  BY <1>4 DEF Shoot, Mark, Acts, course
<1>5. ASSUME NEW c \in Points, ShootPoint(c) \/ SettlePoint(c)
      PROVE  points' = points /\ phase' = phase
  BY <1>5 DEF ShootPoint, SettlePoint, Settles, Acts, course, boards
<1>6. CASE EndTurn
  BY <1>6 DEF EndTurn
<1>7. CASE NextTurn
  BY <1>7 DEF NextTurn, boards
<1>8. CASE UNCHANGED vars
  BY <1>8 DEF vars, boards, course
<1> QED BY <1>1, <1>2, <1>3, <1>4, <1>5, <1>6, <1>7, <1>8 DEF Next

\* At the end each track is paid by rank, all of it, and the winner is nobody's
\* inferior afterwards.
THEOREM EndIsFair == Spec => FairEnd
<1> QED BY StepEndPays, InitTypeInv, StepTypeInv, PTL DEF Spec, FairEnd, EndPays
=============================================================================
