--------------------------- MODULE TurnFlowProofs ---------------------------
(***************************************************************************)
(* Proofs about TurnFlow, for every number of players, skulls, threads,    *)
(* powerups and weapons.                                                   *)
(***************************************************************************)
EXTENDS TurnFlow, Sums, TLAPS

-----------------------------------------------------------------------------
(* The inductive invariant *)

\* Every continuation knows the players it will be about when it runs.
WellFormed(j) ==
    /\ j \in Job
    /\ j.do # "idle" => j.p \in Player
    /\ j.do \in {"respawned", "tagback"} => j.other \in Player

ThreadTypes ==
    /\ thread \in [Thread -> Job]
    /\ \A t \in Thread : WellFormed(thread[t])

SlotTypes ==
    /\ slot \in [Player -> Question]
    /\ \A p \in Player : /\ WellFormed(slot[p].job)
                         /\ slot[p].ask # "wait" => slot[p].job.do # "idle"

TimeoutTypes ==
    /\ onTimeout \in [Player -> Job]
    /\ \A p \in Player : WellFormed(onTimeout[p])

GameTypes ==
    /\ phase \in {"playing", "over"} /\ online \subseteq Player /\ firstRoundOver \in BOOLEAN
    /\ leaked \subseteq Leaky
    /\ kills \in 0..MaxDeaths /\ fullTracks \in 0..2 /\ last \in Player \cup {0}
    /\ lastInFrenzy \subseteq Player
    /\ dead \subseteq spawned /\ spawned \subseteq Player
    /\ damagers \in [Player -> SUBSET Player]

WeaponTypes == maxWeapons \in WeaponLimits /\ weapons \in [Player -> 0..maxWeapons]

TurnTypes ==
    /\ turn \in Player \cup {0} /\ hand \in 0..MaxHand
    /\ frenzyTurns \in [Player -> 0..2]

TypeInv == ThreadTypes /\ SlotTypes /\ TimeoutTypes /\ GameTypes /\ WeaponTypes /\ TurnTypes

\* The frenzy is on as soon as somebody is marked to end it.
FrenzyInv == lastInFrenzy # {} => FinalFrenzy

\* The mark is on the player in whose turn the frenzy began.
Marked == lastInFrenzy = IF last = 0 THEN {} ELSE {last}

\* Outside the end of a turn somebody is marked exactly if the frenzy is on.
FrenzySettled == Marked /\ (last # 0) = FinalFrenzy

\* The players on the map when the turn of p starts.
Expected(p) == IF firstRoundOver THEN Player ELSE 1..p

\* The players who had their turn in the frenzy: those after last, up to turn.
Had(inTurn) ==
    IF turn > last THEN (last + 1)..turn
    ELSE IF turn < last THEN ((last + 1)..N) \cup (1..turn)
    ELSE IF inTurn THEN Player ELSE {}

Counted(inTurn) ==
    \A p \in Player : frenzyTurns[p] = IF last # 0 /\ p \in Had(inTurn) THEN 1 ELSE 0

Unhurt == \A a \in Player : damagers[a] = {}

OnlyByTurn == damagers[turn] = {} /\ \A a \in Player : damagers[a] \subseteq {turn}

TurnJobs == {"menu", "resolve", "collect", "tagback", "grab", "end"}

\* The steps of endTurn after the first.
EndJobs == {"settle", "kills", "last", "frenzy"}

\* The table during the turn of the player on turn.
TurnStands ==
    /\ turn \in Player
    /\ spawned = Expected(turn) /\ (turn = N => firstRoundOver)
    /\ dead \subseteq spawned \ {turn}
    /\ Counted(TRUE) /\ FrenzySettled

\* Job j is a step of that turn.
InTurn(j) ==
    /\ j.p = turn /\ TurnStands
    /\ j.do # "end" => onTimeout[turn] = End(turn)
    /\ IF j.do \in {"collect", "tagback"} THEN OnlyByTurn ELSE Unhurt
    /\ j.do = "tagback" => j.other # turn
    /\ j.do = "grab" => SumFunction(weapons) < MaxFound

\* Job j is a step of the end of that turn: the dead are still on the map, then in
\* the job's list; the frenzy may begin, and is marked in the last step.
Ending(j) ==
    /\ j.p = turn /\ turn \in Player /\ (turn = N => firstRoundOver)
    /\ Unhurt /\ Counted(TRUE) /\ Marked
    /\ j.before = (last # 0) /\ (last # 0 => FinalFrenzy)
    /\ j.do \in {"settle", "kills"} => FinalFrenzy = j.before /\ spawned = Expected(turn)
    /\ j.do = "kills" => j.tail = dead
    /\ j.do \in {"last", "frenzy"} => dead = {} /\ spawned \cup j.tail = Expected(turn)
    /\ j.do = "frenzy" => turn # last

\* The players whom job j and those that follow will put on the map.
ToCome(j) ==
    CASE j.do = "respawn" -> j.tail
      [] j.do = "respawned" -> {j.other} \cup j.tail
      [] OTHER -> {}

\* Job j leads to the turn of the next player, at once ...
ToMain(j) ==
    /\ j.do = "main" \/ j.next = "main"
    /\ spawned \cup ToCome(j) = Expected(j.p)
    /\ j.p = N => firstRoundOver

\* ... or after he has spawned for the first time.
ToFirst(j) ==
    /\ j.do # "main" /\ j.next \in {"first", "firstLast"}
    /\ ~firstRoundOver /\ turn \in 1..(N - 1)
    /\ spawned \cup ToCome(j) = 1..turn
    /\ (j.next = "firstLast") <=> j.p = N

\* The table between two turns.
TableCleared == dead = {} /\ Unhurt /\ Counted(FALSE) /\ FrenzySettled

BetweenTurns(j) ==
    /\ j.p = NextPlayer(turn) /\ TableCleared
    /\ j.do \in {"main", "respawn", "respawned", "first"}
    /\ j.do = "first" => j.next # "main"
    /\ ToMain(j) \/ ToFirst(j)

Valid(j) ==
    /\ j.do # "idle"
    /\ j.do \in TurnJobs => InTurn(j)
    /\ j.do \in EndJobs => Ending(j)
    /\ j.do \notin TurnJobs \cup EndJobs => BetweenTurns(j)

\* The question of p: what its answer and its deadline start is right.
ValidQuestion(p) ==
    LET j == slot[p].job IN
    /\ slot[p].ask \in {"menu", "grab"} => j.do = slot[p].ask /\ p = turn
    /\ slot[p].ask = "tagback" => j.do = "collect"
    /\ slot[p].ask = "respawn" => j.do = "respawned"
    /\ Valid(j) /\ Valid(onTimeout[p])

\* Thread t has the turn token, or player p has.
Running(t) ==
    /\ Valid(thread[t])
    /\ \A u \in Thread \ {t} : thread[u] = Idle
    /\ \A p \in Player : slot[p] = Wait

Asked(p) ==
    /\ slot[p].ask # "wait" /\ ValidQuestion(p)
    /\ \A u \in Thread : thread[u] = Idle
    /\ \A q \in Player \ {p} : slot[q] = Wait

Token == (\E t \in Thread : Running(t)) \/ (\E p \in Player : Asked(p))

TokenInv == NoDrops /\ phase = "playing" => Token

FlowInv == TypeInv /\ FrenzyInv /\ TokenInv

-----------------------------------------------------------------------------
(* Continuations *)

LEMMA PlainType ==
    ASSUME NEW do \in Kind, NEW p, p \in Player \/ p = 0, NEW acts \in -1..2
    PROVE  Plain(do, p, acts) \in Job
<1>1. p \in Player \cup {0} /\ 0 \in Player \cup {0}
  OBVIOUS
<1>2. {} \in SUBSET Player /\ "" \in {"", "main", "first", "firstLast"}
  OBVIOUS
<1> QED
  BY <1>1, <1>2 DEF Plain, Job

LEMMA NoActs == 0 \in -1..2 /\ -1 \in -1..2
OBVIOUS

LEMMA Kinds ==
    /\ {"main", "menu", "resolve", "collect", "grab", "end"} \subseteq Kind
    /\ EndJobs \subseteq Kind
    /\ "idle" \in Kind /\ "tagback" \in Kind /\ "first" \in Kind
    /\ "respawn" \in Kind /\ "respawned" \in Kind
BY DEF Kind, EndJobs

LEMMA IdleShape == Idle \in Job /\ Idle.do = "idle" /\ WellFormed(Idle)
<1>1. Idle \in Job
  BY PlainType, NoActs, Kinds DEF Idle
<1>2. Idle.do = "idle"
  BY DEF Idle, Plain
<1> QED
  BY <1>1, <1>2 DEF WellFormed

\* The steps of a turn know whose turn it is.
LEMMA TurnShape ==
    ASSUME NEW p \in Player, NEW acts \in -1..2
    PROVE  /\ WellFormed(Main(p)) /\ Main(p).do = "main" /\ Main(p).p = p /\ Main(p).next = ""
           /\ WellFormed(Menu(p, acts)) /\ Menu(p, acts).do = "menu" /\ Menu(p, acts).p = p
           /\ WellFormed(Resolve(p, acts)) /\ Resolve(p, acts).do = "resolve"
           /\ Resolve(p, acts).p = p
           /\ WellFormed(Collect(p, acts)) /\ Collect(p, acts).do = "collect"
           /\ Collect(p, acts).p = p
           /\ WellFormed(Grab(p, acts)) /\ Grab(p, acts).do = "grab" /\ Grab(p, acts).p = p
           /\ WellFormed(End(p)) /\ End(p).do = "end" /\ End(p).p = p
<1>1. ASSUME NEW do \in {"main", "menu", "resolve", "collect", "grab", "end"}, NEW n \in -1..2
      PROVE  WellFormed(Plain(do, p, n))
  <2>1. Plain(do, p, n) \in Job
    BY Kinds, PlainType
  <2>2. Plain(do, p, n).p = p /\ Plain(do, p, n).do \notin {"respawned", "tagback"}
    BY DEF Plain
  <2> QED
    BY <2>1, <2>2 DEF WellFormed
<1>2. WellFormed(Main(p)) /\ WellFormed(End(p))
  BY <1>1, NoActs DEF Main, End
<1>3. WellFormed(Menu(p, acts)) /\ WellFormed(Resolve(p, acts)) /\ WellFormed(Collect(p, acts))
  BY <1>1 DEF Menu, Resolve, Collect
<1>4. WellFormed(Grab(p, acts))
  BY <1>1 DEF Grab
<1> QED
  BY <1>2, <1>3, <1>4 DEF Main, Menu, Resolve, Collect, Grab, End, Plain

LEMMA TagbackShape ==
    ASSUME NEW p \in Player, NEW acts \in -1..2, NEW a \in Player
    PROVE  /\ WellFormed(Tagback(p, acts, a)) /\ Tagback(p, acts, a).do = "tagback"
           /\ Tagback(p, acts, a).p = p /\ Tagback(p, acts, a).other = a
BY DEF Tagback, WellFormed, Plain, Job, Kind

LEMMA FirstShape ==
    ASSUME NEW p \in Player, NEW isLast \in BOOLEAN
    PROVE  /\ WellFormed(First(p, isLast)) /\ First(p, isLast).do = "first"
           /\ First(p, isLast).p = p
           /\ First(p, isLast).next = IF isLast THEN "firstLast" ELSE "first"
<1>1. Plain("first", p, 0) \in Job
  BY Kinds, NoActs, PlainType
<1>2. First(p, TRUE) \in Job /\ First(p, FALSE) \in Job
  BY <1>1 DEF First, Job
<1>3. WellFormed(First(p, TRUE)) /\ First(p, TRUE).do = "first"
      /\ First(p, TRUE).p = p /\ First(p, TRUE).next = "firstLast"
  BY <1>2 DEF WellFormed, First, Plain
<1>4. WellFormed(First(p, FALSE)) /\ First(p, FALSE).do = "first"
      /\ First(p, FALSE).p = p /\ First(p, FALSE).next = "first"
  BY <1>2 DEF WellFormed, First, Plain
<1> QED
  BY <1>3, <1>4

\* The next step of the end of a turn.
LEMMA SettleShape ==
    ASSUME NEW i, WellFormed(i), i.do # "idle", NEW before \in BOOLEAN, NEW j,
           j = [i EXCEPT !.do = "settle", !.before = before]
    PROVE  WellFormed(j) /\ j.do = "settle" /\ j.p = i.p /\ j.before = before
BY DEF WellFormed, Job, Kind

LEMMA KillsShape ==
    ASSUME NEW i, WellFormed(i), i.do # "idle", NEW who \in SUBSET Player, NEW j,
           j = [i EXCEPT !.do = "kills", !.tail = who]
    PROVE  /\ WellFormed(j) /\ j.do = "kills" /\ j.p = i.p /\ j.before = i.before
           /\ j.tail = who
BY DEF WellFormed, Job, Kind

LEMMA LastShape ==
    ASSUME NEW i, WellFormed(i), i.do # "idle", NEW do \in {"last", "frenzy"}, NEW j,
           j = [i EXCEPT !.do = do]
    PROVE  /\ WellFormed(j) /\ j.do = do /\ j.p = i.p /\ j.before = i.before
           /\ j.tail = i.tail
BY DEF WellFormed, Job, Kind

LEMMA RespawnShape ==
    ASSUME NEW who \in SUBSET Player, NEW p \in Player,
           NEW next \in {"", "main", "first", "firstLast"}
    PROVE  /\ WellFormed(Respawn(who, p, next)) /\ Respawn(who, p, next).do = "respawn"
           /\ Respawn(who, p, next).p = p /\ Respawn(who, p, next).tail = who
           /\ Respawn(who, p, next).next = next
<1> DEFINE plain == Plain("respawn", p, 0)
<1>1. plain \in Job
  BY Kinds, NoActs, PlainType
<1>2. plain.do = "respawn" /\ plain.p = p
  BY DEF Plain
<1>3. Respawn(who, p, next) = [plain EXCEPT !.tail = who, !.next = next]
  BY DEF Respawn
<1> HIDE DEF plain
<1>4. Respawn(who, p, next) \in Job
  BY <1>1, <1>3 DEF Job
<1>5. /\ Respawn(who, p, next).do = "respawn" /\ Respawn(who, p, next).p = p
      /\ Respawn(who, p, next).tail = who /\ Respawn(who, p, next).next = next
  BY <1>1, <1>2, <1>3 DEF Job
<1> QED
  BY <1>4, <1>5 DEF WellFormed

LEMMA RespawnedType ==
    ASSUME NEW h \in Player, NEW who \in SUBSET Player, NEW p \in Player,
           NEW next \in {"", "main", "first", "firstLast"}
    PROVE  WellFormed(Respawned(h, who, p, next))
<1> DEFINE plain == Plain("respawned", p, 0)
<1>1. plain \in Job
  BY Kinds, NoActs, PlainType
<1>2. plain.do = "respawned" /\ plain.p = p
  BY DEF Plain
<1>3. Respawned(h, who, p, next) = [plain EXCEPT !.other = h, !.tail = who, !.next = next]
  BY DEF Respawned
<1> HIDE DEF plain
<1>4. Respawned(h, who, p, next) \in Job
  BY <1>1, <1>3 DEF Job
<1>5. Respawned(h, who, p, next).p = p /\ Respawned(h, who, p, next).other = h
  BY <1>1, <1>2, <1>3 DEF Job
<1> QED
  BY <1>4, <1>5 DEF WellFormed

-----------------------------------------------------------------------------
(* Types *)

LEMMA GoOnType ==
    ASSUME ThreadTypes, NEW t \in Thread, NEW j, WellFormed(j), GoOn(t, j)
    PROVE  ThreadTypes'
BY DEF ThreadTypes, GoOn, WellFormed

LEMMA StartType ==
    ASSUME ThreadTypes, NEW j, WellFormed(j), Start(j)
    PROVE  ThreadTypes'
BY DEF ThreadTypes, Start, WellFormed

\* A question, as it may be put.
WellAsked(q) == q \in Question /\ WellFormed(q.job) /\ (q.ask # "wait" => q.job.do # "idle")

LEMMA AskShape ==
    ASSUME NEW ask \in {"wait", "menu", "grab", "tagback", "respawn"}, NEW j, WellFormed(j),
           j.do # "idle"
    PROVE  WellAsked(Ask(ask, j)) /\ Ask(ask, j).ask = ask /\ Ask(ask, j).job = j
BY DEF WellAsked, WellFormed, Ask, Question

LEMMA WaitShape == WellAsked(Wait) /\ Wait.ask = "wait"
BY IdleShape DEF WellAsked, Wait, Ask, Question

LEMMA PutType ==
    ASSUME SlotTypes, NEW p \in Player, NEW q, WellAsked(q), slot' = [slot EXCEPT ![p] = q]
    PROVE  SlotTypes'
BY DEF SlotTypes, WellAsked

LEMMA SetMessageType ==
    ASSUME ThreadTypes, SlotTypes, TimeoutTypes, NEW t \in Thread, NEW p \in Player, NEW q,
           WellAsked(q), SetMessage(t, p, q), UNCHANGED onTimeout
    PROVE  ThreadTypes' /\ SlotTypes' /\ TimeoutTypes'
<1>1. TimeoutTypes'
  BY DEF TimeoutTypes
<1>2. CASE /\ slot' = [slot EXCEPT ![p] = q]
           /\ GoOn(t, Idle)
  BY <1>1, <1>2, GoOnType, PutType, IdleShape
<1>3. CASE GoOn(t, onTimeout[p]) /\ UNCHANGED slot
  <2>1. WellFormed(onTimeout[p])
    BY DEF TimeoutTypes
  <2>2. ThreadTypes'
    BY <1>3, <2>1, GoOnType
  <2> QED
    BY <1>1, <1>3, <2>2 DEF SlotTypes
<1> QED
  BY <1>2, <1>3 DEF SetMessage

LEMMA AskOrTimeoutType ==
    ASSUME ThreadTypes, SlotTypes, TimeoutTypes, NEW t \in Thread, NEW p \in Player, NEW q,
           NEW j, WellAsked(q), WellFormed(j), AskOrTimeout(t, p, q, j)
    PROVE  ThreadTypes' /\ SlotTypes' /\ TimeoutTypes'
<1>1. CASE /\ onTimeout' = [onTimeout EXCEPT ![p] = j]
           /\ slot' = [slot EXCEPT ![p] = q]
           /\ GoOn(t, Idle)
  <2>1. TimeoutTypes'
    BY <1>1 DEF TimeoutTypes, WellFormed
  <2> QED
    BY <1>1, <2>1, GoOnType, PutType, IdleShape
<1>2. CASE GoOn(t, j) /\ UNCHANGED <<slot, onTimeout>>
  BY <1>2, GoOnType DEF SlotTypes, TimeoutTypes
<1> QED
  BY <1>1, <1>2 DEF AskOrTimeout

LEMMA AnswerType ==
    ASSUME ThreadTypes, SlotTypes, TimeoutTypes, NEW p \in Player, NEW ask, NEW j, WellFormed(j),
           Answer(p, ask, j)
    PROVE  ThreadTypes' /\ SlotTypes' /\ TimeoutTypes'
<1>1. TimeoutTypes'
  BY DEF Answer, TimeoutTypes
<1> QED
  BY <1>1, PutType, WaitShape, StartType DEF Answer

\* A thread that runs knows whose turn it is.
LEMMA RunShape ==
    ASSUME ThreadTypes, NEW t \in Thread, NEW do \in Kind \ {"idle"}, Runs(t, do)
    PROVE  /\ WellFormed(thread[t]) /\ thread[t] \in Job
           /\ thread[t].do = do /\ thread[t].p \in Player /\ thread[t].acts \in -1..2
           /\ thread[t].tail \in SUBSET Player
           /\ thread[t].next \in {"", "main", "first", "firstLast"}
           /\ do \in {"respawned", "tagback"} => thread[t].other \in Player
BY DEF ThreadTypes, WellFormed, Runs, Job

\* So does the question of a player who is asked.
LEMMA QuestionShape ==
    ASSUME SlotTypes, NEW p \in Player, slot[p].ask # "wait"
    PROVE  /\ WellFormed(slot[p].job) /\ slot[p].job \in Job
           /\ slot[p].job.p \in Player /\ slot[p].job.acts \in -1..2
BY DEF SlotTypes, WellFormed, Job

LEMMA StartMainActionType ==
    ASSUME TypeInv, NEW t \in Thread, StartMainAction(t)
    PROVE  TypeInv'
<1> DEFINE p == thread[t].p
<1>1. p \in Player
  BY RunShape, Kinds DEF StartMainAction, TypeInv, Kind
<1>2. Bundles(p) \in -1..2
  BY DEF Bundles
<1>3. WellFormed(End(p)) /\ WellFormed(Menu(p, Bundles(p))) /\ Menu(p, Bundles(p)).do # "idle"
  BY <1>1, <1>2, TurnShape
<1>4. WellAsked(Ask("menu", Menu(p, Bundles(p))))
  BY <1>3, AskShape
<1>5. ThreadTypes' /\ SlotTypes' /\ TimeoutTypes'
  BY <1>1, <1>3, <1>4, AskOrTimeoutType DEF StartMainAction, TypeInv
<1>6. GameTypes' /\ WeaponTypes'
  BY DEF StartMainAction, TypeInv, GameTypes, WeaponTypes, boardVars, frenzyVars, arsenalVars
<1>7. TurnTypes'
  BY <1>1 DEF StartMainAction, TypeInv, TurnTypes
<1> QED
  BY <1>5, <1>6, <1>7 DEF TypeInv

LEMMA SetPowUpsType ==
    ASSUME TypeInv, NEW t \in Thread, SetPowUps(t)
    PROVE  TypeInv'
<1> DEFINE j == thread[t]
<1>1. WellFormed(j) /\ j.p \in Player /\ j.do = "menu"
  BY RunShape DEF SetPowUps, TypeInv, Kind
<1>2. WellAsked(Ask("menu", j))
  BY <1>1, AskShape
<1>3. ThreadTypes' /\ SlotTypes' /\ TimeoutTypes'
  BY <1>1, <1>2, SetMessageType DEF SetPowUps, TypeInv
<1> QED
  BY <1>3 DEF SetPowUps, TypeInv, GameTypes, WeaponTypes, TurnTypes, boardVars, frenzyVars,
              arsenalVars, turnVars

LEMMA MakeGrabChoiceType ==
    ASSUME TypeInv, NEW t \in Thread, MakeGrabChoice(t)
    PROVE  TypeInv'
<1> DEFINE j == thread[t]
<1>1. WellFormed(j) /\ j.p \in Player /\ j.do = "grab"
  BY RunShape DEF MakeGrabChoice, TypeInv, Kind
<1>2. WellAsked(Ask("grab", j))
  BY <1>1, AskShape
<1>3. ThreadTypes' /\ SlotTypes' /\ TimeoutTypes'
  BY <1>1, <1>2, SetMessageType DEF MakeGrabChoice, TypeInv
<1> QED
  BY <1>3 DEF MakeGrabChoice, TypeInv, GameTypes, WeaponTypes, TurnTypes, boardVars, frenzyVars,
              arsenalVars, turnVars

LEMMA MergeEffectsType ==
    ASSUME TypeInv, NEW t \in Thread, MergeEffects(t)
    PROVE  TypeInv'
<1> DEFINE j == thread[t]
<1>1. j.p \in Player /\ j.acts \in -1..2
  BY RunShape DEF MergeEffects, TypeInv, Kind
<1>2. ThreadTypes'
  BY <1>1, TurnShape, GoOnType DEF MergeEffects, TypeInv
<1>3. GameTypes'
  BY <1>1 DEF MergeEffects, TypeInv, GameTypes, frenzyVars
<1> QED
  BY <1>2, <1>3 DEF MergeEffects, TypeInv, SlotTypes, TimeoutTypes, WeaponTypes, TurnTypes,
                    arsenalVars, turnVars

\* The first of the players hurt by p.
LEMMA FirstHurt ==
    ASSUME NEW p, Hurt(p) # {}
    PROVE  (CHOOSE a \in Hurt(p) : \A b \in Hurt(p) : a <= b) \in Hurt(p)
<1>1. Hurt(p) \subseteq Int /\ IsFiniteSet(Player) /\ Hurt(p) \subseteq Player
  BY TurnAssumption, FS_Interval DEF Hurt, Player
<1>2. IsFiniteSet(Hurt(p))
  BY <1>1, FS_Subset
<1>3. \E a \in Hurt(p) : \A b \in Hurt(p) : a <= b
  BY <1>1, <1>2, LeastAndGreatest
<1> QED
  BY <1>3

LEMMA ResolveTagbacksType ==
    ASSUME TypeInv, NEW t \in Thread, ResolveTagbacks(t)
    PROVE  TypeInv'
<1> DEFINE j == thread[t]
           a == CHOOSE a \in Hurt(j.p) : \A b \in Hurt(j.p) : a <= b
<1>1. j.p \in Player /\ j.acts \in -1..2
  BY RunShape DEF ResolveTagbacks, TypeInv, Kind
<1>2. a \in Hurt(j.p)
  BY FirstHurt DEF ResolveTagbacks
<1>3. a \in Player
  BY <1>2 DEF Hurt
<1>4. damagers' = [damagers EXCEPT ![a] = @ \ {j.p}] /\ GoOn(t, Tagback(j.p, j.acts, a))
  BY DEF ResolveTagbacks
<1>5. ThreadTypes'
  BY <1>1, <1>3, <1>4, TagbackShape, GoOnType DEF TypeInv
<1>6. GameTypes'
  BY <1>3, <1>4 DEF ResolveTagbacks, TypeInv, GameTypes, frenzyVars
<1> QED
  BY <1>5, <1>6 DEF ResolveTagbacks, TypeInv, SlotTypes, TimeoutTypes, WeaponTypes, TurnTypes,
                    arsenalVars, turnVars

\* What a thread does that only goes on with another job.
LEMMA OnwardType ==
    ASSUME TypeInv, NEW t \in Thread, NEW j, WellFormed(j), GoOn(t, j),
           UNCHANGED <<phase, online, leaked, slot, onTimeout, firstRoundOver, boardVars, turnVars>>
    PROVE  TypeInv'
<1>1. ThreadTypes'
  BY GoOnType DEF TypeInv
<1> QED
  BY <1>1 DEF TypeInv, SlotTypes, TimeoutTypes, GameTypes, WeaponTypes, TurnTypes, boardVars,
              frenzyVars,
              arsenalVars, turnVars

LEMMA OnwardSteps ==
    ASSUME TypeInv, NEW t \in Thread,
           MergeGrab(t) \/ ResolveDone(t) \/ SkipTagback(t) \/ AllRespawned(t)
    PROVE  TypeInv'
<1> DEFINE j == thread[t]
<1>1. CASE MergeGrab(t)
  <2>1. j.p \in Player /\ j.acts \in -1..2
    BY <1>1, RunShape DEF MergeGrab, TypeInv, Kind
  <2> QED
    BY <1>1, <2>1, TurnShape, OnwardType DEF MergeGrab
<1>2. CASE ResolveDone(t)
  <2>1. j.p \in Player /\ j.acts \in -1..2
    BY <1>2, RunShape DEF ResolveDone, TypeInv, Kind
  <2>2. WellFormed(IF j.acts < 0 THEN End(j.p) ELSE Menu(j.p, j.acts))
    BY <2>1, TurnShape
  <2> QED
    BY <1>2, <2>2, OnwardType DEF ResolveDone
<1>3. CASE SkipTagback(t)
  <2>1. j.p \in Player /\ j.acts \in -1..2
    BY <1>3, RunShape DEF SkipTagback, TypeInv, Kind
  <2> QED
    BY <1>3, <2>1, TurnShape, OnwardType DEF SkipTagback
<1>4. CASE AllRespawned(t)
  <2>1. j.p \in Player
    BY <1>4, RunShape DEF AllRespawned, TypeInv, Kind
  <2>2. WellFormed(Main(j.p)) /\ WellFormed(First(j.p, j.next = "firstLast"))
    BY <2>1, NoActs, TurnShape, FirstShape
  <2> QED
    BY <1>4, <2>2, OnwardType DEF AllRespawned
<1> QED
  BY <1>1, <1>2, <1>3, <1>4

LEMMA AskTagbackType ==
    ASSUME TypeInv, NEW t \in Thread, AskTagback(t)
    PROVE  TypeInv'
<1> DEFINE j == thread[t]
           after == Collect(j.p, j.acts)
<1>1. j.p \in Player /\ j.acts \in -1..2 /\ j.other \in Player
  BY RunShape DEF AskTagback, TypeInv, Kind
<1>2. WellFormed(after) /\ after.do # "idle"
  BY <1>1, TurnShape
<1>3. WellAsked(Ask("tagback", after))
  BY <1>2, AskShape
<1>4. AskOrTimeout(t, j.other, Ask("tagback", after), after)
  BY DEF AskTagback
<1> HIDE DEF after
<1>5. ThreadTypes' /\ SlotTypes' /\ TimeoutTypes'
  BY <1>1, <1>2, <1>3, <1>4, AskOrTimeoutType DEF TypeInv
<1> QED
  BY <1>5 DEF AskTagback, TypeInv, GameTypes, WeaponTypes, TurnTypes, boardVars, frenzyVars,
              arsenalVars,
              turnVars

LEMMA AskRespawnType ==
    ASSUME TypeInv, NEW t \in Thread, AskRespawn(t)
    PROVE  TypeInv'
<1> DEFINE j == thread[t]
<1>1. j.p \in Player /\ j.tail \in SUBSET Player /\ j.next \in {"", "main", "first", "firstLast"}
  BY RunShape DEF AskRespawn, TypeInv, Kind
<1>2. PICK h \in j.tail :
         AskOrTimeout(t, h, Ask("respawn", Respawned(h, j.tail \ {h}, j.p, j.next)),
                      Respawned(h, j.tail \ {h}, j.p, j.next))
  BY DEF AskRespawn
<1> DEFINE after == Respawned(h, j.tail \ {h}, j.p, j.next)
<1>3. WellFormed(after) /\ after.do # "idle"
  <2> DEFINE rest == j.tail \ {h}
             p == j.p
             next == j.next
  <2>1. h \in Player /\ rest \in SUBSET Player /\ p \in Player
        /\ next \in {"", "main", "first", "firstLast"}
    BY <1>1
  <2>2. after = Respawned(h, rest, p, next)
    OBVIOUS
  <2> HIDE DEF j, rest, p, next, after
  <2>3. WellFormed(Respawned(h, rest, p, next))
    BY <2>1, RespawnedType
  <2>4. Respawned(h, rest, p, next).do = "respawned"
    BY DEF Respawned, Plain
  <2> QED
    BY <2>2, <2>3, <2>4
<1>4. WellAsked(Ask("respawn", after))
  BY <1>3, AskShape
<1> HIDE DEF after
<1>5. ThreadTypes' /\ SlotTypes' /\ TimeoutTypes'
  BY <1>1, <1>2, <1>3, <1>4, AskOrTimeoutType DEF TypeInv, after
<1> QED
  BY <1>5 DEF AskRespawn, TypeInv, GameTypes, WeaponTypes, TurnTypes, boardVars, frenzyVars,
              arsenalVars,
              turnVars

LEMMA DoRespawnType ==
    ASSUME TypeInv, NEW t \in Thread, DoRespawn(t)
    PROVE  TypeInv'
<1> DEFINE j == thread[t]
<1>1. /\ j.p \in Player /\ j.tail \in SUBSET Player /\ j.other \in Player
      /\ j.next \in {"", "main", "first", "firstLast"}
  BY RunShape DEF DoRespawn, TypeInv, Kind
<1> HIDE DEF j
<1>2. WellFormed(Respawn(j.tail, j.p, j.next))
  BY <1>1, RespawnShape
<1> USE DEF j
<1>4. ThreadTypes'
  BY <1>2, GoOnType DEF DoRespawn, TypeInv
<1>3. GameTypes'
  BY <1>1 DEF DoRespawn, TypeInv, GameTypes, frenzyVars
<1> QED
  BY <1>4, <1>3 DEF DoRespawn, TypeInv, SlotTypes, TimeoutTypes, WeaponTypes, TurnTypes,
                    arsenalVars, turnVars

LEMMA FirstRoundType ==
    ASSUME TypeInv, NEW t \in Thread, FirstRound(t)
    PROVE  TypeInv'
<1> DEFINE j == thread[t]
<1>1. j.p \in Player
  BY RunShape DEF FirstRound, TypeInv, Kind
<1>2. ThreadTypes'
  <2>1. {j.p} \in SUBSET Player
    BY <1>1
  <2> HIDE DEF j
  <2>2. WellFormed(Respawn({j.p}, j.p, "main"))
    BY <1>1, <2>1, RespawnShape
  <2> USE DEF j
  <2> QED
    BY <2>2, GoOnType DEF FirstRound, TypeInv
<1>3. GameTypes'
  BY DEF FirstRound, TypeInv, GameTypes, boardVars, frenzyVars
<1> QED
  BY <1>2, <1>3 DEF FirstRound, TypeInv, SlotTypes, TimeoutTypes, WeaponTypes, TurnTypes,
                    boardVars, frenzyVars, arsenalVars, turnVars

\* The player who follows p is a player.
LEMMA NextPlayerType ==
    ASSUME NEW p \in Player \cup {0}
    PROVE  /\ NextPlayer(p) \in Player
           /\ NextPlayer(p) = IF p = N THEN 1 ELSE p + 1
<1>1. N \in Nat /\ N > 1 /\ p \in Nat /\ p <= N
  BY TurnAssumption DEF Player
<1>2. CASE p = N
  <2>1. N % N = 0
    BY <1>1
  <2> QED
    BY <1>1, <1>2, <2>1 DEF NextPlayer, Player
<1>3. CASE p # N
  <2>1. p < N
    BY <1>1, <1>3
  <2>2. p % N = p
    BY <1>1, <2>1
  <2> QED
    BY <1>1, <2>1, <2>2 DEF NextPlayer, Player
<1> QED
  BY <1>2, <1>3

\* The steps of the end of a turn that only set what is theirs.
LEMMA EndTurnType ==
    ASSUME TypeInv, NEW t \in Thread, EndTurn(t)
    PROVE  TypeInv'
<1> PICK i : i = thread[t]
  OBVIOUS
<1>1. WellFormed(i) /\ i.do = "end" /\ i.p \in Player /\ i.tail \in SUBSET Player
  BY RunShape DEF EndTurn, TypeInv, Kind
<1> PICK before \in BOOLEAN : before = FinalFrenzy
  BY DEF FinalFrenzy
<1> PICK j : j = [i EXCEPT !.do = "settle", !.before = before]
  OBVIOUS
<1>2. WellFormed(j)
  BY <1>1, SettleShape
<1>3. ThreadTypes'
  BY <1>2, GoOnType DEF EndTurn, TypeInv
<1>4. GameTypes'
  BY DEF EndTurn, TypeInv, GameTypes, boardVars, frenzyVars
<1> QED
  BY <1>3, <1>4 DEF EndTurn, TypeInv, SlotTypes, TimeoutTypes, WeaponTypes, TurnTypes,
                    boardVars, frenzyVars,
                    arsenalVars, turnVars

LEMMA SettleTilesType ==
    ASSUME TypeInv, NEW t \in Thread, SettleTiles(t)
    PROVE  TypeInv'
<1> PICK i : i = thread[t]
  OBVIOUS
<1>1. WellFormed(i) /\ i.do = "settle" /\ i.p \in Player
  BY RunShape DEF SettleTiles, TypeInv, Kind
<1>2. PICK tile \in SUBSET (IF Domination THEN {i.p} \cap spawned ELSE {}) :
         /\ dead' = dead \cup tile
         /\ GoOn(t, [i EXCEPT !.do = "kills", !.tail = dead \cup tile])
  BY DEF SettleTiles
<1> PICK died : died = dead \cup tile
  OBVIOUS
<1>3. died \in SUBSET Player /\ died \subseteq spawned
  BY DEF TypeInv, GameTypes
<1> PICK j : j = [i EXCEPT !.do = "kills", !.tail = died]
  OBVIOUS
<1>4. WellFormed(j)
  BY <1>1, <1>3, KillsShape
<1>5. ThreadTypes'
  BY <1>2, <1>4, GoOnType DEF TypeInv
<1>6. GameTypes'
  BY <1>2, <1>3 DEF SettleTiles, TypeInv, GameTypes, frenzyVars
<1> QED
  BY <1>5, <1>6 DEF SettleTiles, TypeInv, SlotTypes, TimeoutTypes, WeaponTypes, TurnTypes,
                    arsenalVars, turnVars

\* The skulls that are taken.
LEMMA KillsType ==
    ASSUME TypeInv, NEW t \in Thread, CountKills(t)
    PROVE  /\ kills' \in 0..MaxDeaths /\ fullTracks' \in 0..2
           /\ FinalFrenzy => FinalFrenzy'
<1> PICK i : i = thread[t]
  OBVIOUS
<1>1. i.tail \in SUBSET Player
  BY RunShape DEF CountKills, TypeInv, Kind
<1>2. Cardinality(i.tail) \in Nat
  <2>1. IsFiniteSet(Player)
    BY TurnAssumption, FS_Interval DEF Player
  <2> QED
    BY <1>1, <2>1, FS_Subset, FS_CardinalityType
<1>3. /\ kills' = IF kills + Cardinality(i.tail) < MaxDeaths
                  THEN kills + Cardinality(i.tail) ELSE MaxDeaths
      /\ fullTracks' \in (IF Domination THEN fullTracks..2 ELSE {fullTracks})
  BY DEF CountKills
<1>4. kills \in 0..MaxDeaths /\ MaxDeaths \in Nat /\ fullTracks \in 0..2
  BY TurnAssumption DEF TypeInv, GameTypes
<1>5. fullTracks' \in 0..2 /\ (fullTracks >= 2 => fullTracks' >= 2)
  BY <1>3, <1>4
<1>6. kills' \in 0..MaxDeaths /\ (kills >= MaxDeaths => kills' >= MaxDeaths)
  BY <1>2, <1>3, <1>4
<1> QED
  BY <1>5, <1>6 DEF FinalFrenzy

LEMMA CountKillsType ==
    ASSUME TypeInv, NEW t \in Thread, CountKills(t)
    PROVE  TypeInv'
<1> PICK i : i = thread[t]
  OBVIOUS
<1>1. WellFormed(i) /\ i.do = "kills" /\ i.p \in Player /\ i.tail \in SUBSET Player
  BY RunShape DEF CountKills, TypeInv, Kind
<1> PICK j : j = [i EXCEPT !.do = "last"]
  OBVIOUS
<1>2. WellFormed(j)
  BY <1>1, LastShape
<1>3. ThreadTypes'
  BY <1>2, GoOnType DEF CountKills, TypeInv
<1>4. GameTypes'
  <2>1. kills' \in 0..MaxDeaths /\ fullTracks' \in 0..2
    BY KillsType
  <2>2. dead' = dead \ i.tail /\ spawned' = spawned \ i.tail
    BY DEF CountKills
  <2> QED
    BY <2>1, <2>2 DEF CountKills, TypeInv, GameTypes
<1> QED
  BY <1>3, <1>4 DEF CountKills, TypeInv, SlotTypes, TimeoutTypes, WeaponTypes, TurnTypes,
                    arsenalVars, turnVars

LEMMA EndFrenzyType ==
    ASSUME TypeInv, NEW t \in Thread, EndFrenzy(t)
    PROVE  TypeInv'
<1> PICK i : i = thread[t]
  OBVIOUS
<1>1. WellFormed(i) /\ i.do = "last" /\ i.p \in Player /\ i.tail \in SUBSET Player
  BY RunShape DEF EndFrenzy, TypeInv, Kind
<1> PICK j : j = [i EXCEPT !.do = "frenzy"]
  OBVIOUS
<1>2. WellFormed(j)
  BY <1>1, LastShape
<1>3. (phase' = "over" /\ GoOn(t, Idle)) \/ (phase' = phase /\ GoOn(t, j))
  BY DEF EndFrenzy
<1>4. ThreadTypes'
  BY <1>2, <1>3, IdleShape, GoOnType DEF TypeInv
<1>5. GameTypes'
  BY <1>3 DEF EndFrenzy, TypeInv, GameTypes, boardVars, frenzyVars
<1> QED
  BY <1>4, <1>5 DEF EndFrenzy, TypeInv, SlotTypes, TimeoutTypes, WeaponTypes, TurnTypes,
                    boardVars, frenzyVars, arsenalVars, turnVars

LEMMA NextTurnType ==
    ASSUME TypeInv, NEW t \in Thread, NextTurn(t)
    PROVE  TypeInv'
<1> PICK i : i = thread[t]
  OBVIOUS
<1>1. i.p \in Player /\ i.tail \in SUBSET Player
  BY RunShape DEF NextTurn, TypeInv, Kind
<1> PICK next : next = IF firstRoundOver THEN "main"
                       ELSE IF i.p + 1 >= N THEN "firstLast" ELSE "first"
  OBVIOUS
<1>2. WellFormed(Respawn(i.tail, NextPlayer(i.p), next))
  <2>1. next \in {"", "main", "first", "firstLast"}
    OBVIOUS
  <2>2. PICK p : p = NextPlayer(i.p)
    OBVIOUS
  <2>3. PICK who : who = i.tail
    OBVIOUS
  <2>4. p \in Player /\ who \in SUBSET Player
    BY <1>1, <2>2, <2>3, NextPlayerType
  <2>5. WellFormed(Respawn(who, p, next))
    BY <2>1, <2>4, RespawnShape
  <2> QED
    BY <2>2, <2>3, <2>5
<1>3. \/ phase' = "over" /\ GoOn(t, Idle)
      \/ phase' = phase /\ GoOn(t, Respawn(i.tail, NextPlayer(i.p), next))
  BY DEF NextTurn
<1>4. ThreadTypes'
  BY <1>2, <1>3, IdleShape, GoOnType DEF TypeInv
<1>5. GameTypes'
  BY <1>1, <1>3 DEF NextTurn, TypeInv, GameTypes
<1> QED
  BY <1>4, <1>5 DEF NextTurn, TypeInv, SlotTypes, TimeoutTypes, WeaponTypes, TurnTypes,
                    arsenalVars, turnVars

\* What a player's answer starts, when it changes nothing else.
LEMMA AnswerGoesOn ==
    ASSUME TypeInv, NEW p \in Player, NEW ask, NEW j, WellFormed(j), Answer(p, ask, j),
           UNCHANGED <<boardVars, turnVars>>
    PROVE  TypeInv'
<1>1. ThreadTypes' /\ SlotTypes' /\ TimeoutTypes'
  BY AnswerType DEF TypeInv
<1> QED
  BY <1>1 DEF Answer, TypeInv, GameTypes, WeaponTypes, TurnTypes, boardVars, frenzyVars,
              arsenalVars, turnVars

LEMMA ClientType ==
    ASSUME TypeInv, NEW p \in Player, Client(p)
    PROVE  TypeInv'
<1> DEFINE j == slot[p].job
<1>1. ASSUME NEW ask \in {"menu", "grab", "tagback", "respawn"}, slot[p].ask = ask
      PROVE  WellFormed(j) /\ j.p \in Player /\ j.acts \in -1..2
  BY <1>1, QuestionShape DEF TypeInv
<1>2. CASE AnswerBundle(p)
  <2>1. j.p \in Player /\ j.acts - 1 \in -1..2
    BY <1>1, <1>2 DEF AnswerBundle, Answer
  <2>2. WellFormed(Resolve(j.p, j.acts - 1))
    BY <2>1, TurnShape
  <2> QED
    BY <1>2, <2>2, AnswerGoesOn DEF AnswerBundle
<1>3. CASE AnswerReload(p)
  <2>1. j.p \in Player
    BY <1>1, <1>3 DEF AnswerReload, Answer
  <2>2. WellFormed(Collect(j.p, -1))
    BY <2>1, NoActs, TurnShape
  <2> QED
    BY <1>3, <2>2, AnswerGoesOn DEF AnswerReload
<1>4. CASE AnswerPowerup(p)
  <2>1. j.p \in Player /\ j.acts \in -1..2 /\ Answer(p, "menu", Resolve(j.p, j.acts))
    BY <1>1, <1>4 DEF AnswerPowerup, Answer
  <2>2. WellFormed(Resolve(j.p, j.acts))
    BY <2>1, TurnShape
  <2>4. ThreadTypes' /\ SlotTypes' /\ TimeoutTypes'
    BY <2>1, <2>2, AnswerType DEF TypeInv
  <2>3. TurnTypes'
    BY <1>4, TurnAssumption DEF AnswerPowerup, TypeInv, TurnTypes
  <2> QED
    BY <1>4, <2>4, <2>3 DEF AnswerPowerup, Answer, TypeInv, GameTypes, WeaponTypes, boardVars,
                            frenzyVars,
                            arsenalVars
<1>5. CASE AnswerGrab(p)
  <2>1. j.p \in Player /\ j.acts \in -1..2 /\ Answer(p, "grab", Collect(j.p, j.acts))
    BY <1>1, <1>5 DEF AnswerGrab, Answer
  <2>2. WellFormed(Collect(j.p, j.acts))
    BY <2>1, TurnShape
  <2>4. ThreadTypes' /\ SlotTypes' /\ TimeoutTypes'
    BY <2>1, <2>2, AnswerType DEF TypeInv
  <2>3. WeaponTypes'
    <3>1. maxWeapons \in Nat
      BY TurnAssumption DEF TypeInv, WeaponTypes
    <3> QED
      BY <1>5, <3>1 DEF AnswerGrab, TypeInv, WeaponTypes
  <2> QED
    BY <1>5, <2>4, <2>3 DEF AnswerGrab, Answer, TypeInv, GameTypes, TurnTypes, frenzyVars, turnVars
<1>6. CASE AnswerDrop(p)
  <2>1. j.p \in Player /\ j.acts \in -1..2 /\ Start(Collect(j.p, j.acts))
    BY <1>1, <1>6 DEF AnswerDrop
  <2>2. ThreadTypes'
    BY <2>1, TurnShape, StartType DEF TypeInv
  <2> QED
    BY <1>6, <2>2 DEF AnswerDrop, TypeInv, SlotTypes, TimeoutTypes, GameTypes, WeaponTypes,
                      TurnTypes, boardVars, frenzyVars, arsenalVars, turnVars
<1>7. CASE AnswerTagback(p)
  BY <1>1, <1>7, AnswerGoesOn DEF AnswerTagback, Answer
<1>8. CASE AnswerRespawn(p)
  BY <1>1, <1>8, AnswerGoesOn DEF AnswerRespawn, Answer
<1>9. CASE Logout(p)
  BY <1>9 DEF Logout, TypeInv, ThreadTypes, SlotTypes, TimeoutTypes, GameTypes, WeaponTypes,
              TurnTypes, boardVars, frenzyVars, arsenalVars, turnVars
<1>10. CASE Login(p)
  BY <1>10 DEF Login, TypeInv, ThreadTypes, SlotTypes, TimeoutTypes, GameTypes, WeaponTypes,
               TurnTypes, boardVars, frenzyVars, arsenalVars, turnVars
<1>11. CASE LeakLock(p)
  BY <1>11 DEF LeakLock, TypeInv, ThreadTypes, SlotTypes, TimeoutTypes, GameTypes, WeaponTypes,
               TurnTypes, boardVars, frenzyVars, arsenalVars, turnVars
<1> QED
  BY <1>2, <1>3, <1>4, <1>5, <1>6, <1>7, <1>8, <1>9, <1>10, <1>11 DEF Client

LEMMA TimeoutType ==
    ASSUME TypeInv, NEW p \in Player, Timeout(p)
    PROVE  TypeInv'
<1>1. WellFormed(onTimeout[p])
  BY DEF TypeInv, TimeoutTypes
<1>2. ThreadTypes' /\ SlotTypes'
  BY <1>1, StartType, PutType, WaitShape DEF Timeout, TypeInv
<1> QED
  BY <1>2 DEF Timeout, TypeInv, TimeoutTypes, GameTypes, WeaponTypes, TurnTypes, boardVars,
              frenzyVars,
              arsenalVars, turnVars

LEMMA StepType == TypeInv /\ [Next]_vars => TypeInv'
<1> SUFFICES ASSUME TypeInv, [Next]_vars PROVE TypeInv'
  OBVIOUS
<1>1. ASSUME NEW t \in Thread, Run(t) PROVE TypeInv'
  BY <1>1, StartMainActionType, SetPowUpsType, MakeGrabChoiceType, MergeEffectsType,
     ResolveTagbacksType, OnwardSteps, AskTagbackType, EndTurnType, SettleTilesType,
     CountKillsType, EndFrenzyType, NextTurnType, AskRespawnType, DoRespawnType, FirstRoundType
     DEF Run
<1>2. CASE UNCHANGED vars
  BY <1>2 DEF vars, TypeInv, ThreadTypes, SlotTypes, TimeoutTypes, GameTypes, WeaponTypes,
              TurnTypes, boardVars, frenzyVars, arsenalVars, turnVars
<1> QED
  BY <1>1, <1>2, ClientType, TimeoutType DEF Next

LEMMA InitType == Init => TypeInv
<1> SUFFICES ASSUME Init PROVE TypeInv
  OBVIOUS
<1>1. N \in Nat /\ N > 1
  BY TurnAssumption
<1>2. 1 \in Player /\ {1} \in SUBSET Player
  BY <1>1 DEF Player
<1>3. WellFormed(Respawn({1}, 1, "main"))
  BY <1>2, RespawnShape
<1>4. ThreadTypes
  BY <1>3, IdleShape DEF Init, ThreadTypes, WellFormed
<1>5. SlotTypes
  BY WaitShape DEF Init, SlotTypes, WellAsked
<1>6. TimeoutTypes
  BY IdleShape DEF Init, TimeoutTypes
<1>7. GameTypes
  <2>1. /\ phase = "playing" /\ online = Player /\ firstRoundOver = FALSE
        /\ kills = 0 /\ fullTracks = 0 /\ last = 0 /\ lastInFrenzy = {}
        /\ dead = {} /\ spawned = {} /\ leaked = {}
        /\ damagers = [p \in Player |-> {}]
    BY DEF Init
  <2>2. kills \in 0..MaxDeaths
    BY <2>1, TurnAssumption
  <2>3. damagers \in [Player -> SUBSET Player]
    BY <2>1
  <2>4. fullTracks \in 0..2 /\ last \in Player \cup {0} /\ dead \subseteq spawned
        /\ spawned \subseteq Player /\ online \subseteq Player
        /\ leaked \subseteq Leaky /\ lastInFrenzy \subseteq Player
    BY <2>1
  <2>5. phase \in {"playing", "over"}
    BY <2>1
  <2>6. firstRoundOver \in BOOLEAN
    BY <2>1
  <2> QED
    BY <2>2, <2>3, <2>4, <2>5, <2>6 DEF GameTypes
<1>8. WeaponTypes
  <2>1. maxWeapons \in Nat
    BY TurnAssumption DEF Init
  <2> QED
    BY <2>1 DEF Init, WeaponTypes
<1>9. TurnTypes
  BY TurnAssumption DEF Init, TurnTypes
<1> QED
  BY <1>4, <1>5, <1>6, <1>7, <1>8, <1>9 DEF TypeInv

\* Every variable keeps its type, in particular the dead are on the map, nobody
\* holds more weapons than he may, and every thread that is started knows the
\* players it acts for.  (MainController, SlaveController)
THEOREM TypeCorrect == Spec => []TypeOK
<1>1. TypeInv => TypeOK
  BY DEF TypeInv, TypeOK, ThreadTypes, SlotTypes, TimeoutTypes, GameTypes, WeaponTypes, TurnTypes
<1> QED
  BY <1>1, InitType, StepType, PTL DEF Spec

-----------------------------------------------------------------------------
(* The start of the final frenzy *)

\* Only the end of a turn touches what decides on the frenzy.
LEMMA OnlyEndTurn ==
    [Next]_vars => \/ \E t \in Thread : CountKills(t) \/ NextTurn(t)
                   \/ UNCHANGED frenzyVars
<1> SUFFICES ASSUME [Next]_vars
             PROVE  \/ \E t \in Thread : CountKills(t) \/ NextTurn(t)
                    \/ UNCHANGED frenzyVars
  OBVIOUS
<1>1. ASSUME NEW t \in Thread, Run(t), ~CountKills(t), ~NextTurn(t)
      PROVE  UNCHANGED frenzyVars
  BY <1>1 DEF Run, StartMainAction, SetPowUps, MergeEffects, MergeGrab, MakeGrabChoice,
     ResolveTagbacks, ResolveDone, SkipTagback, AskTagback, EndTurn, SettleTiles, EndFrenzy,
     AskRespawn, DoRespawn, AllRespawned, FirstRound, boardVars
<1>2. ASSUME NEW p \in Player, Client(p) \/ Timeout(p)
      PROVE  UNCHANGED frenzyVars
  BY <1>2 DEF Client, Timeout, AnswerBundle, AnswerReload, AnswerPowerup, AnswerGrab, AnswerDrop,
     AnswerTagback, AnswerRespawn, LeakLock, Logout, Login, boardVars
<1> QED
  BY <1>1, <1>2 DEF Next, vars, boardVars

LEMMA StepFrenzy == TypeInv /\ FrenzyInv /\ [Next]_vars => FrenzyInv'
<1> SUFFICES ASSUME TypeInv, FrenzyInv, [Next]_vars PROVE FrenzyInv'
  OBVIOUS
<1>1. CASE UNCHANGED frenzyVars
  BY <1>1 DEF FrenzyInv, FinalFrenzy, frenzyVars
<1>2. ASSUME NEW t \in Thread, CountKills(t) PROVE FrenzyInv'
  <2>1. lastInFrenzy' = lastInFrenzy
    BY <1>2 DEF CountKills
  <2> QED
    BY <1>2, <2>1, KillsType DEF FrenzyInv
<1>3. ASSUME NEW t \in Thread, NextTurn(t) PROVE FrenzyInv'
  <2>1. lastInFrenzy' = lastInFrenzy \/ FinalFrenzy
    BY <1>3 DEF NextTurn, Begins
  <2>2. UNCHANGED <<kills, fullTracks>>
    BY <1>3 DEF NextTurn
  <2> QED
    BY <2>1, <2>2 DEF FrenzyInv, FinalFrenzy
<1> QED
  BY <1>1, <1>2, <1>3, OnlyEndTurn

LEMMA InitFrenzy == Init => FrenzyInv
BY DEF Init, FrenzyInv

-----------------------------------------------------------------------------
(* The turn token *)

\* A thread that runs has the token.
LEMMA RunnerHasToken ==
    ASSUME Token, NEW t \in Thread, thread[t].do # "idle"
    PROVE  Running(t)
<1>1. thread[t] # Idle
  BY IdleShape
<1> QED
  BY <1>1 DEF Token, Running, Asked

\* A player who is asked has it.
LEMMA AskedHasToken ==
    ASSUME Token, NEW p \in Player, slot[p] # Wait
    PROVE  Asked(p)
BY DEF Token, Running, Asked

\* The thread with the token goes on with a valid job.
LEMMA PassOn ==
    ASSUME ThreadTypes, NEW t \in Thread, Running(t), NEW j, Valid(j)', GoOn(t, j), UNCHANGED slot
    PROVE  Token'
<1>1. thread'[t] = j /\ \A u \in Thread \ {t} : thread'[u] = thread[u]
  BY DEF ThreadTypes, GoOn
<1>2. \A u \in Thread \ {t} : thread'[u] = Idle
  BY <1>1 DEF Running
<1>3. \A p \in Player : slot'[p] = Wait
  BY DEF Running
<1>4. Valid(thread[t])'
  BY <1>1
<1> QED
  BY <1>2, <1>3, <1>4 DEF Running, Token

\* The question that p gets, with job j for its answer.
Fits(ask, j, p) ==
    /\ ask \in {"menu", "grab", "tagback", "respawn"}
    /\ ask \in {"menu", "grab"} => j.do = ask /\ p = turn'
    /\ ask = "tagback" => j.do = "collect"
    /\ ask = "respawn" => j.do = "respawned"

\* The thread with the token puts a question, and ends.
LEMMA PutQuestion ==
    ASSUME ThreadTypes, SlotTypes, NEW t \in Thread, Running(t), NEW p \in Player, NEW ask, NEW j,
           Valid(j)', Valid(onTimeout[p])', Fits(ask, j, p),
           slot' = [slot EXCEPT ![p] = Ask(ask, j)], GoOn(t, Idle)
    PROVE  Token'
<1>1. \A u \in Thread : thread'[u] = Idle
  BY DEF ThreadTypes, GoOn, Running
<1>2. \A q \in Player \ {p} : slot'[q] = Wait
  BY DEF SlotTypes, Running
<1>3. slot'[p] = Ask(ask, j)
  BY DEF SlotTypes
<1>4. slot'[p].ask = ask /\ slot'[p].job = j
  BY <1>3 DEF Ask
<1>5. Valid(slot[p].job)'
  BY <1>4
<1>6. ValidQuestion(p)'
  BY <1>4, <1>5 DEF ValidQuestion, Fits
<1>7. slot'[p].ask # "wait"
  BY <1>4 DEF Fits
<1> QED
  BY <1>1, <1>2, <1>6, <1>7 DEF Asked, Token

\* The token goes from the question of p to the thread that is started.
LEMMA StartOn ==
    ASSUME ThreadTypes, SlotTypes, NEW p \in Player, Asked(p), NEW j, Valid(j)', Start(j),
           slot' = [slot EXCEPT ![p] = Wait]
    PROVE  Token'
<1>1. PICK t \in Thread : thread' = [thread EXCEPT ![t] = j]
  BY DEF Start
<1>2. thread'[t] = j /\ \A u \in Thread \ {t} : thread'[u] = Idle
  BY <1>1 DEF ThreadTypes, Asked
<1>3. \A q \in Player : slot'[q] = Wait
  BY DEF SlotTypes, Asked
<1>4. Valid(thread[t])'
  BY <1>2
<1> QED
  BY <1>2, <1>3, <1>4 DEF Running, Token

-----------------------------------------------------------------------------
(* The token during a turn *)

\* Nobody hurt: no one is hurt by anybody but the player on turn, either.
LEMMA UnhurtSafe == turn \in Player /\ Unhurt => OnlyByTurn
BY DEF Unhurt, OnlyByTurn

\* A step of the turn leads to any other, but the damages must be dealt with
\* before the next question to the player on turn.
LEMMA TurnLeads ==
    ASSUME NEW i, Valid(i), i.do \in TurnJobs \ {"end"}, NEW j, j.p = i.p,
           j.do \in TurnJobs \ {"tagback"}, j.do = "collect" \/ Unhurt,
           j.do = "grab" => SumFunction(weapons) < MaxFound
    PROVE  Valid(j)
<1>1. InTurn(i) /\ turn \in Player
  BY DEF Valid, InTurn, TurnStands
<1>2. OnlyByTurn
  BY <1>1, UnhurtSafe DEF InTurn
<1>3. InTurn(j)
  BY <1>1, <1>2 DEF InTurn, TurnJobs, EndJobs
<1> QED
  BY <1>3 DEF Valid, TurnJobs, EndJobs

LEMMA FrenzyKept ==
    ASSUME UNCHANGED frenzyVars
    PROVE  /\ FinalFrenzy' = FinalFrenzy /\ Marked' = Marked
           /\ FrenzySettled' = FrenzySettled
BY DEF frenzyVars, FinalFrenzy, Marked, FrenzySettled

LEMMA CountedKept ==
    ASSUME NEW inTurn, UNCHANGED <<turn, last, frenzyTurns>>, Counted(inTurn)
    PROVE  Counted(inTurn)'
BY DEF Counted, Had

\* What is valid stays so while nothing happens on the table.
LEMMA ValidKept ==
    ASSUME NEW j, Valid(j), UNCHANGED <<turn, spawned, firstRoundOver, dead, frenzyVars,
                                        frenzyTurns, damagers>>,
           j.do \in TurnJobs \ {"end"} => onTimeout'[turn] = onTimeout[turn],
           j.do = "grab" => UNCHANGED weapons
    PROVE  Valid(j)'
<1> USE FrenzyKept
<1>1. CASE j.do \in TurnJobs
  <2>1. InTurn(j)
    BY <1>1 DEF Valid
  <2>2. Counted(TRUE)'
    BY <2>1, CountedKept DEF InTurn, TurnStands, frenzyVars
  <2>3. TurnStands'
    BY <2>1, <2>2 DEF InTurn, TurnStands, Expected
  <2>4. j.do # "end" => onTimeout'[turn'] = End(turn')
    BY <1>1, <2>1 DEF InTurn
  <2>5. (IF j.do \in {"collect", "tagback"} THEN OnlyByTurn ELSE Unhurt)'
    BY <2>1 DEF InTurn, OnlyByTurn, Unhurt
  <2>6. (j.do = "grab" => SumFunction(weapons) < MaxFound)'
    BY <2>1 DEF InTurn
  <2>7. InTurn(j)'
    BY <2>1, <2>3, <2>4, <2>5, <2>6 DEF InTurn
  <2> QED
    BY <1>1, <2>7 DEF Valid, TurnJobs, EndJobs
<1>2. CASE j.do \in EndJobs
  <2>1. Ending(j)
    BY <1>2 DEF Valid
  <2>2. Counted(TRUE)'
    BY <2>1, CountedKept DEF Ending, frenzyVars
  <2>3. Expected(turn)' = Expected(turn) /\ last' = last
    BY DEF Expected, frenzyVars
  <2>4. Ending(j)'
    BY <2>1, <2>2, <2>3 DEF Ending, Unhurt
  <2> QED
    BY <1>2, <2>4 DEF Valid, TurnJobs, EndJobs
<1>3. CASE j.do \notin TurnJobs \cup EndJobs
  <2>1. BetweenTurns(j) /\ j.do # "idle"
    BY <1>3 DEF Valid
  <2>2. Counted(FALSE)'
    BY <2>1, CountedKept DEF BetweenTurns, TableCleared, frenzyVars
  <2>3. TableCleared'
    BY <2>1, <2>2 DEF BetweenTurns, TableCleared, Unhurt
  <2>4. (ToMain(j) \/ ToFirst(j))'
    BY <2>1 DEF BetweenTurns, ToMain, ToFirst, ToCome, Expected
  <2>5. BetweenTurns(j)'
    BY <2>1, <2>3, <2>4 DEF BetweenTurns
  <2> QED
    BY <1>3, <2>1, <2>5 DEF Valid
<1> QED
  BY <1>1, <1>2, <1>3

\* A thread that only goes on with another valid job.
LEMMA OnwardToken ==
    ASSUME ThreadTypes, NEW t \in Thread, Running(t), NEW j, Valid(j), GoOn(t, j),
           UNCHANGED <<phase, online, slot, onTimeout, firstRoundOver, boardVars, turnVars>>
    PROVE  Token'
<1>1. Valid(j)'
  BY ValidKept DEF boardVars, frenzyVars, arsenalVars, turnVars
<1> QED
  BY <1>1, PassOn

LEMMA MergeGrabToken ==
    ASSUME TypeInv, Token, NEW t \in Thread, MergeGrab(t)
    PROVE  Token'
<1> PICK i : i = thread[t]
  OBVIOUS
<1> PICK j : j = Grab(i.p, i.acts)
  OBVIOUS
<1>1. i.do = "resolve" /\ Running(t) /\ Valid(i)
  BY RunnerHasToken DEF MergeGrab, Runs, Running
<1>2. Unhurt
  BY <1>1 DEF Valid, InTurn, TurnJobs, EndJobs
<1>3. j.p = i.p /\ j.do = "grab"
  BY DEF Grab, Plain
<1>4. Valid(j)
  BY <1>1, <1>2, <1>3, TurnLeads DEF MergeGrab, TurnJobs, EndJobs
<1> QED
  BY <1>1, <1>4, OnwardToken DEF MergeGrab, TypeInv

LEMMA SkipTagbackToken ==
    ASSUME TypeInv, Token, NEW t \in Thread, SkipTagback(t)
    PROVE  Token'
<1> PICK i : i = thread[t]
  OBVIOUS
<1> PICK j : j = Collect(i.p, i.acts)
  OBVIOUS
<1>1. i.do = "tagback" /\ Running(t) /\ Valid(i)
  BY RunnerHasToken DEF SkipTagback, Runs, Running
<1>2. j.p = i.p /\ j.do = "collect"
  BY DEF Collect, Plain
<1>3. Valid(j)
  BY <1>1, <1>2, TurnLeads DEF TurnJobs, EndJobs
<1> QED
  BY <1>1, <1>3, OnwardToken DEF SkipTagback, TypeInv

\* If nobody is left to shoot back, nobody is hurt.
LEMMA NoneHurt == turn \in Player /\ OnlyByTurn /\ Hurt(turn) = {} => Unhurt
BY DEF OnlyByTurn, Hurt, Unhurt

LEMMA ResolveDoneToken ==
    ASSUME TypeInv, Token, NEW t \in Thread, ResolveDone(t)
    PROVE  Token'
<1> PICK i : i = thread[t]
  OBVIOUS
<1> PICK j : j = IF i.acts < 0 THEN End(i.p) ELSE Menu(i.p, i.acts)
  OBVIOUS
<1>1. i.do = "collect" /\ Running(t) /\ Valid(i)
  BY RunnerHasToken DEF ResolveDone, Runs, Running
<1>2. Unhurt
  <2>1. i.p = turn /\ turn \in Player /\ OnlyByTurn
    BY <1>1 DEF Valid, InTurn, TurnJobs, EndJobs, TurnStands
  <2> QED
    BY <2>1, NoneHurt DEF ResolveDone
<1>3. j.p = i.p /\ j.do \in {"end", "menu"}
  BY DEF End, Menu, Plain
<1>4. Valid(j)
  BY <1>1, <1>2, <1>3, TurnLeads DEF TurnJobs, EndJobs
<1> QED
  BY <1>1, <1>4, OnwardToken DEF ResolveDone, TypeInv

\* The menu and the choice of a weapon are put to the player on turn; he ends
\* his turn if he does not answer.
LEMMA AsksToken ==
    ASSUME TypeInv, Token, NEW t \in Thread, NEW i, i = thread[t],
           i.do \in {"menu", "grab"}, SetMessage(t, i.p, Ask(i.do, i)),
           UNCHANGED <<phase, online, onTimeout, firstRoundOver, boardVars, turnVars>>
    PROVE  Token'
<1> PICK e : e = onTimeout[i.p]
  OBVIOUS
<1>1. Running(t) /\ Valid(i)
  BY RunnerHasToken DEF Running
<1>2. i.p = turn /\ turn \in Player /\ Unhurt /\ e = End(turn)
  BY <1>1 DEF Valid, InTurn, TurnJobs, EndJobs, TurnStands
<1>3. e.p = i.p /\ e.do = "end"
  <2>1. End(turn).p = turn /\ End(turn).do = "end"
    BY DEF End, Plain
  <2> QED
    BY <1>2, <2>1
<1>4. Valid(e)
  BY <1>1, <1>2, <1>3, TurnLeads DEF TurnJobs, EndJobs
<1>5. Valid(i)' /\ Valid(e)'
  BY <1>1, <1>4, ValidKept DEF boardVars, frenzyVars, arsenalVars, turnVars
<1>6. CASE slot' = [slot EXCEPT ![i.p] = Ask(i.do, i)] /\ GoOn(t, Idle)
  <2> PICK p \in Player : p = turn
    BY <1>2
  <2> PICK ask : ask = i.do
    OBVIOUS
  <2>1. Valid(onTimeout[p])'
    BY <1>2, <1>5
  <2>2. Fits(ask, i, p)
    BY <1>2 DEF Fits, turnVars
  <2>3. slot' = [slot EXCEPT ![p] = Ask(ask, i)]
    BY <1>2, <1>6
  <2> QED
    BY <1>1, <1>5, <1>6, <2>1, <2>2, <2>3, PutQuestion DEF TypeInv
<1>7. CASE GoOn(t, onTimeout[i.p]) /\ UNCHANGED slot
  BY <1>1, <1>5, <1>7, PassOn DEF TypeInv
<1> QED
  BY <1>6, <1>7 DEF SetMessage

LEMMA SetMessageTokens ==
    ASSUME TypeInv, Token, NEW t \in Thread, SetPowUps(t) \/ MakeGrabChoice(t)
    PROVE  Token'
<1> PICK i : i = thread[t]
  OBVIOUS
<1>1. CASE SetPowUps(t)
  BY <1>1, AsksToken DEF SetPowUps, Runs
<1>2. CASE MakeGrabChoice(t)
  BY <1>2, AsksToken DEF MakeGrabChoice, Runs
<1> QED
  BY <1>1, <1>2

\* The player on turn hurts others, and the tagbacks are due.
LEMMA MergeEffectsToken ==
    ASSUME TypeInv, Token, NEW t \in Thread, MergeEffects(t)
    PROVE  Token'
<1> PICK i : i = thread[t]
  OBVIOUS
<1> PICK j : j = Collect(i.p, i.acts)
  OBVIOUS
<1>1. i.do = "resolve" /\ Running(t) /\ Valid(i)
  BY RunnerHasToken DEF MergeEffects, Runs, Running
<1>2. InTurn(i) /\ turn \in Player /\ Unhurt /\ i.p = turn /\ TurnStands
  BY <1>1 DEF Valid, InTurn, TurnJobs, EndJobs, TurnStands
<1>3. j.p = turn /\ j.do = "collect"
  BY <1>2 DEF Collect, Plain
<1>4. UNCHANGED <<turn, spawned, firstRoundOver, frenzyVars, frenzyTurns, onTimeout, slot>>
  BY DEF MergeEffects, turnVars
<1>5. TurnStands'
  <2>1. Counted(TRUE)'
    BY <1>2, <1>4, CountedKept DEF TurnStands, frenzyVars
  <2>2. dead' \subseteq spawned \ {turn}
    BY <1>2 DEF MergeEffects, TurnStands
  <2> QED
    BY <1>2, <1>4, <2>1, <2>2, FrenzyKept DEF TurnStands, Expected
<1>6. OnlyByTurn'
  <2>1. PICK hit \in SUBSET (spawned \ {turn}) :
           damagers' = [a \in Player |->
              IF a \in hit THEN damagers[a] \cup {turn} ELSE damagers[a]]
    BY <1>2 DEF MergeEffects
  <2>2. \A a \in Player : damagers'[a] = IF a \in hit THEN {turn} ELSE {}
    BY <1>2, <2>1 DEF Unhurt
  <2> QED
    BY <1>2, <1>4, <2>1, <2>2 DEF OnlyByTurn
<1>7. onTimeout'[turn'] = End(turn')
  BY <1>1, <1>2, <1>4 DEF InTurn
<1>8. InTurn(j)'
  BY <1>3, <1>4, <1>5, <1>6, <1>7 DEF InTurn
<1>9. Valid(j)'
  BY <1>3, <1>8 DEF Valid, TurnJobs, EndJobs
<1> QED
  BY <1>1, <1>4, <1>9, PassOn DEF MergeEffects, TypeInv

\* The first of those who were hurt may shoot back: his hit is crossed off.
LEMMA ResolveTagbacksToken ==
    ASSUME TypeInv, Token, NEW t \in Thread, ResolveTagbacks(t)
    PROVE  Token'
<1> PICK i : i = thread[t]
  OBVIOUS
<1> PICK a : a = CHOOSE c \in Hurt(i.p) : \A b \in Hurt(i.p) : c <= b
  OBVIOUS
<1> PICK j : j = Tagback(i.p, i.acts, a)
  OBVIOUS
<1>1. i.do = "collect" /\ Running(t) /\ Valid(i)
  BY RunnerHasToken DEF ResolveTagbacks, Runs, Running
<1>2. InTurn(i) /\ turn \in Player /\ OnlyByTurn /\ i.p = turn /\ TurnStands
  BY <1>1 DEF Valid, InTurn, TurnJobs, EndJobs, TurnStands
<1>3. a \in Player \ {turn}
  <2>1. a \in Hurt(i.p)
    BY FirstHurt DEF ResolveTagbacks
  <2> QED
    BY <1>2, <2>1 DEF Hurt
<1>4. j.p = turn /\ j.do = "tagback" /\ j.other = a
  BY <1>2 DEF Tagback, Plain
<1>5. UNCHANGED <<turn, spawned, firstRoundOver, frenzyVars, dead, frenzyTurns, onTimeout, slot>>
  BY DEF ResolveTagbacks, turnVars
<1>6. TurnStands'
  <2>1. Counted(TRUE)'
    BY <1>2, <1>5, CountedKept DEF TurnStands, frenzyVars
  <2> QED
    BY <1>2, <1>5, <2>1, FrenzyKept DEF TurnStands, Expected
<1>7. OnlyByTurn'
  <2>1. damagers' = [damagers EXCEPT ![a] = @ \ {turn}]
    BY <1>2 DEF ResolveTagbacks
  <2>2. damagers \in [Player -> SUBSET Player]
    BY DEF TypeInv, GameTypes
  <2>3. \A b \in Player : damagers'[b] \subseteq damagers[b]
    BY <2>1, <2>2
  <2> QED
    BY <1>2, <1>5, <2>3 DEF OnlyByTurn
<1>8. onTimeout'[turn'] = End(turn')
  BY <1>1, <1>2, <1>5 DEF InTurn
<1>9. InTurn(j)'
  BY <1>3, <1>4, <1>5, <1>6, <1>7, <1>8 DEF InTurn
<1>10. Valid(j)'
  BY <1>4, <1>9 DEF Valid, TurnJobs, EndJobs
<1>11. GoOn(t, j)
  BY DEF ResolveTagbacks
<1> QED
  BY <1>1, <1>5, <1>10, <1>11, PassOn DEF TypeInv

\* The question about the tagback leaves the deadline of the player on turn alone.
LEMMA AskTagbackToken ==
    ASSUME TypeInv, Token, NEW t \in Thread, AskTagback(t)
    PROVE  Token'
<1> PICK i : i = thread[t]
  OBVIOUS
<1> PICK j : j = Collect(i.p, i.acts)
  OBVIOUS
<1>1. i.do = "tagback" /\ Running(t) /\ Valid(i)
  BY RunnerHasToken DEF AskTagback, Runs, Running
<1>2. i.p = turn /\ turn \in Player /\ i.other # turn
  BY <1>1 DEF Valid, InTurn, TurnJobs, EndJobs, TurnStands
<1>3. i.other \in Player
  BY RunShape DEF AskTagback, TypeInv, Kind
<1>4. j.p = i.p /\ j.do = "collect"
  BY DEF Collect, Plain
<1>5. Valid(j)
  BY <1>1, <1>4, TurnLeads DEF TurnJobs, EndJobs
<1>6. onTimeout'[turn] = onTimeout[turn]
  BY <1>2, <1>3 DEF AskTagback, AskOrTimeout, TypeInv, TimeoutTypes
<1>7. Valid(j)'
  BY <1>4, <1>5, <1>6, ValidKept DEF AskTagback, boardVars, frenzyVars, turnVars
<1>8. CASE /\ onTimeout' = [onTimeout EXCEPT ![i.other] = j]
           /\ slot' = [slot EXCEPT ![i.other] = Ask("tagback", j)]
           /\ GoOn(t, Idle)
  <2> PICK a \in Player : a = i.other
    BY <1>3
  <2>1. onTimeout'[a] = j
    BY <1>8 DEF TypeInv, TimeoutTypes
  <2>2. Valid(onTimeout[a])'
    BY <1>7, <2>1
  <2>3. Fits("tagback", j, a)
    BY <1>4 DEF Fits
  <2> QED
    BY <1>1, <1>7, <1>8, <2>2, <2>3, PutQuestion DEF TypeInv
<1>9. CASE GoOn(t, j) /\ UNCHANGED <<slot, onTimeout>>
  BY <1>1, <1>7, <1>9, PassOn DEF TypeInv
<1> QED
  BY <1>8, <1>9 DEF AskTagback, AskOrTimeout

-----------------------------------------------------------------------------
(* The token between turns *)

LEMMA PlayerNumbers ==
    /\ N \in Nat /\ N > 1
    /\ Player \subseteq Nat /\ \A p \in Player : 1 <= p /\ p <= N
    /\ \A p \in Nat : 1 <= p /\ p <= N => p \in Player
BY TurnAssumption DEF Player

\* The next turn in the frenzy is that of somebody who had none in it.
LEMMA HadGrows ==
    ASSUME turn \in Player \cup {0}, last \in Player, turn' = NextPlayer(turn), last' = last
    PROVE  /\ turn' \notin Had(FALSE)
           /\ \A q \in Player : q \in Had(TRUE)' <=> q \in Had(FALSE) \/ q = turn'
<1>1. /\ turn \in Nat /\ turn <= N /\ last \in Nat /\ 1 <= last /\ last <= N /\ N \in Nat /\ N > 1
      /\ turn' = IF turn = N THEN 1 ELSE turn + 1
  BY PlayerNumbers, NextPlayerType
<1>2. \A q \in Player : q \in Nat /\ 1 <= q /\ q <= N
  BY PlayerNumbers
<1>3. CASE turn = N
  <2>1. turn' = 1
    BY <1>1, <1>3
  <2>2. CASE last = N
    BY <1>1, <1>2, <1>3, <2>1, <2>2 DEF Had
  <2>3. CASE last # N /\ last # 1
    BY <1>1, <1>2, <1>3, <2>1, <2>3 DEF Had
  <2>4. CASE last = 1
    BY <1>1, <1>2, <1>3, <2>1, <2>4 DEF Had
  <2> QED
    BY <2>2, <2>3, <2>4
<1>4. CASE turn # N
  <2>1. turn' = turn + 1
    BY <1>1, <1>4
  <2>2. CASE turn >= last
    BY <1>1, <1>2, <1>4, <2>1, <2>2 DEF Had
  <2>3. CASE turn + 1 = last
    BY <1>1, <1>2, <1>4, <2>1, <2>3 DEF Had
  <2>4. CASE turn + 1 < last
    BY <1>1, <1>2, <1>4, <2>1, <2>4 DEF Had
  <2>5. turn >= last \/ turn + 1 = last \/ turn + 1 < last
    BY <1>1
  <2> QED
    BY <2>2, <2>3, <2>4, <2>5
<1> QED
  BY <1>3, <1>4

\* So is his count: the turn that starts is his first and only one in the frenzy.
LEMMA CountNext ==
    ASSUME turn \in Player \cup {0}, last \in Player \cup {0}, turn' = NextPlayer(turn),
           last' = last, frenzyTurns \in [Player -> 0..2], Counted(FALSE),
           frenzyTurns' = IF last # 0 /\ frenzyTurns[turn'] < 2
                          THEN [frenzyTurns EXCEPT ![turn'] = @ + 1] ELSE frenzyTurns
    PROVE  /\ Counted(TRUE)'
           /\ last # 0 => /\ frenzyTurns[turn'] = 0
                          /\ frenzyTurns' = [frenzyTurns EXCEPT ![turn'] = 1]
<1>1. turn' \in Player
  BY NextPlayerType
<1>2. CASE last = 0
  BY <1>2 DEF Counted
<1>3. CASE last # 0
  <2>1. last \in Player
    BY <1>3
  <2>2. /\ turn' \notin Had(FALSE)
        /\ \A q \in Player : q \in Had(TRUE)' <=> q \in Had(FALSE) \/ q = turn'
    BY <2>1, HadGrows
  <2>3. frenzyTurns[turn'] = 0
    BY <1>1, <2>2 DEF Counted
  <2>4. frenzyTurns' = [frenzyTurns EXCEPT ![turn'] = 1]
    BY <1>3, <2>3
  <2>5. \A q \in Player : frenzyTurns'[q] = IF q = turn' THEN 1 ELSE frenzyTurns[q]
    BY <1>1, <2>4
  <2>6. \A q \in Player : frenzyTurns[q] = IF q \in Had(FALSE) THEN 1 ELSE 0
    BY <1>3 DEF Counted
  <2>7. \A q \in Player : frenzyTurns'[q] = IF q \in Had(TRUE)' THEN 1 ELSE 0
    BY <2>2, <2>5, <2>6
  <2>8. Counted(TRUE)'
    BY <1>3, <2>7 DEF Counted
  <2> QED
    BY <2>3, <2>4, <2>8
<1> QED
  BY <1>2, <1>3

\* A thread that starts a turn: everybody is on the map, and it is the turn of
\* the next player.
LEMMA TurnStarts ==
    ASSUME TypeInv, Token, NEW t \in Thread, StartMainAction(t)
    PROVE  /\ Running(t) /\ TableCleared /\ thread[t].p \in Player
           /\ turn' = NextPlayer(turn) /\ turn' = thread[t].p
           /\ spawned = Expected(turn') /\ (turn' = N => firstRoundOver)
<1>1. Running(t) /\ thread[t].do = "main" /\ turn' = thread[t].p
  BY RunnerHasToken DEF StartMainAction, Runs
<1>2. BetweenTurns(thread[t])
  BY <1>1 DEF Running, Valid, TurnJobs, EndJobs
<1>3. ToMain(thread[t]) /\ ToCome(thread[t]) = {}
  BY <1>1, <1>2 DEF BetweenTurns, ToFirst, ToCome
<1>4. spawned = Expected(turn') /\ (turn' = N => firstRoundOver)
  BY <1>1, <1>3 DEF ToMain
<1>5. turn' = NextPlayer(turn) /\ TableCleared
  BY <1>1, <1>2 DEF BetweenTurns
<1>6. thread[t].p \in Player
  BY RunShape DEF StartMainAction, TypeInv, Kind
<1> QED
  BY <1>1, <1>4, <1>5, <1>6

LEMMA StartMainActionToken ==
    ASSUME TypeInv, Token, NEW t \in Thread, StartMainAction(t)
    PROVE  Token'
<1> PICK p \in Player : p = thread[t].p
  BY TurnStarts
<1> PICK m : m = Menu(p, Bundles(p))
  OBVIOUS
<1> PICK e : e = End(p)
  OBVIOUS
<1>1. Running(t) /\ TableCleared /\ turn' = NextPlayer(turn) /\ turn' = p
      /\ spawned = Expected(p) /\ (p = N => firstRoundOver)
  BY TurnStarts
<1>2. UNCHANGED <<spawned, dead, firstRoundOver, frenzyVars, damagers>>
  BY DEF StartMainAction, boardVars, frenzyVars
<1>3. Counted(TRUE)'
  BY <1>1, <1>2, CountNext DEF StartMainAction, TypeInv, TurnTypes, GameTypes, TableCleared,
     frenzyVars
<1>4. TurnStands'
  BY <1>1, <1>2, <1>3, FrenzyKept DEF TurnStands, TableCleared, Expected
<1>5. Unhurt'
  BY <1>1, <1>2 DEF TableCleared, Unhurt
<1>6. m.p = p /\ m.do = "menu"
  BY DEF Menu, Plain
<1>7. e.p = p /\ e.do = "end"
  BY DEF End, Plain
<1>8. Valid(e)'
  BY <1>1, <1>4, <1>5, <1>7 DEF Valid, InTurn, TurnJobs, EndJobs
<1>9. CASE /\ onTimeout' = [onTimeout EXCEPT ![p] = e]
           /\ slot' = [slot EXCEPT ![p] = Ask("menu", m)]
           /\ GoOn(t, Idle)
  <2>1. onTimeout'[p] = e
    BY <1>9 DEF TypeInv, TimeoutTypes
  <2>2. onTimeout'[turn'] = End(turn')
    BY <1>1, <2>1
  <2>3. Valid(m)'
    BY <1>1, <1>4, <1>5, <1>6, <2>2 DEF Valid, InTurn, TurnJobs, EndJobs
  <2>4. Valid(onTimeout[p])'
    BY <1>8, <2>1
  <2>5. Fits("menu", m, p)
    BY <1>1, <1>6 DEF Fits
  <2> QED
    BY <1>1, <1>9, <2>3, <2>4, <2>5, PutQuestion DEF TypeInv
<1>10. CASE GoOn(t, e) /\ UNCHANGED <<slot, onTimeout>>
  BY <1>1, <1>8, <1>10, PassOn DEF TypeInv
<1> QED
  BY <1>9, <1>10 DEF StartMainAction, AskOrTimeout

\* Those who had their turn in the frenzy, as the turn ends: nobody, if it just began.
LEMMA CountEnd ==
    ASSUME turn \in Player, last \in Player \cup {0}, turn' = turn, UNCHANGED frenzyTurns,
           Counted(TRUE), last # 0 => last' = last /\ turn # last, last' \in {last, turn}
    PROVE  Counted(FALSE)'
<1>1. CASE last # 0
  <2>1. last' = last /\ turn # last
    BY <1>1
  <2>2. Had(FALSE)' = Had(TRUE)
    <3>1. turn \in Nat /\ last \in Nat
      BY PlayerNumbers
    <3>2. turn > last \/ turn < last
      BY <2>1, <3>1
    <3> QED
      BY <2>1, <3>2 DEF Had
  <2> QED
    BY <2>1, <2>2 DEF Counted
<1>2. CASE last = 0
  <2>1. \A p \in Player : frenzyTurns'[p] = 0
    BY <1>2 DEF Counted
  <2>2. last' = 0 \/ Had(FALSE)' = {}
    <3>1. turn \in Nat /\ ~(turn < turn) /\ ~(turn > turn)
      BY PlayerNumbers
    <3>2. CASE last' = turn'
      BY <3>1, <3>2 DEF Had
    <3> QED
      BY <1>2, <3>2
  <2> QED
    BY <2>1, <2>2 DEF Counted
<1> QED
  BY <1>1, <1>2

LEMMA EndTurnToken ==
    ASSUME TypeInv, Token, NEW t \in Thread, EndTurn(t)
    PROVE  Token'
<1> PICK i : i = thread[t]
  OBVIOUS
<1> PICK before \in BOOLEAN : before = FinalFrenzy
  BY DEF FinalFrenzy
<1> PICK j : j = [i EXCEPT !.do = "settle", !.before = before]
  OBVIOUS
<1>1. i.do = "end" /\ Running(t) /\ Valid(i) /\ WellFormed(i)
  BY RunnerHasToken, RunShape DEF EndTurn, Runs, Running, TypeInv, Kind
<1>2. i.p = turn /\ TurnStands /\ Unhurt /\ turn \in Player
  BY <1>1 DEF Valid, InTurn, TurnJobs, TurnStands
<1>3. j.do = "settle" /\ j.p = turn /\ j.before = before
  <2>1. i \in Job
    BY <1>1 DEF WellFormed
  <2>2. j.do = "settle" /\ j.p = i.p /\ j.before = before
    BY <2>1 DEF Job
  <2> QED
    BY <1>2, <2>2
<1>4. /\ firstRoundOver' = (firstRoundOver \/ turn = N)
      /\ UNCHANGED <<turn, spawned, dead, frenzyVars, frenzyTurns, damagers, slot>>
  BY <1>2 DEF EndTurn, boardVars, turnVars
<1>5. firstRoundOver' = firstRoundOver
  BY <1>2, <1>4 DEF TurnStands, TypeInv, GameTypes
<1>6. Counted(TRUE)'
  BY <1>2, <1>4, CountedKept DEF TurnStands, frenzyVars
<1>7. Ending(j)'
  <2>1. Unhurt' /\ Expected(turn)' = Expected(turn)
    BY <1>2, <1>4, <1>5 DEF Unhurt, Expected
  <2>2. /\ last' = last /\ FinalFrenzy' = before /\ Marked'
        /\ j.before = (last # 0) /\ (last # 0 => FinalFrenzy)
    BY <1>2, <1>3, <1>4, FrenzyKept DEF frenzyVars, TurnStands, FrenzySettled
  <2>3. turn' \in Player /\ j.p = turn' /\ spawned' = Expected(turn)'
    BY <1>2, <1>3, <1>4, <2>1 DEF TurnStands
  <2>4. turn' = N => firstRoundOver'
    BY <1>2, <1>4, <1>5 DEF TurnStands
  <2> QED
    BY <1>3, <1>6, <2>1, <2>2, <2>3, <2>4 DEF Ending
<1>8. Valid(j)'
  BY <1>3, <1>7 DEF Valid, TurnJobs, EndJobs
<1> QED
  BY <1>1, <1>4, <1>8, PassOn DEF EndTurn, TypeInv

\* A thread that ends a turn.
LEMMA EnderHasToken ==
    ASSUME TypeInv, Token, NEW t \in Thread, NEW do \in EndJobs, Runs(t, do)
    PROVE  /\ Running(t) /\ Ending(thread[t]) /\ WellFormed(thread[t])
           /\ thread[t].do = do /\ thread[t].p = turn /\ turn \in Player
           /\ thread[t].before \in BOOLEAN /\ thread[t].tail \in SUBSET Player
<1>1. thread[t].do = do /\ do # "idle"
  BY DEF Runs, EndJobs
<1>2. Running(t) /\ Valid(thread[t])
  BY <1>1, RunnerHasToken DEF Running
<1>3. Ending(thread[t])
  BY <1>1, <1>2 DEF Valid
<1>4. WellFormed(thread[t]) /\ thread[t] \in Job
  BY DEF TypeInv, ThreadTypes
<1> QED
  BY <1>1, <1>2, <1>3, <1>4 DEF Ending, Job

LEMMA SettleTilesToken ==
    ASSUME TypeInv, Token, NEW t \in Thread, SettleTiles(t)
    PROVE  Token'
<1> PICK i : i = thread[t]
  OBVIOUS
<1>1. /\ Running(t) /\ Ending(i) /\ WellFormed(i) /\ i.do = "settle" /\ i.p = turn
      /\ i.before \in BOOLEAN
  BY EnderHasToken DEF SettleTiles, EndJobs
<1>2. PICK died :
         /\ died \subseteq dead \cup spawned /\ dead' = died
         /\ GoOn(t, [i EXCEPT !.do = "kills", !.tail = died])
  BY DEF SettleTiles
<1>3. died \in SUBSET Player
  BY <1>2 DEF TypeInv, GameTypes
<1> PICK j : j = [i EXCEPT !.do = "kills", !.tail = died]
  OBVIOUS
<1>4. j.do = "kills" /\ j.p = turn /\ j.before = i.before /\ j.tail = died
  <2>1. i \in Job
    BY <1>1 DEF WellFormed
  <2>2. j.do = "kills" /\ j.p = i.p /\ j.before = i.before /\ j.tail = died
    BY <2>1 DEF Job
  <2> QED
    BY <1>1, <2>2
<1>5. UNCHANGED <<turn, spawned, firstRoundOver, frenzyVars, frenzyTurns, damagers, slot>>
  BY DEF SettleTiles, turnVars
<1>6. Ending(j)'
  <2>1. Counted(TRUE)'
    BY <1>1, <1>5, CountedKept DEF Ending, frenzyVars
  <2>2. Unhurt' /\ Expected(turn)' = Expected(turn) /\ last' = last
    BY <1>1, <1>5 DEF Ending, Unhurt, Expected, frenzyVars
  <2> QED
    BY <1>1, <1>2, <1>4, <1>5, <2>1, <2>2, FrenzyKept DEF Ending
<1>7. Valid(j)'
  BY <1>4, <1>6 DEF Valid, TurnJobs, EndJobs
<1> QED
  BY <1>1, <1>2, <1>5, <1>7, PassOn DEF TypeInv

LEMMA CountKillsToken ==
    ASSUME TypeInv, Token, NEW t \in Thread, CountKills(t)
    PROVE  Token'
<1> PICK i : i = thread[t]
  OBVIOUS
<1> PICK j : j = [i EXCEPT !.do = "last"]
  OBVIOUS
<1>1. /\ Running(t) /\ Ending(i) /\ WellFormed(i) /\ i.do = "kills" /\ i.p = turn
      /\ i.before \in BOOLEAN /\ i.tail \in SUBSET Player
  BY EnderHasToken DEF CountKills, EndJobs
<1>2. j.do = "last" /\ j.p = turn /\ j.before = i.before /\ j.tail = i.tail
  BY <1>1, LastShape
<1>3. /\ dead' = dead \ i.tail /\ spawned' = spawned \ i.tail
      /\ UNCHANGED <<turn, firstRoundOver, last, lastInFrenzy, frenzyTurns, damagers, slot>>
  BY DEF CountKills, turnVars
<1>4. i.tail = dead /\ spawned = Expected(turn) /\ dead \subseteq spawned
  BY <1>1 DEF Ending, TypeInv, GameTypes
<1>5. Ending(j)'
  <2>1. Counted(TRUE)'
    BY <1>1, <1>3, CountedKept DEF Ending
  <2>2. Unhurt' /\ Expected(turn)' = Expected(turn) /\ Marked'
    BY <1>1, <1>3 DEF Ending, Unhurt, Expected, Marked
  <2>3. last' # 0 => FinalFrenzy'
    BY <1>1, <1>3, KillsType DEF Ending
  <2>4. dead' = {} /\ spawned' \cup j.tail = Expected(turn)'
    BY <1>2, <1>3, <1>4, <2>2
  <2> QED
    BY <1>1, <1>2, <1>3, <2>1, <2>2, <2>3, <2>4 DEF Ending
<1>6. Valid(j)'
  BY <1>2, <1>5 DEF Valid, TurnJobs, EndJobs
<1> QED
  BY <1>1, <1>3, <1>6, PassOn DEF CountKills, TypeInv

LEMMA EndFrenzyToken ==
    ASSUME TypeInv, Token, NEW t \in Thread, EndFrenzy(t), phase' = "playing"
    PROVE  Token'
<1> PICK i : i = thread[t]
  OBVIOUS
<1> PICK j : j = [i EXCEPT !.do = "frenzy"]
  OBVIOUS
<1>1. /\ Running(t) /\ Ending(i) /\ WellFormed(i) /\ i.do = "last" /\ i.p = turn
      /\ i.before \in BOOLEAN /\ i.tail \in SUBSET Player
  BY EnderHasToken DEF EndFrenzy, EndJobs
<1>2. j.do = "frenzy" /\ j.p = turn /\ j.before = i.before /\ j.tail = i.tail
  BY <1>1, LastShape
<1>3. ~(FinalFrenzy /\ turn \in lastInFrenzy) /\ GoOn(t, j)
  BY <1>1 DEF EndFrenzy
<1>4. UNCHANGED <<turn, spawned, dead, firstRoundOver, frenzyVars, frenzyTurns, damagers, slot>>
  BY DEF EndFrenzy, boardVars, turnVars
<1>5. turn # last
  BY <1>1, <1>3, PlayerNumbers DEF Ending, Marked
<1>6. Ending(j)'
  <2>1. Counted(TRUE)'
    BY <1>1, <1>4, CountedKept DEF Ending, frenzyVars
  <2>2. Unhurt' /\ Expected(turn)' = Expected(turn) /\ last' = last
    BY <1>1, <1>4 DEF Ending, Unhurt, Expected, frenzyVars
  <2> QED
    BY <1>1, <1>2, <1>4, <1>5, <2>1, <2>2, FrenzyKept DEF Ending
<1>7. Valid(j)'
  BY <1>2, <1>6 DEF Valid, TurnJobs, EndJobs
<1> QED
  BY <1>1, <1>3, <1>4, <1>7, PassOn DEF TypeInv

\* What the last step of a turn does to the frenzy, with the token.
LEMMA FrenzyBegins ==
    ASSUME TypeInv, Token, NEW t \in Thread, NextTurn(t)
    PROVE  /\ turn \in Player /\ turn' = turn /\ last' \in {last, turn}
           /\ last # 0 => last' = last /\ turn # last /\ lastInFrenzy' = lastInFrenzy
           /\ FrenzySettled'
           /\ lastInFrenzy' \in {lastInFrenzy, {turn}}
<1> PICK i : i = thread[t]
  OBVIOUS
<1>1. Ending(i) /\ i.do = "frenzy" /\ i.p = turn /\ turn \in Player
  BY EnderHasToken DEF NextTurn, EndJobs
<1>2. /\ last' = (IF Begins(i) THEN turn ELSE last)
      /\ lastInFrenzy' = (IF Begins(i) THEN lastInFrenzy \cup {turn} ELSE lastInFrenzy)
      /\ turn' = turn /\ UNCHANGED <<kills, fullTracks>>
  BY <1>1 DEF NextTurn, turnVars
<1>3. FinalFrenzy' = FinalFrenzy /\ turn # 0
  BY <1>1, <1>2, PlayerNumbers DEF FinalFrenzy
<1>4. /\ i.before = (last # 0) /\ (last # 0 => FinalFrenzy) /\ turn # last
      /\ lastInFrenzy = IF last = 0 THEN {} ELSE {last}
  BY <1>1 DEF Ending, Marked
<1>5. CASE Begins(i)
  <2>1. last = 0 /\ FinalFrenzy /\ lastInFrenzy = {}
    BY <1>4, <1>5 DEF Begins
  <2>2. last' = turn /\ lastInFrenzy' = {turn}
    BY <1>2, <1>5, <2>1
  <2> QED
    BY <1>1, <1>2, <1>3, <2>1, <2>2 DEF FrenzySettled, Marked
<1>6. CASE ~Begins(i)
  <2>1. last' = last /\ lastInFrenzy' = lastInFrenzy /\ (last # 0) = FinalFrenzy
    <3>1. last = 0 => ~FinalFrenzy
      BY <1>4, <1>6 DEF Begins
    <3>2. FinalFrenzy \in BOOLEAN
      BY DEF FinalFrenzy
    <3> QED
      BY <1>2, <1>4, <1>6, <3>1, <3>2
  <2> QED
    BY <1>1, <1>2, <1>3, <1>4, <2>1 DEF FrenzySettled, Marked
<1> QED
  BY <1>5, <1>6

LEMMA NextTurnToken ==
    ASSUME TypeInv, Token, NEW t \in Thread, NextTurn(t), phase' = "playing"
    PROVE  Token'
<1> PICK i : i = thread[t]
  OBVIOUS
<1> PICK next : next = IF firstRoundOver THEN "main"
                       ELSE IF i.p + 1 >= N THEN "firstLast" ELSE "first"
  OBVIOUS
<1>1. /\ Running(t) /\ Ending(i) /\ i.do = "frenzy" /\ i.p = turn /\ turn \in Player
      /\ i.tail \in SUBSET Player
  BY EnderHasToken DEF NextTurn, EndJobs
<1>2. GoOn(t, Respawn(i.tail, NextPlayer(turn), next))
  BY <1>1 DEF NextTurn
<1> PICK p \in Player : p = NextPlayer(turn)
  BY <1>1, NextPlayerType
<1> PICK j : j = Respawn(i.tail, p, next)
  OBVIOUS
<1>3. j.do = "respawn" /\ j.p = p /\ j.tail = i.tail /\ j.next = next
  BY DEF Respawn, Plain
<1>4. UNCHANGED <<turn, frenzyTurns, damagers, slot, dead, spawned, firstRoundOver>>
  BY DEF NextTurn, turnVars
<1>5. TableCleared'
  <2>1. /\ last' \in {last, turn} /\ FrenzySettled'
        /\ last # 0 => last' = last /\ turn # last
    BY FrenzyBegins
  <2>2. Counted(FALSE)'
    BY <1>1, <1>4, <2>1, CountEnd DEF Ending, TypeInv, GameTypes
  <2> QED
    BY <1>1, <1>4, <2>1, <2>2 DEF TableCleared, Unhurt, Ending
<1>6. spawned' \cup ToCome(j)' = Expected(turn)
  BY <1>1, <1>3, <1>4 DEF ToCome, Ending
<1>7. ASSUME firstRoundOver PROVE ToMain(j)'
  <2>1. next = "main" /\ spawned' \cup ToCome(j)' = Player
    BY <1>6, <1>7 DEF Expected
  <2> QED
    BY <1>3, <1>4, <1>7, <2>1 DEF ToMain, Expected
<1>8. ASSUME ~firstRoundOver PROVE ToFirst(j)'
  <2>1. turn \in Nat /\ 1 <= turn /\ turn < N /\ N \in Nat
    <3>1. turn \in Nat /\ 1 <= turn /\ turn <= N /\ N \in Nat
      BY <1>1, PlayerNumbers
    <3>2. turn # N
      BY <1>1, <1>8 DEF Ending
    <3> QED
      BY <3>1, <3>2
  <2>2. p = turn + 1
    BY <1>1, <2>1, NextPlayerType
  <2>3. (turn + 1 >= N) <=> p = N
    BY <2>1, <2>2
  <2>4. next \in {"first", "firstLast"} /\ ((next = "firstLast") <=> p = N)
    BY <1>1, <1>8, <2>3
  <2>5. spawned' \cup ToCome(j)' = 1..turn
    BY <1>6, <1>8 DEF Expected
  <2>6. turn' \in 1..(N - 1)
    BY <1>4, <2>1
  <2> QED
    BY <1>3, <1>4, <1>8, <2>4, <2>5, <2>6 DEF ToFirst
<1>9. (ToMain(j) \/ ToFirst(j))'
  BY <1>7, <1>8
<1>10. Valid(j)'
  BY <1>3, <1>4, <1>5, <1>9 DEF Valid, BetweenTurns, TurnJobs, EndJobs
<1> QED
  BY <1>1, <1>2, <1>4, <1>10, PassOn DEF TypeInv

\* A respawn leads to another step of the same way to the next turn.
LEMMA WayLeads ==
    ASSUME NEW i, Valid(i), i.do \in {"respawn", "respawned"},
           NEW j, j.do \in {"respawn", "respawned"}, j.p = i.p, j.next = i.next,
           ToCome(j) = ToCome(i)
    PROVE  Valid(j)
<1>1. BetweenTurns(i)
  BY DEF Valid, TurnJobs, EndJobs
<1>2. ToMain(j) \/ ToFirst(j)
  BY <1>1 DEF BetweenTurns, ToMain, ToFirst
<1>3. BetweenTurns(j)
  BY <1>1, <1>2 DEF BetweenTurns
<1> QED
  BY <1>3 DEF Valid, TurnJobs, EndJobs

LEMMA AskRespawnToken ==
    ASSUME TypeInv, Token, NEW t \in Thread, AskRespawn(t)
    PROVE  Token'
<1> PICK i : i = thread[t]
  OBVIOUS
<1>1. i.do = "respawn" /\ Running(t) /\ Valid(i)
  BY RunnerHasToken DEF AskRespawn, Runs, Running
<1>2. i.tail \subseteq Player
  BY RunShape DEF AskRespawn, TypeInv, Kind
<1>3. PICK h \in i.tail :
         AskOrTimeout(t, h, Ask("respawn", Respawned(h, i.tail \ {h}, i.p, i.next)),
                      Respawned(h, i.tail \ {h}, i.p, i.next))
  BY DEF AskRespawn
<1> PICK j : j = Respawned(h, i.tail \ {h}, i.p, i.next)
  OBVIOUS
<1>4. j.do = "respawned" /\ j.p = i.p /\ j.next = i.next /\ j.other = h /\ j.tail = i.tail \ {h}
  BY DEF Respawned, Plain
<1>5. ToCome(j) = ToCome(i)
  BY <1>1, <1>4 DEF ToCome
<1>6. Valid(j)
  BY <1>1, <1>4, <1>5, WayLeads
<1>7. Valid(j)'
  BY <1>4, <1>6, ValidKept DEF AskRespawn, boardVars, frenzyVars, turnVars, TurnJobs, EndJobs
<1>8. CASE /\ onTimeout' = [onTimeout EXCEPT ![h] = j]
           /\ slot' = [slot EXCEPT ![h] = Ask("respawn", j)]
           /\ GoOn(t, Idle)
  <2>1. h \in Player
    BY <1>2
  <2>2. onTimeout'[h] = j
    BY <1>8, <2>1 DEF TypeInv, TimeoutTypes
  <2>3. Valid(onTimeout[h])'
    BY <1>7, <2>2
  <2>4. Fits("respawn", j, h)
    BY <1>4 DEF Fits
  <2> QED
    BY <1>1, <1>7, <1>8, <2>1, <2>3, <2>4, PutQuestion DEF TypeInv
<1>9. CASE GoOn(t, j) /\ UNCHANGED <<slot, onTimeout>>
  BY <1>1, <1>7, <1>9, PassOn DEF TypeInv
<1> QED
  BY <1>3, <1>8, <1>9 DEF AskOrTimeout

LEMMA DoRespawnToken ==
    ASSUME TypeInv, Token, NEW t \in Thread, DoRespawn(t)
    PROVE  Token'
<1> PICK i : i = thread[t]
  OBVIOUS
<1> PICK j : j = Respawn(i.tail, i.p, i.next)
  OBVIOUS
<1>1. i.do = "respawned" /\ Running(t) /\ Valid(i)
  BY RunnerHasToken DEF DoRespawn, Runs, Running
<1>2. BetweenTurns(i)
  BY <1>1 DEF Valid, TurnJobs, EndJobs
<1>3. j.do = "respawn" /\ j.p = i.p /\ j.next = i.next /\ j.tail = i.tail
  BY DEF Respawn, Plain
<1>4. /\ spawned' = spawned \cup {i.other} /\ dead' = dead \ {i.other}
      /\ UNCHANGED <<turn, frenzyVars, frenzyTurns, firstRoundOver, damagers, slot>>
  BY DEF DoRespawn, turnVars
<1>5. TableCleared'
  <2>1. Counted(FALSE)'
    BY <1>2, <1>4, CountedKept DEF BetweenTurns, TableCleared, frenzyVars
  <2> QED
    BY <1>2, <1>4, <2>1, FrenzyKept DEF BetweenTurns, TableCleared, Unhurt
<1>6. spawned' \cup ToCome(j)' = spawned \cup ToCome(i)
  BY <1>1, <1>3, <1>4 DEF ToCome
<1>7. (ToMain(j) \/ ToFirst(j))'
  BY <1>1, <1>2, <1>3, <1>4, <1>6 DEF BetweenTurns, ToMain, ToFirst, Expected
<1>8. Valid(j)'
  BY <1>2, <1>3, <1>4, <1>5, <1>7 DEF Valid, BetweenTurns, TurnJobs, EndJobs
<1> QED
  BY <1>1, <1>4, <1>8, PassOn DEF DoRespawn, TypeInv

LEMMA AllRespawnedToken ==
    ASSUME TypeInv, Token, NEW t \in Thread, AllRespawned(t)
    PROVE  Token'
<1> PICK i : i = thread[t]
  OBVIOUS
<1> PICK j : j = IF i.next = "main" THEN Main(i.p) ELSE First(i.p, i.next = "firstLast")
  OBVIOUS
<1>1. i.do = "respawn" /\ i.tail = {} /\ Running(t) /\ Valid(i)
  BY RunnerHasToken DEF AllRespawned, Runs, Running
<1>2. BetweenTurns(i) /\ ToCome(i) = {}
  BY <1>1 DEF Valid, TurnJobs, EndJobs, ToCome
<1>3. ASSUME i.next = "main"
      PROVE  j.do = "main" /\ BetweenTurns(j)
  <2>1. j.do = "main" /\ j.p = i.p
    BY <1>3 DEF Main, Plain
  <2>2. ToMain(i) /\ ToCome(j) = {}
    BY <1>2, <1>3, <2>1 DEF BetweenTurns, ToFirst, ToCome
  <2>3. ToMain(j)
    BY <1>2, <2>1, <2>2 DEF ToMain
  <2> QED
    BY <1>2, <2>1, <2>3 DEF BetweenTurns
<1>4. ASSUME i.next # "main"
      PROVE  j.do = "first" /\ BetweenTurns(j)
  <2>1. ToFirst(i)
    BY <1>1, <1>2, <1>4 DEF BetweenTurns, ToMain
  <2>2. j.do = "first" /\ j.p = i.p
    BY <1>4 DEF First, Plain
  <2>3. j.next = i.next
    <3>1. i.next \in {"first", "firstLast"}
      BY <2>1 DEF ToFirst
    <3> QED
      BY <1>4, <3>1 DEF First, Plain
  <2>4. ToCome(j) = {}
    BY <2>2 DEF ToCome
  <2>5. ToFirst(j)
    BY <1>2, <2>1, <2>2, <2>3, <2>4 DEF ToFirst
  <2> QED
    BY <1>2, <1>4, <2>2, <2>3, <2>5 DEF BetweenTurns
<1>5. j.do \in {"main", "first"} /\ BetweenTurns(j)
  BY <1>3, <1>4
<1>6. Valid(j)
  BY <1>5 DEF Valid, TurnJobs, EndJobs
<1> QED
  BY <1>1, <1>6, OnwardToken DEF AllRespawned, TypeInv

LEMMA FirstRoundToken ==
    ASSUME TypeInv, Token, NEW t \in Thread, FirstRound(t)
    PROVE  Token'
<1> PICK i : i = thread[t]
  OBVIOUS
<1> PICK j : j = Respawn({i.p}, i.p, "main")
  OBVIOUS
<1>1. i.do = "first" /\ Running(t) /\ Valid(i)
  BY RunnerHasToken DEF FirstRound, Runs, Running
<1>2. BetweenTurns(i) /\ ToCome(i) = {}
  BY <1>1 DEF Valid, TurnJobs, EndJobs, ToCome
<1>3. ToFirst(i) /\ i.next # "main"
  BY <1>1, <1>2 DEF BetweenTurns, ToMain
<1>4. j.do = "respawn" /\ j.p = i.p /\ j.next = "main" /\ j.tail = {i.p}
  BY DEF Respawn, Plain
<1>5. /\ firstRoundOver' = (firstRoundOver \/ i.next = "firstLast")
      /\ UNCHANGED <<turn, frenzyVars, frenzyTurns, spawned, dead, damagers, slot>>
  BY DEF FirstRound, boardVars, frenzyVars, turnVars
<1>6. TableCleared'
  <2>1. Counted(FALSE)'
    BY <1>2, <1>5, CountedKept DEF BetweenTurns, TableCleared, frenzyVars
  <2> QED
    BY <1>2, <1>5, <2>1, FrenzyKept DEF BetweenTurns, TableCleared, Unhurt
<1>7. firstRoundOver' <=> i.p = N
  BY <1>3, <1>5 DEF ToFirst
<1>8. spawned' \cup ToCome(j)' = 1..i.p
  <2>1. turn \in Nat /\ 1 <= turn /\ turn < N /\ N \in Nat
    BY <1>3, PlayerNumbers DEF ToFirst
  <2>2. turn \in Player \cup {0} /\ turn # N
    BY <2>1, PlayerNumbers
  <2>3. i.p = turn + 1
    BY <1>2, <2>2, NextPlayerType DEF BetweenTurns
  <2>4. spawned = 1..turn
    BY <1>2, <1>3 DEF ToFirst
  <2>5. ToCome(j)' = {turn + 1}
    BY <1>4, <2>3 DEF ToCome
  <2>6. (1..turn) \cup {turn + 1} = 1..(turn + 1)
    BY <2>1
  <2> QED
    BY <1>5, <2>3, <2>4, <2>5, <2>6
<1>9. ToMain(j)'
  <2>1. spawned' \cup ToCome(j)' = IF firstRoundOver' THEN Player ELSE 1..i.p
    BY <1>7, <1>8 DEF Player
  <2> QED
    BY <1>4, <1>7, <2>1 DEF ToMain, Expected
<1>10. Valid(j)'
  BY <1>2, <1>4, <1>5, <1>6, <1>9 DEF Valid, BetweenTurns, TurnJobs, EndJobs
<1> QED
  BY <1>1, <1>5, <1>10, PassOn DEF FirstRound, TypeInv

-----------------------------------------------------------------------------
(* The token and the clients *)

\* An answer hands the token on to the thread that it starts.
LEMMA AnswerToken ==
    ASSUME TypeInv, NEW p \in Player, Asked(p), NEW ask, NEW j, Answer(p, ask, j), Valid(j)'
    PROVE  Token'
BY StartOn DEF Answer, TypeInv

\* The job of a question that is answered.
LEMMA AnswerShape ==
    ASSUME TypeInv, Token, NEW p \in Player, NEW ask \in {"menu", "grab", "tagback", "respawn"},
           slot[p].ask = ask
    PROVE  /\ Asked(p) /\ Valid(slot[p].job)
           /\ ask \in {"menu", "grab"} => slot[p].job.do = ask /\ p = turn
           /\ ask = "tagback" => slot[p].job.do = "collect"
           /\ ask = "respawn" => slot[p].job.do = "respawned"
<1>1. slot[p] # Wait
  BY WaitShape
<1>2. Asked(p)
  BY <1>1, AskedHasToken
<1> QED
  BY <1>2 DEF Asked, ValidQuestion

\* The answers to the menu.
LEMMA MenuToken ==
    ASSUME TypeInv, Token, NEW p \in Player, NEW j, Answer(p, "menu", j), j.p = slot[p].job.p,
           j.do \in {"resolve", "collect"},
           UNCHANGED <<boardVars, turn, frenzyTurns>>
    PROVE  Token'
<1> PICK i : i = slot[p].job
  OBVIOUS
<1>1. Asked(p) /\ Valid(i) /\ i.do = "menu"
  BY AnswerShape DEF Answer
<1>2. Unhurt
  BY <1>1 DEF Valid, InTurn, TurnJobs, EndJobs
<1>3. Valid(j)
  BY <1>1, <1>2, TurnLeads DEF TurnJobs, EndJobs
<1>4. Valid(j)'
  BY <1>3, ValidKept DEF Answer, boardVars, frenzyVars, arsenalVars
<1> QED
  BY <1>1, <1>4, AnswerToken

LEMMA MenuTokens ==
    ASSUME TypeInv, Token, NEW p \in Player,
           AnswerBundle(p) \/ AnswerReload(p) \/ AnswerPowerup(p)
    PROVE  Token'
<1> PICK i : i = slot[p].job
  OBVIOUS
<1>1. CASE AnswerBundle(p)
  <2> PICK j : j = Resolve(i.p, i.acts - 1)
    OBVIOUS
  <2>1. j.p = i.p /\ j.do = "resolve"
    BY DEF Resolve, Plain
  <2> QED
    BY <1>1, <2>1, MenuToken DEF AnswerBundle, turnVars
<1>2. CASE AnswerReload(p)
  <2> PICK j : j = Collect(i.p, -1)
    OBVIOUS
  <2>1. j.p = i.p /\ j.do = "collect"
    BY DEF Collect, Plain
  <2> QED
    BY <1>2, <2>1, MenuToken DEF AnswerReload, turnVars
<1>3. CASE AnswerPowerup(p)
  <2> PICK j : j = Resolve(i.p, i.acts)
    OBVIOUS
  <2>1. j.p = i.p /\ j.do = "resolve"
    BY DEF Resolve, Plain
  <2> QED
    BY <1>3, <2>1, MenuToken DEF AnswerPowerup
<1> QED
  BY <1>1, <1>2, <1>3

LEMMA AnswerGrabToken ==
    ASSUME TypeInv, Token, NEW p \in Player, AnswerGrab(p)
    PROVE  Token'
<1> PICK i : i = slot[p].job
  OBVIOUS
<1> PICK j : j = Collect(i.p, i.acts)
  OBVIOUS
<1>1. Answer(p, "grab", j)
  BY DEF AnswerGrab
<1>2. Asked(p) /\ Valid(i) /\ i.do = "grab"
  BY <1>1, AnswerShape DEF Answer
<1>3. j.p = i.p /\ j.do = "collect"
  BY DEF Collect, Plain
<1>4. Valid(j)
  BY <1>2, <1>3, TurnLeads DEF TurnJobs, EndJobs
<1>5. Valid(j)'
  BY <1>1, <1>3, <1>4, ValidKept DEF Answer, AnswerGrab, turnVars
<1> QED
  BY <1>1, <1>2, <1>5, AnswerToken

\* The answers that carry on with a job that was made when they were asked for.
LEMMA ResumeTokens ==
    ASSUME TypeInv, Token, NEW p \in Player, AnswerTagback(p) \/ AnswerRespawn(p)
    PROVE  Token'
<1> PICK j : j = slot[p].job
  OBVIOUS
<1> PICK ask \in {"tagback", "respawn"} : Answer(p, ask, j)
  BY DEF AnswerTagback, AnswerRespawn
<1>1. Asked(p) /\ Valid(j)
  BY AnswerShape DEF Answer
<1>2. UNCHANGED <<boardVars, turnVars>>
  BY DEF AnswerTagback, AnswerRespawn
<1>3. Valid(j)'
  BY <1>1, <1>2, ValidKept DEF Answer, boardVars, frenzyVars, arsenalVars, turnVars
<1> QED
  BY <1>1, <1>3, AnswerToken

\* What a player may hold does not change.
LEMMA WeaponLimitStays == [Next]_vars => maxWeapons' = maxWeapons
<1> SUFFICES ASSUME [Next]_vars PROVE maxWeapons' = maxWeapons
  OBVIOUS
<1>1. ASSUME NEW t \in Thread, Run(t) PROVE maxWeapons' = maxWeapons
  BY <1>1 DEF Run, StartMainAction, SetPowUps, MergeEffects, MergeGrab, MakeGrabChoice,
     ResolveTagbacks, ResolveDone, SkipTagback, AskTagback, EndTurn, SettleTiles, CountKills,
     EndFrenzy, NextTurn, AskRespawn, DoRespawn, AllRespawned, FirstRound, boardVars, arsenalVars
<1>2. ASSUME NEW p \in Player, Client(p) \/ Timeout(p) PROVE maxWeapons' = maxWeapons
  BY <1>2 DEF Client, Timeout, AnswerBundle, AnswerReload, AnswerPowerup, AnswerGrab, AnswerDrop,
     AnswerTagback, AnswerRespawn, LeakLock, Logout, Login, boardVars, arsenalVars
<1> QED
  BY <1>1, <1>2 DEF Next, vars, boardVars, frenzyVars, arsenalVars

\* With room for every weapon that is found nobody drops one.
LEMMA NobodyDrops ==
    ASSUME TypeInv, Token, NoDrops, NEW p \in Player, AnswerDrop(p)
    PROVE  FALSE
<1>1. slot[p].ask = "grab" /\ weapons[p] = maxWeapons
  BY DEF AnswerDrop
<1>2. SumFunction(weapons) < MaxFound
  BY <1>1, AnswerShape DEF Valid, InTurn, TurnJobs, EndJobs
<1>3. maxWeapons \in Nat /\ MaxFound \in Nat /\ weapons \in [Player -> Nat]
  BY TurnAssumption DEF TypeInv, WeaponTypes
<1>4. IsFiniteSet(Player)
  BY TurnAssumption, FS_Interval DEF Player
<1>5. SumFunction(weapons) \in Nat /\ weapons[p] <= SumFunction(weapons)
  BY <1>3, <1>4, SumOfNaturals
<1> QED
  BY <1>1, <1>2, <1>3, <1>5 DEF NoDrops

LEMMA TimeoutToken ==
    ASSUME TypeInv, Token, NEW p \in Player, Timeout(p)
    PROVE  Token'
<1> PICK j : j = onTimeout[p]
  OBVIOUS
<1>1. Asked(p) /\ Valid(j)
  BY AskedHasToken DEF Timeout, Asked, ValidQuestion
<1>2. Valid(j)'
  BY <1>1, ValidKept DEF Timeout, boardVars, frenzyVars, arsenalVars, turnVars
<1> QED
  BY <1>1, <1>2, StartOn DEF Timeout, TypeInv

\* Nothing changes but the connections and the locks.
LEMMA TokenStays ==
    ASSUME Token, UNCHANGED <<thread, slot, onTimeout, firstRoundOver, boardVars, turnVars>>
    PROVE  Token'
<1>1. \A j : Valid(j) => Valid(j)'
  BY ValidKept DEF boardVars, frenzyVars, arsenalVars, turnVars
<1>2. ASSUME NEW t \in Thread, Running(t) PROVE Token'
  <2> PICK j : j = thread[t]
    OBVIOUS
  <2>1. Valid(j)'
    BY <1>1, <1>2 DEF Running
  <2>2. Valid(thread[t])'
    BY <2>1
  <2> QED
    BY <1>2, <2>2 DEF Running, Token
<1>3. ASSUME NEW p \in Player, Asked(p) PROVE Token'
  <2> PICK j : j = slot[p].job
    OBVIOUS
  <2> PICK e : e = onTimeout[p]
    OBVIOUS
  <2>1. Valid(j)' /\ Valid(e)'
    BY <1>1, <1>3 DEF Asked, ValidQuestion
  <2>2. Valid(slot[p].job)' /\ Valid(onTimeout[p])'
    BY <2>1
  <2>3. ValidQuestion(p)'
    BY <1>3, <2>2 DEF Asked, ValidQuestion, turnVars
  <2> QED
    BY <1>3, <2>3 DEF Asked, Token
<1> QED
  BY <1>2, <1>3 DEF Token

LEMMA StepToken == TypeInv /\ TokenInv /\ [Next]_vars => TokenInv'
<1> SUFFICES ASSUME TypeInv, TokenInv, [Next]_vars, NoDrops', phase' = "playing"
             PROVE  Token'
  BY DEF TokenInv
<1>1. NoDrops
  <2>1. maxWeapons' = maxWeapons
    BY WeaponLimitStays
  <2> QED
    BY <2>1 DEF NoDrops
<1>2. CASE UNCHANGED vars
  <2>1. Token
    BY <1>1, <1>2 DEF TokenInv, vars
  <2> QED
    BY <1>2, <2>1, TokenStays DEF vars
<1>3. ASSUME NEW t \in Thread, Run(t) PROVE Token'
  <2>1. Token
    BY <1>1, <1>3 DEF TokenInv, Run, StartMainAction, SetPowUps, MergeEffects, MergeGrab,
       MakeGrabChoice, ResolveTagbacks, ResolveDone, SkipTagback, AskTagback, EndTurn, SettleTiles,
       CountKills, EndFrenzy, NextTurn, AskRespawn, DoRespawn, AllRespawned, FirstRound, Runs
  <2> QED
    BY <1>3, <2>1, StartMainActionToken, SetMessageTokens, MergeEffectsToken, MergeGrabToken,
       ResolveTagbacksToken, ResolveDoneToken, SkipTagbackToken, AskTagbackToken, EndTurnToken,
       SettleTilesToken, CountKillsToken, EndFrenzyToken, NextTurnToken, AskRespawnToken,
       DoRespawnToken, AllRespawnedToken, FirstRoundToken DEF Run
<1>4. ASSUME NEW p \in Player, Client(p) \/ Timeout(p) PROVE Token'
  <2>1. Token
    BY <1>1, <1>4 DEF TokenInv, Client, Timeout, AnswerBundle, AnswerReload, AnswerPowerup,
       AnswerGrab, AnswerDrop, AnswerTagback, AnswerRespawn, LeakLock, Logout, Login, Answer
  <2>2. CASE LeakLock(p) \/ Logout(p) \/ Login(p)
    BY <2>1, <2>2, TokenStays DEF LeakLock, Logout, Login
  <2> QED
    BY <1>1, <1>4, <2>1, <2>2, MenuTokens, AnswerGrabToken, NobodyDrops, ResumeTokens,
       TimeoutToken DEF Client
<1> QED
  BY <1>2, <1>3, <1>4 DEF Next

LEMMA InitToken == Init => TokenInv
<1> SUFFICES ASSUME Init PROVE Token
  BY DEF TokenInv
<1> PICK j : j = Respawn({1}, 1, "main")
  OBVIOUS
<1>1. PICK t \in Thread : thread = [u \in Thread |-> IF u = t THEN j ELSE Idle]
  BY DEF Init
<1>2. j.do = "respawn" /\ j.p = 1 /\ j.tail = {1} /\ j.next = "main"
  BY DEF Respawn, Plain
<1>3. N \in Nat /\ N > 1
  BY TurnAssumption
<1>4. turn = 0 /\ NextPlayer(turn) = 1
  <2>1. 0 # N /\ 0 + 1 = 1
    BY <1>3
  <2> QED
    BY <2>1, NextPlayerType DEF Init
<1>5. TableCleared
  <2>1. FinalFrenzy = FALSE
    BY TurnAssumption DEF Init, FinalFrenzy
  <2>2. FrenzySettled
    <3>1. lastInFrenzy = {} /\ last = 0
      BY DEF Init
    <3> QED
      BY <2>1, <3>1 DEF FrenzySettled, Marked
  <2>3. dead = {} /\ Unhurt /\ Counted(FALSE)
    BY DEF Init, Unhurt, Counted
  <2> QED
    BY <2>2, <2>3 DEF TableCleared
<1>6. ToMain(j)
  <2>1. spawned \cup ToCome(j) = {1} /\ ~firstRoundOver
    BY <1>2 DEF Init, ToCome
  <2>2. 1..1 = {1}
    OBVIOUS
  <2> QED
    BY <1>2, <1>3, <2>1, <2>2 DEF ToMain, Expected
<1>7. Valid(j)
  BY <1>2, <1>4, <1>5, <1>6 DEF Valid, BetweenTurns, TurnJobs, EndJobs
<1>8. thread[t] = j /\ \A u \in Thread \ {t} : thread[u] = Idle
  BY <1>1
<1>9. \A p \in Player : slot[p] = Wait
  BY DEF Init
<1> QED
  BY <1>7, <1>8, <1>9 DEF Running, Token

LEMMA InitFlow == Init => FlowInv
BY InitType, InitFrenzy, InitToken DEF FlowInv

LEMMA StepFlow == FlowInv /\ [Next]_vars => FlowInv'
BY StepType, StepFrenzy, StepToken DEF FlowInv

-----------------------------------------------------------------------------
(* What the token gives *)

\* While the game is played exactly one thread or player has the turn token,
\* however many threads the continuations are run on, if nobody drops a weapon.
\* (SlaveController.setCurrentMessage, SetMessageProxy)
THEOREM TokenIsOne == Spec => []OneToken
<1>1. FlowInv => OneToken
  <2> SUFFICES ASSUME FlowInv, NoDrops, phase = "playing"
               PROVE  Cardinality(Busy) + Cardinality(Deciding) = 1
    BY DEF OneToken
  <2>1. ASSUME NEW t \in Thread, Running(t)
        PROVE  Cardinality(Busy) + Cardinality(Deciding) = 1
    <3>1. thread[t] # Idle
      BY <2>1, IdleShape DEF Running, Valid
    <3>2. Busy = {t} /\ Deciding = {}
      BY <2>1, <3>1 DEF Running, Busy, Deciding
    <3>3. Cardinality({t}) = 1 /\ Cardinality({}) = 0
      BY FS_Singleton, FS_EmptySet
    <3> QED
      BY <3>2, <3>3
  <2>2. ASSUME NEW p \in Player, Asked(p)
        PROVE  Cardinality(Busy) + Cardinality(Deciding) = 1
    <3>1. slot[p] # Wait
      BY <2>2, WaitShape DEF Asked
    <3>2. Busy = {} /\ Deciding = {p}
      BY <2>2, <3>1 DEF Asked, Busy, Deciding
    <3>3. Cardinality({p}) = 1 /\ Cardinality({}) = 0
      BY FS_Singleton, FS_EmptySet
    <3> QED
      BY <3>2, <3>3
  <2> QED
    BY <2>1, <2>2 DEF FlowInv, TokenInv, Token
<1> QED
  BY <1>1, InitFlow, StepFlow, PTL DEF Spec

\* Who starts a turn, and what only a start or an end of a turn changes.
LEMMA TurnSteps ==
    [Next]_vars => \/ \E t \in Thread : StartMainAction(t)
                   \/ /\ \E t \in Thread : EndFrenzy(t) \/ NextTurn(t)
                      /\ UNCHANGED <<turn, frenzyTurns, online>>
                   \/ UNCHANGED <<turn, frenzyTurns, last, phase>>
<1> SUFFICES ASSUME [Next]_vars
             PROVE  \/ \E t \in Thread : StartMainAction(t)
                    \/ /\ \E t \in Thread : EndFrenzy(t) \/ NextTurn(t)
                       /\ UNCHANGED <<turn, frenzyTurns, online>>
                    \/ UNCHANGED <<turn, frenzyTurns, last, phase>>
  OBVIOUS
<1>1. ASSUME NEW t \in Thread, Run(t), ~EndFrenzy(t), ~NextTurn(t), ~StartMainAction(t)
      PROVE  UNCHANGED <<turn, frenzyTurns, last, phase>>
  BY <1>1 DEF Run, SetPowUps, MergeEffects, MergeGrab, MakeGrabChoice, ResolveTagbacks,
     ResolveDone, SkipTagback, AskTagback, EndTurn, SettleTiles, CountKills, AskRespawn,
     DoRespawn, AllRespawned, FirstRound, boardVars, frenzyVars, turnVars
<1>2. ASSUME NEW p \in Player, Client(p) \/ Timeout(p)
      PROVE  UNCHANGED <<turn, frenzyTurns, last, phase>>
  BY <1>2 DEF Client, Timeout, AnswerBundle, AnswerReload, AnswerPowerup, AnswerGrab, AnswerDrop,
     AnswerTagback, AnswerRespawn, Answer, LeakLock, Logout, Login, boardVars, frenzyVars, turnVars
<1>3. ASSUME NEW t \in Thread, EndFrenzy(t) \/ NextTurn(t)
      PROVE  UNCHANGED <<turn, frenzyTurns, online>>
  BY <1>3 DEF EndFrenzy, NextTurn, turnVars
<1> QED
  BY <1>1, <1>2, <1>3 DEF Next, vars, boardVars, frenzyVars, turnVars

\* A turn that starts, with the token there for it.
LEMMA TurnChanges ==
    ASSUME FlowInv, NoDrops, [Next]_vars, turn' # turn
    PROVE  /\ TableCleared
           /\ spawned' = (IF firstRoundOver' THEN Player ELSE 1..turn')
           /\ turn' = N => firstRoundOver'
<1>1. PICK t \in Thread : StartMainAction(t)
  BY TurnSteps
<1>2. Token
  BY <1>1 DEF FlowInv, TokenInv, StartMainAction, Runs
<1>3. UNCHANGED <<spawned, firstRoundOver>>
  BY <1>1 DEF StartMainAction, boardVars, frenzyVars
<1> QED
  BY <1>1, <1>2, <1>3, TurnStarts DEF FlowInv, Expected

\* No turn starts before all who have spawned are back on the map, and the first
\* round is over exactly when the last player starts, if nobody drops a weapon.
\* (MainController.endTurn, firstRound, SlaveController.startRespawn)
THEOREM AllAreBack == Spec => EverybodyRespawned
<1>1. FlowInv /\ [Next]_vars
        => [NoDrops /\ turn' # turn =>
              /\ spawned' = (IF firstRoundOver' THEN Player ELSE 1..turn')
              /\ firstRoundOver' = (firstRoundOver' \/ turn' = N)]_vars
  <2> SUFFICES ASSUME FlowInv, [Next]_vars, NoDrops, turn' # turn
               PROVE  /\ spawned' = (IF firstRoundOver' THEN Player ELSE 1..turn')
                      /\ firstRoundOver' = (firstRoundOver' \/ turn' = N)
    OBVIOUS
  <2>1. firstRoundOver' \in BOOLEAN
    BY StepFlow DEF FlowInv, TypeInv, GameTypes
  <2> QED
    BY <2>1, TurnChanges
<1> QED
  BY <1>1, InitFlow, StepFlow, PTL DEF Spec, EverybodyRespawned

\* Whoever was hit was offered his tagback before the next turn starts, if nobody
\* drops a weapon.  (SlaveController.startTagback, MainController.resolveEffect)
THEOREM TagbacksOffered == Spec => NoTagbackPending
<1>1. FlowInv /\ [Next]_vars
        => [NoDrops /\ turn' # turn => \A a \in Player : damagers[a] = {}]_vars
  BY TurnChanges DEF TableCleared, Unhurt
<1> QED
  BY <1>1, InitFlow, StepFlow, PTL DEF Spec, NoTagbackPending

\* Nobody is marked to end the game before the frenzy is on; and if nobody drops a
\* weapon the mark is put once, on the player in whose turn the frenzy began, and
\* is there when the next turn starts.  (MainController.endTurn)
THEOREM FrenzyOnce == Spec => FrenzyStartsOnce
<1>1. ASSUME FlowInv, NoDrops, [Next]_vars
      PROVE  /\ lastInFrenzy # {} => lastInFrenzy' = lastInFrenzy
             /\ lastInFrenzy' # lastInFrenzy => lastInFrenzy' = {turn}
             /\ turn' # turn => (lastInFrenzy # {}) = FinalFrenzy
  <2>1. ASSUME NEW t \in Thread, NextTurn(t)
        PROVE  /\ lastInFrenzy # {} => lastInFrenzy' = lastInFrenzy
               /\ lastInFrenzy' \in {lastInFrenzy, {turn}}
    <3>1. Token
      BY <1>1, <2>1 DEF FlowInv, TokenInv, NextTurn, Runs
    <3>2. Ending(thread[t])
      BY <1>1, <2>1, <3>1, EnderHasToken DEF FlowInv, NextTurn, EndJobs
    <3>3. lastInFrenzy # {} => last # 0
      BY <3>2 DEF Ending, Marked
    <3> QED
      BY <1>1, <2>1, <3>1, <3>3, FrenzyBegins DEF FlowInv
  <2>2. (\E t \in Thread : NextTurn(t)) \/ lastInFrenzy' = lastInFrenzy
    BY <1>1, OnlyEndTurn DEF CountKills, frenzyVars
  <2>3. ASSUME turn' # turn PROVE (lastInFrenzy # {}) = FinalFrenzy
    <3>1. TableCleared
      BY <1>1, <2>3, TurnChanges
    <3>2. last \in Player \cup {0}
      BY <1>1 DEF FlowInv, TypeInv, GameTypes
    <3> QED
      BY <3>1, <3>2 DEF TableCleared, FrenzySettled, Marked
  <2> QED
    BY <2>1, <2>2, <2>3
<1>2. FlowInv /\ FlowInv' /\ [Next]_vars
        => [/\ lastInFrenzy' # {} => FinalFrenzy'
            /\ NoDrops =>
                 /\ lastInFrenzy # {} => lastInFrenzy' = lastInFrenzy
                 /\ lastInFrenzy' # lastInFrenzy => lastInFrenzy' = {turn}
                 /\ turn' # turn => (lastInFrenzy # {}) = FinalFrenzy]_vars
  BY <1>1 DEF FlowInv, FrenzyInv
<1> QED
  BY <1>2, InitFlow, StepFlow, PTL DEF Spec, FrenzyStartsOnce

-----------------------------------------------------------------------------
(* The order of play *)

\* The turns that have been played in the frenzy: at most one each.
LEMMA FrenzySum ==
    ASSUME NEW f, f \in [Player -> 0..2], \A p \in Player : f[p] \in {0, 1}
    PROVE  /\ SumFunction(f) \in Nat /\ SumFunction(f) <= N
           /\ (\A p \in Player : f[p] = 1) => SumFunction(f) = N
           /\ (\A p \in Player : f[p] = 0) => SumFunction(f) = 0
<1> DEFINE ones == [p \in Player |-> 1]
           sum == SumFunctionOnSet(f, Player)
<1>1. IsFiniteSet(Player) /\ Cardinality(Player) = N
  BY TurnAssumption, FS_Interval DEF Player
<1>2. SumFunction(f) = sum
  BY DEF SumFunction
<1>3. \A p \in Player : f[p] \in Nat /\ f[p] \in Int
  OBVIOUS
<1>4. sum \in Nat
  BY <1>1, <1>3, SumType
<1>5. SumFunctionOnSet(ones, Player) = N
  <2>1. \A p \in Player : ones[p] = 1
    OBVIOUS
  <2> HIDE DEF ones
  <2> QED
    BY <1>1, <2>1, SumOfOnes
<1>6. sum <= N
  <2>1. \A p \in Player : f[p] \in Int /\ ones[p] \in Int /\ f[p] <= ones[p]
    OBVIOUS
  <2>2. sum <= SumFunctionOnSet(ones, Player)
    <3> HIDE DEF ones
    <3> QED
      BY <1>1, <2>1, SumMonotone
  <2> QED
    BY <1>5, <2>2
<1>7. (\A p \in Player : f[p] = 1) => sum = N
  BY <1>1, SumOfOnes
<1>8. (\A p \in Player : f[p] = 0) => sum = 0
  <2> SUFFICES ASSUME \A p \in Player : f[p] = 0 PROVE sum = 0
    OBVIOUS
  <2>1. sum = SumFunctionOnSet(f, {})
    BY <1>1, <1>3, SumOutside
  <2> QED
    BY <2>1, SumUnfold, FS_EmptySet
<1> QED
  BY <1>2, <1>4, <1>6, <1>7, <1>8

\* Everybody's count is none or one, as long as there is one token.
LEMMA CountedOnce ==
    ASSUME NEW inTurn, Counted(inTurn)
    PROVE  /\ \A p \in Player : frenzyTurns[p] \in {0, 1}
           /\ last = 0 => \A p \in Player : frenzyTurns[p] = 0
BY DEF Counted

\* The turns left, as the order of play sees them.
Left == IF last # 0 THEN N - SumFunction(frenzyTurns) ELSE N + 1

LEMMA StartTurnCounts ==
    ASSUME FlowInv, NoDrops, NEW t \in Thread, StartMainAction(t)
    PROVE  /\ phase = "playing" /\ phase' = phase /\ online' = online
           /\ Left > 0 /\ Left' = (IF Left = N + 1 THEN N + 1 ELSE Left - 1)
           /\ turn' = IF turn = N THEN 1 ELSE turn + 1
<1>1. phase = "playing" /\ phase' = phase /\ online' = online /\ last' = last
  BY DEF StartMainAction, Runs, boardVars, frenzyVars
<1>2. Token
  BY <1>1 DEF FlowInv, TokenInv
<1>3. turn' = NextPlayer(turn) /\ turn' = thread[t].p /\ Counted(FALSE) /\ thread[t].p \in Player
  BY <1>2, TurnStarts DEF FlowInv, TableCleared
<1>4. turn \in Player \cup {0} /\ last \in Player \cup {0} /\ frenzyTurns \in [Player -> 0..2]
      /\ N \in Nat
  BY TurnAssumption DEF FlowInv, TypeInv, TurnTypes, GameTypes
<1>5. turn' = IF turn = N THEN 1 ELSE turn + 1
  BY <1>3, <1>4, NextPlayerType
<1>6. /\ Counted(TRUE)'
      /\ last # 0 => frenzyTurns[turn'] = 0 /\ frenzyTurns' = [frenzyTurns EXCEPT ![turn'] = 1]
  <2>1. frenzyTurns' = IF last # 0 /\ frenzyTurns[turn'] < 2
                       THEN [frenzyTurns EXCEPT ![turn'] = @ + 1] ELSE frenzyTurns
    BY <1>3 DEF StartMainAction
  <2> QED
    BY <1>1, <1>3, <1>4, <2>1, CountNext
<1>7. CASE last = 0
  <2>1. Left = N + 1 /\ Left' = N + 1
    BY <1>1, <1>7 DEF Left
  <2>2. N + 1 > 0
    BY <1>4
  <2> QED
    BY <1>1, <1>5, <2>1, <2>2
<1>8. CASE last # 0
  <2> DEFINE s == SumFunction(frenzyTurns)
             r == SumFunction(frenzyTurns')
  <2>1. s \in Nat
    BY <1>3, <1>4, CountedOnce, FrenzySum
  <2>2. r \in Nat /\ r <= N
    <3>1. frenzyTurns' \in [Player -> 0..2]
      BY <1>4, <1>6, <1>8
    <3>2. \A p \in Player : frenzyTurns'[p] \in {0, 1}
      BY <1>6 DEF Counted
    <3> QED
      BY <3>1, <3>2, FrenzySum
  <2>3. r = s - 0 + 1
    <3>1. IsFiniteSet(Player) /\ turn' \in Player /\ frenzyTurns \in [Player -> Int] /\ 1 \in Int
      BY <1>3, <1>4, TurnAssumption, FS_Interval DEF Player
    <3>2. SumFunction([frenzyTurns EXCEPT ![turn'] = 1]) = s - frenzyTurns[turn'] + 1
      BY <3>1, SumExcept
    <3> QED
      BY <1>6, <1>8, <3>2
  <2>4. Left = N - s /\ Left' = N - r
    BY <1>1, <1>8 DEF Left
  <2> HIDE DEF s, r
  <2>5. r = s + 1
    BY <2>1, <2>3
  <2>6. Left > 0 /\ Left # N + 1 /\ Left' = Left - 1
    BY <1>4, <2>1, <2>2, <2>4, <2>5
  <2> QED
    BY <1>1, <1>5, <2>6
<1> QED
  BY <1>7, <1>8

\* All have had their turn in the frenzy when its last player ends his.
LEMMA LastTurn ==
    ASSUME FlowInv, NoDrops, NEW t \in Thread, EndFrenzy(t)
    PROVE  /\ phase = "playing" /\ turn \in Player /\ UNCHANGED <<turn, online>>
           /\ Left' = Left
           /\ phase' = "over" => Left = 0
<1> PICK i : i = thread[t]
  OBVIOUS
<1>1. phase = "playing" /\ Runs(t, "last") /\ UNCHANGED <<turn, online, frenzyTurns, last>>
  BY DEF EndFrenzy, Runs, turnVars, boardVars, frenzyVars
<1>2. Ending(i) /\ i.p = turn /\ turn \in Player
  BY <1>1, EnderHasToken DEF FlowInv, TokenInv, EndJobs
<1>3. frenzyTurns \in [Player -> 0..2] /\ N \in Nat
  BY TurnAssumption DEF FlowInv, TypeInv, TurnTypes
<1>4. ASSUME phase' = "over" PROVE Left = 0
  <2>1. turn \in lastInFrenzy
    BY <1>1, <1>2, <1>4 DEF EndFrenzy
  <2>2. last = turn /\ last # 0
    BY <1>2, <2>1, PlayerNumbers DEF Ending, Marked
  <2>3. Had(TRUE) = Player
    BY <1>2, <2>2, PlayerNumbers DEF Had
  <2>4. Counted(TRUE) /\ \A p \in Player : frenzyTurns[p] = 1
    BY <1>2, <2>2, <2>3 DEF Ending, Counted
  <2>5. SumFunction(frenzyTurns) = N
    BY <1>3, <2>4, CountedOnce, FrenzySum
  <2>6. N - N = 0
    BY <1>3
  <2> QED
    BY <2>2, <2>5, <2>6 DEF Left
<1> QED
  BY <1>1, <1>2, <1>4 DEF Left

LEMMA EndTurnCounts ==
    ASSUME FlowInv, NoDrops, NEW t \in Thread, NextTurn(t)
    PROVE  /\ phase = "playing" /\ turn \in Player /\ UNCHANGED <<turn, online>>
           /\ Left' = Left \/ (Left = N + 1 /\ Left' = N)
           /\ phase' = "over" => Closing
<1>1. /\ phase = "playing" /\ Runs(t, "frenzy") /\ UNCHANGED <<turn, online, frenzyTurns>>
      /\ phase' = "over" => Closing
  BY DEF NextTurn, Runs, turnVars
<1>2. Token
  BY <1>1 DEF FlowInv, TokenInv
<1>3. Ending(thread[t]) /\ turn \in Player
  BY <1>1, <1>2, EnderHasToken DEF FlowInv, EndJobs
<1>4. last # 0 => last' = last
  BY <1>2, FrenzyBegins DEF FlowInv
<1>5. frenzyTurns \in [Player -> 0..2] /\ N \in Nat
  BY TurnAssumption DEF FlowInv, TypeInv, TurnTypes
<1>6. CASE last' = last
  BY <1>1, <1>3, <1>6 DEF Left
<1>7. CASE last' # last
  <2>1. last = 0 /\ last' # 0
    BY <1>4, <1>7
  <2>2. SumFunction(frenzyTurns) = 0
    BY <1>3, <1>5, <2>1, CountedOnce, FrenzySum DEF Ending
  <2>3. Left = N + 1 /\ Left' = N - 0
    BY <1>1, <2>1, <2>2 DEF Left
  <2> QED
    BY <1>1, <1>3, <1>5, <2>3
<1> QED
  BY <1>6, <1>7

\* Every step of the game is a step in the order of play, or none of its business.
LEMMA StepOrder == FlowInv /\ [Next]_vars => [Order!Next]_(Order!vars)
<1> SUFFICES ASSUME FlowInv, [Next]_vars PROVE [Order!Next]_(Order!vars)
  OBVIOUS
<1>1. NoDrops' = NoDrops
  BY WeaponLimitStays DEF NoDrops
<1>2. CASE ~NoDrops
  BY <1>1, <1>2 DEF Order!vars
<1>3. ASSUME NoDrops, NEW t \in Thread, StartMainAction(t) PROVE Order!StartTurn
  <2>1. /\ phase = "playing" /\ phase' = phase /\ online' = online
        /\ Left > 0 /\ Left' = (IF Left = N + 1 THEN N + 1 ELSE Left - 1)
        /\ turn' = IF turn = N THEN 1 ELSE turn + 1
    BY <1>3, StartTurnCounts
  <2>2. Closing' = Closing
    BY <2>1 DEF Closing
  <2> QED
    BY <1>1, <1>3, <2>1, <2>2 DEF Order!StartTurn, Order!Endless, Left
<1>4. ASSUME NoDrops, NEW t \in Thread, EndFrenzy(t) \/ NextTurn(t) PROVE Order!EndTurn
  <2>1. /\ phase = "playing" /\ turn \in Player /\ turn' = turn /\ online' = online
        /\ Left' = Left \/ (Left = N + 1 /\ Left' = N)
        /\ phase' = "over" => Closing \/ Left = 0
    BY <1>4, LastTurn, EndTurnCounts
  <2>2. Closing' = Closing /\ turn # 0
    BY <2>1, PlayerNumbers DEF Closing
  <2> QED
    BY <1>1, <1>4, <2>1, <2>2 DEF Order!EndTurn, Order!Endless, Left
<1>5. ASSUME NoDrops, UNCHANGED <<turn, frenzyTurns, last, phase>> PROVE Order!ComeAndGo
  BY <1>1, <1>5 DEF Order!ComeAndGo, Closing
<1> QED
  BY <1>2, <1>3, <1>4, <1>5, TurnSteps DEF Order!Next

LEMMA InitOrder == Init => Order!Init
BY DEF Init, Order!Init, Order!Endless, Closing

\* The players play in turns that go round; the final frenzy begins between two
\* turns and gives everybody, from the next player on, exactly one more turn,
\* and the game ends after it, or between two turns when too few players are
\* left.  (MainController.endTurn, firstRound, startMainAction)
THEOREM PlaysInOrder == Spec => ImplementsOrder
BY InitFlow, StepFlow, InitOrder, StepOrder, PTL DEF Spec, ImplementsOrder, Order!Spec
=============================================================================
