------------------------------ MODULE TurnFlow ------------------------------
(***************************************************************************)
(* The course of a game: MainController hands one turn after the other to  *)
(* the players' SlaveControllers.  A turn is a chain of continuations run  *)
(* on short-lived threads: a thread asks a player a question and ends; the *)
(* answer, or the deadline, starts the thread that carries on.  Between    *)
(* turns the dead choose where to respawn; when the last skull is taken,   *)
(* the final frenzy gives each player one more turn.                       *)
(*                                                                         *)
(* A player's slot is as MessageSlot shows it to be: a question is put,    *)
(* and answered or timed out in one step.  The exceptions are the pick of  *)
(* the weapon to drop, which leaves the question in the slot, and a pick   *)
(* refused as late, which leaves the player's lock taken: then no deadline *)
(* of his strikes again.                                                   *)
(*                                                                         *)
(* The end of a turn runs without a lock and is taken apart into what its  *)
(* thread reads and writes between the steps of other threads.             *)
(*                                                                         *)
(* What the cards and weapons do is left open: an effect damages and kills *)
(* any players on the map.                                                 *)
(***************************************************************************)
EXTENDS Integers, FiniteSets, Functions

CONSTANTS N,            \* players; they play in the order 1..N
          MinPlayers,   \* fewer players online: the game closes
          MaxDeaths,    \* skulls on the scoreboard
          MaxHand,      \* bound on the powerups usable in one turn
          Thread,       \* bound on the continuations running at once
          WeaponLimits, \* what the limit on a player's weapons may be
          MaxFound,     \* bound on the weapons that all players hold
          Leaky,        \* bound on the players whose lock may be left taken
          Domination    \* domination mode

Player == 1..N

ASSUME TurnAssumption ==
    /\ N \in Nat /\ N > 1
    /\ MinPlayers \in Nat
    /\ MaxDeaths \in Nat \ {0}
    /\ MaxHand \in Nat
    /\ Domination \in BOOLEAN
    /\ WeaponLimits \subseteq Nat \ {0}
    /\ MaxFound \in Nat
    /\ Leaky \subseteq Player
    /\ IsFiniteSet(Thread)

VARIABLES
    phase,          \* "playing", or "over" once endGame ran
    online,         \* the players connected
    thread,         \* the continuation each thread runs
    slot,           \* the question in each player's slot
    onTimeout,      \* SlaveController.onTimeout
    leaked,         \* the players whose lockMessageSet is taken for good
    firstRoundOver, \* MainController.firstRoundOver
    kills,          \* Scoreboard.numOfDeaths, up to MaxDeaths
    fullTracks,     \* spawn tracks with 8 points, up to 2
    last,           \* whose turn began the frenzy last, 0 before it
    lastInFrenzy,   \* the players whose actor isLastInFrenzy
    dead,           \* players with Actor.isDead
    spawned,        \* players on the map: spawned, and not waiting to respawn
    damagers,       \* Actor.damagedBy
    weapons,        \* how many weapons each player holds
    maxWeapons,     \* Actor.MAX_WEAPON: with one more, he drops one
    hand,           \* powerups the player on turn may still use
    turn,           \* whose turn it is (the last startMainAction), 0 at first
    frenzyTurns     \* turns each player began in the final frenzy, up to 2

arsenalVars == <<weapons, maxWeapons>>
frenzyVars == <<kills, fullTracks, last, lastInFrenzy>>
boardVars == <<frenzyVars, dead, spawned, damagers, arsenalVars>>
turnVars == <<turn, hand, frenzyTurns>>
vars == <<phase, online, thread, slot, onTimeout, leaked, firstRoundOver, boardVars, turnVars>>

-----------------------------------------------------------------------------
(* Continuations and questions *)

Kind == {"idle", "main", "menu", "resolve", "collect", "tagback", "grab",
         "end", "settle", "kills", "last", "frenzy", "respawn", "respawned", "first"}

\* A continuation: what to do, for whose turn, the action bundles that remain
\* (-1: the turn ends), another player it concerns, frenzyBefore, the players
\* still to respawn, and what follows when all have.
Job == [do : Kind, p : Player \cup {0}, acts : -1..2, other : Player \cup {0},
        before : BOOLEAN, tail : SUBSET Player,
        next : {"", "main", "first", "firstLast"}]

Plain(do, p, acts) ==
    [do |-> do, p |-> p, acts |-> acts, other |-> 0, before |-> FALSE, tail |-> {},
     next |-> ""]

Idle == Plain("idle", 0, 0)
Main(p) == Plain("main", p, 0)                \* startMainAction
Menu(p, acts) == Plain("menu", p, acts)       \* setCurrentMessage(setPowUps(..))
Resolve(p, acts) == Plain("resolve", p, acts) \* resolveEffect, effects left
Collect(p, acts) == Plain("collect", p, acts) \* resolveEffect, none left
Grab(p, acts) == Plain("grab", p, acts)       \* makeGrabChoice
End(p) == Plain("end", p, 0)                  \* endTurn
Tagback(p, acts, a) == [Plain("tagback", p, acts) EXCEPT !.other = a]
First(p, isLast) ==
    [Plain("first", p, 0) EXCEPT !.next = IF isLast THEN "firstLast" ELSE "first"]
Respawn(who, p, next) == [Plain("respawn", p, 0) EXCEPT !.tail = who, !.next = next]
Respawned(h, who, p, next) ==
    [Plain("respawned", p, 0) EXCEPT !.other = h, !.tail = who, !.next = next]

\* What a slot holds, with what its answer resumes.
Question == [ask : {"wait", "menu", "grab", "tagback", "respawn"}, job : Job]
Ask(ask, job) == [ask |-> ask, job |-> job]
Wait == Ask("wait", Idle)

TypeOK ==
    /\ phase \in {"playing", "over"}
    /\ online \subseteq Player
    /\ thread \in [Thread -> Job]
    /\ slot \in [Player -> Question]
    /\ onTimeout \in [Player -> Job]
    /\ leaked \subseteq Leaky
    /\ firstRoundOver \in BOOLEAN
    /\ kills \in 0..MaxDeaths
    /\ fullTracks \in 0..2
    /\ last \in Player \cup {0}
    /\ lastInFrenzy \subseteq Player
    /\ dead \subseteq spawned /\ spawned \subseteq Player
    /\ damagers \in [Player -> SUBSET Player]
    /\ maxWeapons \in WeaponLimits
    /\ weapons \in [Player -> 0..maxWeapons]
    /\ turn \in Player \cup {0}
    /\ hand \in 0..MaxHand
    /\ frenzyTurns \in [Player -> 0..2]

\* startGame: everybody is online, the first player spawns and then plays.
Init ==
    /\ phase = "playing"
    /\ online = Player
    /\ \E t \in Thread :
          thread = [u \in Thread |-> IF u = t THEN Respawn({1}, 1, "main") ELSE Idle]
    /\ slot = [p \in Player |-> Wait]
    /\ onTimeout = [p \in Player |-> Idle]
    /\ leaked = {}
    /\ firstRoundOver = FALSE
    /\ kills = 0 /\ fullTracks = 0 /\ last = 0 /\ lastInFrenzy = {}
    /\ dead = {} /\ spawned = {}
    /\ damagers = [p \in Player |-> {}]
    /\ weapons = [p \in Player |-> 0] /\ maxWeapons \in WeaponLimits
    /\ turn = 0 /\ hand = 0
    /\ frenzyTurns = [p \in Player |-> 0]

-----------------------------------------------------------------------------
(* Helpers *)

\* Thread t runs job j.
Runs(t, do) == phase = "playing" /\ thread[t].do = do

\* Thread t goes on with j (its own call, or a thread it starts as it ends).
GoOn(t, j) == thread' = [thread EXCEPT ![t] = j]

\* A thread is started for j.
Start(j) == \E t \in Thread : thread[t] = Idle /\ thread' = [thread EXCEPT ![t] = j]

\* setCurrentMessage with question q for p, as the last thing thread t does:
\* if p is offline his onTimeout runs in t instead.
SetMessage(t, p, q) ==
    \/ /\ p \in online
       /\ slot' = [slot EXCEPT ![p] = q]
       /\ GoOn(t, Idle)
    \/ /\ p \notin online
       /\ GoOn(t, onTimeout[p])
       /\ UNCHANGED slot

\* The same where the code looks at isOnLine first and sets onTimeout itself.
AskOrTimeout(t, p, q, timeout) ==
    \/ /\ p \in online
       /\ onTimeout' = [onTimeout EXCEPT ![p] = timeout]
       /\ slot' = [slot EXCEPT ![p] = q]
       /\ GoOn(t, Idle)
    \/ /\ p \notin online
       /\ GoOn(t, timeout)
       /\ UNCHANGED <<slot, onTimeout>>

\* Scoreboard.finalFrenzy, and DominationMode's.
FinalFrenzy == kills >= MaxDeaths \/ fullTracks >= 2

\* MainController.closeGameAtEndTurn, set at every logout and reconnection.
ClosingLate == Cardinality(online) + 1 < MinPlayers \* slip: one player too few

Closing == Cardinality(online) < MinPlayers

\* Actor.getActions: how many action bundles a turn of p has.  After beginFF
\* the players up to the one who ended the last normal turn have one.
Bundles(p) == IF last # 0 /\ p <= last THEN 1 ELSE 2

\* Slip: the index is advanced twice.
SkippedPlayer(p) == ((p + 1) % N) + 1

NextPlayer(p) == (p % N) + 1

-----------------------------------------------------------------------------
(* The turn of a player *)

StartMainAction(t) ==
    LET p == thread[t].p IN
    /\ Runs(t, "main")
    /\ turn' = p
    /\ hand' \in 0..MaxHand
    /\ frenzyTurns' = IF last # 0 /\ frenzyTurns[p] < 2
                      THEN [frenzyTurns EXCEPT ![p] = @ + 1] ELSE frenzyTurns
    /\ AskOrTimeout(t, p, Ask("menu", Menu(p, Bundles(p))), End(p))
    /\ UNCHANGED <<phase, online, leaked, firstRoundOver, boardVars>>

SetPowUps(t) ==
    LET j == thread[t] IN
    /\ Runs(t, "menu")
    /\ SetMessage(t, j.p, Ask("menu", j))
    /\ UNCHANGED <<phase, online, leaked, onTimeout, firstRoundOver, boardVars, turnVars>>

\* Slip: the thread is started but the slot keeps the question.
AnswerKeepsSlot(p, ask, j) ==
    /\ phase = "playing"
    /\ p \in online /\ slot[p].ask = ask
    /\ Start(j)
    /\ UNCHANGED <<phase, online, leaked, slot, onTimeout, firstRoundOver>>

\* The client answers: the proxy puts the slot in WAIT and a thread is started.
Answer(p, ask, j) ==
    /\ phase = "playing"
    /\ p \in online /\ slot[p].ask = ask
    /\ slot' = [slot EXCEPT ![p] = Wait]
    /\ Start(j)
    /\ UNCHANGED <<phase, online, leaked, onTimeout, firstRoundOver>>

\* bundleFinalizer: an action bundle was composed.
AnswerBundle(p) ==
    LET j == slot[p].job IN
    /\ j.acts > 0
    /\ Answer(p, "menu", Resolve(j.p, j.acts - 1))
    /\ UNCHANGED <<boardVars, turnVars>>

\* reloadMerger: no bundle is left, the weapons are reloaded.
AnswerReload(p) ==
    LET j == slot[p].job IN
    /\ j.acts = 0
    /\ Answer(p, "menu", Collect(j.p, -1))
    /\ UNCHANGED <<boardVars, turnVars>>

\* A powerup is used: the same menu comes back afterwards.
AnswerPowerup(p) ==
    LET j == slot[p].job IN
    /\ hand > 0
    /\ Answer(p, "menu", Resolve(j.p, j.acts))
    /\ hand' = hand - 1
    /\ UNCHANGED <<boardVars, turn, frenzyTurns>>

\* Slip: effects also reach players who are not on the map.
MergeEffectsAnywhere(t) ==
    LET j == thread[t] IN
    /\ Runs(t, "resolve")
    /\ \E killed \in SUBSET (Player \ {j.p}) : dead' = dead \cup killed
    /\ GoOn(t, Collect(j.p, j.acts))
    /\ UNCHANGED <<phase, online, leaked, slot, onTimeout, firstRoundOver, frenzyVars,
                   spawned, damagers, arsenalVars, turnVars>>

\* The effects are merged in the game map: players are damaged, and may die.
\* Raw damage kills without entering damagedBy.
MergeEffects(t) ==
    LET j == thread[t] IN
    /\ Runs(t, "resolve")
    /\ \E hit \in SUBSET (spawned \ {j.p}) :
          damagers' = [a \in Player |->
             IF a \in hit THEN damagers[a] \cup {j.p} ELSE damagers[a]]
    /\ \E killed \in SUBSET (spawned \ {j.p}) : dead' = dead \cup killed
    /\ GoOn(t, Collect(j.p, j.acts))
    /\ UNCHANGED <<phase, online, leaked, slot, onTimeout, firstRoundOver, frenzyVars,
                   spawned, arsenalVars, turnVars>>

\* GrabEffect found weapons on the tile.
MergeGrab(t) ==
    LET j == thread[t] IN
    /\ Runs(t, "resolve")
    /\ SumFunction(weapons) < MaxFound
    /\ GoOn(t, Grab(j.p, j.acts))
    /\ UNCHANGED <<phase, online, leaked, slot, onTimeout, firstRoundOver, boardVars, turnVars>>

MakeGrabChoice(t) ==
    LET j == thread[t] IN
    /\ Runs(t, "grab")
    /\ SetMessage(t, j.p, Ask("grab", j))
    /\ UNCHANGED <<phase, online, leaked, onTimeout, firstRoundOver, boardVars, turnVars>>

AnswerGrab(p) ==
    LET j == slot[p].job IN
    /\ weapons[p] < maxWeapons
    /\ Answer(p, "grab", Collect(j.p, j.acts))
    /\ weapons' = [weapons EXCEPT ![p] = @ + 1]
    /\ UNCHANGED <<frenzyVars, dead, spawned, damagers, maxWeapons, turnVars>>

\* With his hands full the player also chooses the weapon to drop: the thread
\* is started, the slot is not reset. (A pick repeated with the same weapon fails
\* in Actor.pickUp and its thread dies; one with another weapon, or the deadline,
\* goes on with the turn a second time.)
AnswerDrop(p) ==
    LET j == slot[p].job IN
    /\ weapons[p] = maxWeapons
    /\ phase = "playing"
    /\ p \in online /\ slot[p].ask = "grab"
    /\ Start(Collect(j.p, j.acts))
    /\ UNCHANGED <<phase, online, leaked, slot, onTimeout, firstRoundOver, boardVars, turnVars>>

\* resolveEffect with no effect left: the first player whose damagedBy holds
\* the responsible is offered a tagback, else the turn goes on.
Hurt(p) == {a \in Player \ {p} : p \in damagers[a]}

ResolveTagbacks(t) ==
    LET j == thread[t]
        a == CHOOSE a \in Hurt(j.p) : \A b \in Hurt(j.p) : a <= b
    IN
    /\ Runs(t, "collect")
    /\ Hurt(j.p) # {}
    /\ damagers' = [damagers EXCEPT ![a] = @ \ {j.p}]
    /\ GoOn(t, Tagback(j.p, j.acts, a))
    /\ UNCHANGED <<phase, online, leaked, slot, onTimeout, firstRoundOver, frenzyVars,
                   dead, spawned, arsenalVars, turnVars>>

ResolveDone(t) ==
    LET j == thread[t] IN
    /\ Runs(t, "collect")
    /\ Hurt(j.p) = {}
    /\ GoOn(t, IF j.acts < 0 THEN End(j.p) ELSE Menu(j.p, j.acts))
    /\ UNCHANGED <<phase, online, leaked, slot, onTimeout, firstRoundOver, boardVars, turnVars>>

\* Slip: without a tagback the turn goes on at once, not the resolution.
SkipTagbackResumes(t) ==
    LET j == thread[t] IN
    /\ Runs(t, "tagback")
    /\ GoOn(t, IF j.acts < 0 THEN End(j.p) ELSE Menu(j.p, j.acts))
    /\ UNCHANGED <<phase, online, leaked, slot, onTimeout, firstRoundOver, boardVars, turnVars>>

\* startTagback when the offender is out of sight or there is no grenade.
SkipTagback(t) ==
    LET j == thread[t] IN
    /\ Runs(t, "tagback")
    /\ GoOn(t, Collect(j.p, j.acts))
    /\ UNCHANGED <<phase, online, leaked, slot, onTimeout, firstRoundOver, boardVars, turnVars>>

AskTagback(t) ==
    LET j == thread[t]
        after == Collect(j.p, j.acts)
    IN
    /\ Runs(t, "tagback")
    /\ AskOrTimeout(t, j.other, Ask("tagback", after), after)
    /\ UNCHANGED <<phase, online, leaked, firstRoundOver, boardVars, turnVars>>

AnswerTagback(a) ==
    /\ Answer(a, "tagback", slot[a].job)
    /\ UNCHANGED <<boardVars, turnVars>>

\* Slip: the deadline resets the slot without running onTimeout.
TimeoutSilent(p) ==
    /\ phase = "playing"
    /\ slot[p] # Wait
    /\ p \notin leaked
    /\ slot' = [slot EXCEPT ![p] = Wait]
    /\ UNCHANGED <<phase, online, leaked, thread, onTimeout, firstRoundOver, boardVars,
                   turnVars>>

\* Nobody has to drop a weapon: an arsenal has room for all that are found.
NoDrops == maxWeapons >= MaxFound

\* A late or repeated pick of p, who was asked before, is refused by the proxy of
\* the earlier question, and leaves the lock taken.  (Not while he is asked: the
\* lock might as well have been left then before the question was put.)  Bound: only
\* where nobody drops a weapon; a lock left taken does nothing but drop deadlines.
LeakLock(p) ==
    /\ phase = "playing"
    /\ NoDrops
    /\ p \in Leaky \ leaked
    /\ onTimeout[p] # Idle /\ slot[p] = Wait
    /\ leaked' = leaked \cup {p}
    /\ UNCHANGED <<phase, online, thread, slot, onTimeout, firstRoundOver, boardVars, turnVars>>

\* The deadline task: the slot is reset and onTimeout gets a thread.  The task
\* runs once: if the lock is taken the deadline is dropped.
Timeout(p) ==
    /\ phase = "playing"
    /\ slot[p] # Wait
    /\ p \notin leaked
    /\ slot' = [slot EXCEPT ![p] = Wait]
    /\ Start(onTimeout[p])
    /\ UNCHANGED <<phase, online, leaked, onTimeout, firstRoundOver, boardVars, turnVars>>

-----------------------------------------------------------------------------
(* Between turns: MainController.endTurn, in the steps of the thread that runs
   it.  Nothing keeps a second thread from running it too. *)

\* The frenzy is read as it was (frenzyBefore), and the first round ends with its
\* last player.
EndTurn(t) ==
    LET j == thread[t] IN
    /\ Runs(t, "end")
    /\ firstRoundOver' = (firstRoundOver \/ j.p = N)
    /\ GoOn(t, [j EXCEPT !.do = "settle", !.before = FinalFrenzy])
    /\ UNCHANGED <<phase, online, leaked, slot, onTimeout, boardVars, turnVars>>

\* The tiles' endTurn: in domination mode a player on a spawn tile takes a damage
\* there, which may kill him.  Then the dead are found.
SettleTiles(t) ==
    LET j == thread[t] IN
    /\ Runs(t, "settle")
    /\ \E tile \in SUBSET (IF Domination THEN {j.p} \cap spawned ELSE {}) :
          /\ dead' = dead \cup tile
          /\ GoOn(t, [j EXCEPT !.do = "kills", !.tail = dead \cup tile])
    /\ UNCHANGED <<phase, online, leaked, slot, onTimeout, firstRoundOver, frenzyVars,
                   spawned, damagers, arsenalVars, turnVars>>

\* The endTurn of the dead takes the skulls and that of the control points fills
\* spawn tracks.
CountKills(t) ==
    LET j == thread[t]
        taken == kills + Cardinality(j.tail)
    IN
    /\ Runs(t, "kills")
    /\ kills' = IF taken < MaxDeaths THEN taken ELSE MaxDeaths
    /\ fullTracks' \in (IF Domination THEN fullTracks..2 ELSE {fullTracks})
    /\ dead' = dead \ j.tail
    /\ spawned' = spawned \ j.tail
    /\ GoOn(t, [j EXCEPT !.do = "last"])
    /\ UNCHANGED <<phase, online, leaked, slot, onTimeout, firstRoundOver, last, lastInFrenzy,
                   damagers, arsenalVars, turnVars>>

\* The game is over with the turn of the last player in the frenzy.
EndFrenzy(t) ==
    LET j == thread[t]
        isLast == FinalFrenzy /\ j.p \in lastInFrenzy
    IN
    /\ Runs(t, "last")
    /\ \/ isLast /\ phase' = "over" /\ GoOn(t, Idle)
       \/ ~isLast /\ phase' = phase /\ GoOn(t, [j EXCEPT !.do = "frenzy"])
    /\ UNCHANGED <<online, leaked, slot, onTimeout, firstRoundOver, boardVars, turnVars>>

BeginsAgain(j) == FinalFrenzy \* slip: frenzyBefore not tested
Begins(j) == ~j.before /\ FinalFrenzy

\* If the frenzy began with this turn, its player will be the last.  Then the game
\* is closed, or the dead respawn and the next player follows.
NextTurn(t) ==
    LET j == thread[t]
        next == IF firstRoundOver THEN "main"
                ELSE IF j.p + 1 >= N THEN "firstLast" ELSE "first"
    IN
    /\ Runs(t, "frenzy")
    /\ last' = (IF Begins(j) THEN j.p ELSE last)
    /\ lastInFrenzy' = (IF Begins(j) THEN lastInFrenzy \cup {j.p} ELSE lastInFrenzy)
    /\ \/ Closing /\ phase' = "over" /\ GoOn(t, Idle)
       \/ ~Closing /\ phase' = phase /\ GoOn(t, Respawn(j.tail, NextPlayer(j.p), next))
    /\ UNCHANGED <<online, leaked, slot, onTimeout, firstRoundOver, kills, fullTracks, dead,
                   spawned, damagers, arsenalVars, turnVars>>

\* startRespawn: the next of the dead draws a powerup and is asked which one
\* to discard; the list of dead is in the order of a hash map.
AskRespawn(t) ==
    LET j == thread[t] IN
    /\ Runs(t, "respawn")
    /\ \E h \in j.tail :
          LET after == Respawned(h, j.tail \ {h}, j.p, j.next)
          IN AskOrTimeout(t, h, Ask("respawn", after), after)
    /\ UNCHANGED <<phase, online, leaked, firstRoundOver, boardVars, turnVars>>

AnswerRespawn(h) ==
    /\ Answer(h, "respawn", slot[h].job)
    /\ UNCHANGED <<boardVars, turnVars>>

\* Slip: the rest of the dead are forgotten.
DoRespawnAlone(t) ==
    LET j == thread[t] IN
    /\ Runs(t, "respawned")
    /\ spawned' = spawned \cup {j.other}
    /\ dead' = dead \ {j.other}
    /\ GoOn(t, Respawn({}, j.p, j.next))
    /\ UNCHANGED <<phase, online, leaked, slot, onTimeout, firstRoundOver, frenzyVars,
                   damagers, arsenalVars, turnVars>>

\* onRespawned: the pawn is put on its spawn tile, the others follow.
DoRespawn(t) ==
    LET j == thread[t] IN
    /\ Runs(t, "respawned")
    /\ spawned' = spawned \cup {j.other}
    /\ dead' = dead \ {j.other}
    /\ GoOn(t, Respawn(j.tail, j.p, j.next))
    /\ UNCHANGED <<phase, online, leaked, slot, onTimeout, firstRoundOver, frenzyVars,
                   damagers, arsenalVars, turnVars>>

AllRespawned(t) ==
    LET j == thread[t] IN
    /\ Runs(t, "respawn")
    /\ j.tail = {}
    /\ GoOn(t, IF j.next = "main" THEN Main(j.p) ELSE First(j.p, j.next = "firstLast"))
    /\ UNCHANGED <<phase, online, leaked, slot, onTimeout, firstRoundOver, boardVars, turnVars>>

\* firstRound: the next player spawns for the first time.
FirstRound(t) ==
    LET j == thread[t] IN
    /\ Runs(t, "first")
    /\ firstRoundOver' = (firstRoundOver \/ j.next = "firstLast")
    /\ GoOn(t, Respawn({j.p}, j.p, "main"))
    /\ UNCHANGED <<phase, online, leaked, slot, onTimeout, boardVars, turnVars>>

-----------------------------------------------------------------------------
(* Connections.  The logout of the last player, which clears the server, is
   left to the sessions. *)

Logout(p) ==
    /\ phase = "playing"
    /\ p \in online /\ online # {p}
    /\ online' = online \ {p}
    /\ UNCHANGED <<phase, thread, slot, onTimeout, leaked, firstRoundOver, boardVars, turnVars>>

Login(p) ==
    /\ phase = "playing"
    /\ p \notin online
    /\ online' = online \cup {p}
    /\ UNCHANGED <<phase, thread, slot, onTimeout, leaked, firstRoundOver, boardVars, turnVars>>

Run(t) ==
    \/ StartMainAction(t) \/ SetPowUps(t)
    \/ MergeEffects(t) \/ MergeGrab(t) \/ MakeGrabChoice(t)
    \/ ResolveTagbacks(t) \/ ResolveDone(t) \/ SkipTagback(t) \/ AskTagback(t)
    \/ EndTurn(t) \/ SettleTiles(t) \/ CountKills(t) \/ EndFrenzy(t) \/ NextTurn(t)
    \/ AskRespawn(t) \/ DoRespawn(t) \/ AllRespawned(t) \/ FirstRound(t)

Client(p) ==
    \/ AnswerBundle(p) \/ AnswerReload(p) \/ AnswerPowerup(p)
    \/ AnswerGrab(p) \/ AnswerDrop(p) \/ AnswerTagback(p) \/ AnswerRespawn(p)
    \/ LeakLock(p) \/ Logout(p) \/ Login(p)

Next ==
    \/ \E t \in Thread : Run(t)
    \/ \E p \in Player : Client(p) \/ Timeout(p)

Spec == Init /\ [][Next]_vars

\* Started threads run, and deadlines strike unless the player's lock is taken;
\* clients may never answer.
FairSpec ==
    /\ Spec
    /\ \A t \in Thread : WF_vars(Run(t))
    /\ \A p \in Player : WF_vars(Timeout(p))

-----------------------------------------------------------------------------
(* Properties *)

Busy == {t \in Thread : thread[t] # Idle}
Deciding == {p \in Player : slot[p] # Wait}

\* The game has one turn token, if nobody drops a weapon: while it is played,
\* either one thread runs and every player waits, or nobody runs and one player
\* has a question.
OneToken ==
    NoDrops /\ phase = "playing" => Cardinality(Busy) + Cardinality(Deciding) = 1

\* The turns as TurnOrder has them; with dropped weapons nothing is claimed.
Order == INSTANCE TurnOrder WITH
    turn  <- IF NoDrops THEN turn ELSE 0,
    left  <- IF NoDrops /\ last # 0 THEN N - SumFunction(frenzyTurns) ELSE N + 1,
    short <- NoDrops /\ Closing,
    over  <- NoDrops /\ phase = "over"

\* Turns go round, the final frenzy gives each player exactly one, whenever it
\* begins, and the game ends with the last of them, or between two turns for lack
\* of players.  (MainController.endTurn, firstRound)
ImplementsOrder == Order!Spec

\* When a turn starts everybody who has spawned is back on the map: in the
\* first round those who already had their turn and the player himself, later
\* all.  The first round is over when the last player starts.
EverybodyRespawned ==
    [][NoDrops /\ turn' # turn =>
          /\ spawned' = (IF firstRoundOver' THEN Player ELSE 1..turn')
          /\ firstRoundOver' = (firstRoundOver' \/ turn' = N)]_vars

\* Every hit had its chance of a tagback within the turn of the attacker, if
\* nobody drops a weapon: the second token that a drop leaves about can end the
\* turn while the other still resolves its effects.
NoTagbackPending ==
    [][NoDrops /\ turn' # turn => \A a \in Player : damagers[a] = {}]_vars

\* The final frenzy starts once.  Nobody is marked to end the game before the last
\* skull is taken; and if nobody drops a weapon the mark is on the player in whose
\* turn the frenzy began and on nobody else for good, and is there when the next
\* turn starts exactly if the frenzy is on.
\* (MainController.endTurn, Actor.setLastInFrenzy)
FrenzyStartsOnce ==
    [][/\ lastInFrenzy' # {} => FinalFrenzy'
       /\ NoDrops =>
            /\ lastInFrenzy # {} => lastInFrenzy' = lastInFrenzy
            /\ lastInFrenzy' # lastInFrenzy => lastInFrenzy' = {turn}
            /\ turn' # turn => (lastInFrenzy # {}) = FinalFrenzy]_vars

\* A question waits for a player whose deadlines are all dropped.
Stuck == \E p \in leaked : slot[p] # Wait

\* However long players think, and whoever leaves or comes back, every turn ends,
\* unless the game waits for ever for a silent player whose lock was left taken.
TurnEnds ==
    NoDrops => \A p \in Player : <>[](turn = p /\ phase = "playing") => <>[]Stuck

\* If too few players remain the game is over at last, with the same exception.
GameCloses ==
    NoDrops => (<>[](Cardinality(online) < MinPlayers) => <>(phase = "over") \/ <>[]Stuck)
=============================================================================
