# Adrenaline server: TLA+ specifications

This directory specifies the server of the Adrenaline board game in `src/`
(Java, packages under `src/src/main/java`). Paths below are relative to that
package root.

## The system

A server plays one game at a time for 3 to 5 players, who connect by socket or
by RMI. There is no scheduler: the game moves on because somebody's thread runs.
A client *polls* for its player's current message and *picks* answers to it; the
last pick of a choice starts a thread that changes the model and asks the next
question, to the same player or to another one. If nobody answers within
`TimeForAction` seconds, a timer task does it for him.

| component | state | operations | modelled in |
|---|---|---|---|
| message slot (`SlaveController`, `SetMessageProxy`, `ObjectMap`) | `currentMessage`, `onTimeout`, `lockMessageSet`, each proxy's `flag` and `originalMessage`, the cache of answerable choices | `setCurrentMessage`, `getInstruction`, `poll`, `pick`, `setControllerMessage`, the deadline task, `clearCache` | `MessageSlot`, `QuestionLine` |
| turn flow (`MainController`, `SlaveController`, `Actor`) | whose turn, `firstRoundOver`, `closeGameAtEndTurn`, frenzy flags, the dead, `damagedBy` | `startGame`, `startMainAction`, `setPowUps`, `resolveEffect`, `startTagback`, `makeGrabChoice`, `endTurn`, `startRespawn`, `firstRound`, `endGame` | `TurnFlow`, `TurnOrder` |
| sessions (`Database`, `Player`, `TimerForDisconnection`, lobby part of `MainController`) | tokens, users, colours, who is online, the start timer | `login`, `logout`, `clearAll`, `connect`, `reconnect`, `timerStart`, `createGame` | `Session` |
| scoring (`Actor`, `Scoreboard`, `DominationMode`, `DominationPointTile`) | damage and mark lists, skulls, points, spawn tracks | `damage`, `addMark`, `endTurn`, `addKill`, `score`, `claimWinner` | `Battle` |
| cards (`Deck`, `GameMap`, `Actor`) | the decks' piles, stashes and `pickedCard`, hands, arsenals, what lies on the tiles | `next`, `take`, `discard`, `refill`, `pickUp`, `drawPowerUpRaw`, `respawn`, `discardPowerUp`, `useWeapon`, `reloadWeapon` | `Cards` |
| board (`GameMap`, `Tile`, `ParserMap`, `Sandbox`) | tiles, rooms, doors; where the pawns stand, and where the sandbox foresees them | `neighbors`, `circle`, `tilesSeen`, `getVisible`, `DirectionTarget` | `Board` |
| composition of a turn (`ActionBundle`, `Action`, `WeaponUse`, `Sandbox`, payments) | the bundles left, what each sandbox has gathered, the iterators | `pickAction`, `iterate`, `spawn`, `pay`, `resolveEffect` | `Actions`, `Ammo` |
| targeters, selectors (`Targeter`, `Selector`, `Condition`, targets, `WeaponUse`, `Action`) | the targets acquired, the targeters and effects left, the sandbox | `pickAction`, `iterate`, `giveChoices`, `spawn`, `mergeInGameMap` | `Targeting` |
| client (`ClientController`) | polling timer, stack of messages, `firstMap`, what is on the screen | `elaborate`, `poll`, `pick`, `rollback`, `restartSelection`, `setPolling`, `onConnection` | `ClientPolling` |
| transport, parsers, views | – | – | not modelled: plain I/O, start-up parsing, presentation |

How they interact: the network layer calls `Database` and `ObjectMap` on the
thread of the client's connection; `ObjectMap.poll` reads the slave's message
and `ObjectMap.pick` calls the message's `pick`, which ends in a proxy and a
`new Thread` into `MainController`; `MainController` calls the slave controllers
back with `setCurrentMessage` and passes them *continuations* (`Runnable`,
`Consumer`) for when the player has answered. Logins and logouts change
`Player.isOnLine` and `closeGameAtEndTurn` at any moment.

What is hard: the answer races the deadline; requests are repeated or late;
polls are not synchronized with the deadline; players leave in the middle of any
chain of continuations; the whole game hangs on the one continuation that
carries it being neither lost nor duplicated. `PROJECT.json` lists these
hazards at their lines.

## Modules

`QuestionLine` is the abstract promise a slave controller makes: questions are
put one at a time, each is settled once, and the next is not put before.

`MessageSlot` is one player's slot in detail. A *question* stands for one
`setCurrentMessage` with all the messages reachable from it, since they share
one `SetMessageProxy`. `current` is `currentMessage`; `flag` and `lock` are the
proxy's flag and `lockMessageSet`; `leaked` records that the owner left
`setControllerMessage` without unlocking; `cache` is the player's part of
`ObjectMap`; `due` counts the continuations running for the player; `pc` and
`msg` are the handler threads' program counters. One step is what no other
thread can observe half done: `setCurrentMessage` is synchronized, but the
checks of `setControllerMessage`, its write, its unlock and the `new Thread` are
separate steps, and so are the parts of the deadline task. Two kinds of picks
bypass the proxy in the code, and are constants of the model: `Unguarded`
questions end in the choice of a weapon to drop (`makeGrabChoice`), `Teleports`
offer a `Teleporter`, whose `usePowup` runs its continuation if the card is no
longer owned.

`TurnFlow` is the course of a game, with each slot as `MessageSlot` shows it to
be when every question is guarded: a question is put in one step, and answered
or timed out in one. The weapon drop, which is not guarded, leaves the question
in the slot (`AnswerDrop`); and a refused pick, which leaves `lockMessageSet` taken
(`leaked`), after which `Timeout` never fires for that player, since the deadline's one-shot
task gives up. `endTurn` holds no lock, so it is taken in the steps of its thread: what it reads
first (`EndTurn`), the tiles, the dead, the test for the last player, the mark on a new
one (`SettleTiles`, `CountKills`, `EndFrenzy`, `NextTurn`). `lastInFrenzy` are the players so
marked; `last` is the one `TurnOrder` is told. A continuation is a record (`Job`): what to do, for
whose turn, how many action bundles remain, whom it concerns, who must still
respawn, and what follows then. `thread` holds the running ones, `slot` the
questions with the continuation their answers resume, `onTimeout` what the
deadline runs. What weapons and cards do is left open: an effect damages and
kills any players on the map. Cards are `Cards`'s,
scores `Battle`'s, and what a weapon may do to whom `Targeting`'s.

`TurnOrder` is what the players are promised of it: turns go round, the frenzy begins
between two turns and gives everybody one more, the game ends after the last of
these or between two turns when too few are left. `TurnFlow` implements it
(`ImplementsOrder`): its turn is the one whose main menu was put last, and the turns
left in the frenzy are counted from its last player.

`Session` is who is in the server. A client stands for its token; `socket` are the clients on sockets; `colourOf` is
`usersByToken`, `connected` and `disconnected` the two sets of tokens, `beating`
the tokens with a `TimerForDisconnection`, `num` `numOfPlayer`, `slaves`
`slaveControllerList`. The methods of `Database` are synchronized, so each is one
step, except a first login, which is three (`Register`, `Enter`, `Admit`) because
the thread of the start timer, which takes no monitor of `Database`, can begin the
game in between. That thread's own steps are `Strike`, after which `cancel` comes too late,
`StartGame`, which sets `gameStarted`, `BuildGame`, which reads `numOfPlayer`, `CreateGame`,
`Deal` and `CloseTimer`, or where it dies `CreateGameFails` and `DealFails`; anything may fall between
them. `task` is the timer that is armed: each `timerStart` makes another, so they are told apart in
turn ("odd", "even"); `timerRunning` is the flag, which a start that died leaves set. `CheckTimer`
is `checkGameState` before the game, with the restart of the countdown in a full lobby. While a login or logout is announced to the
others, a client on a socket whose write fails is logged out inside that method
(`Failing`); on RMI the proxy's thread does it later, which is a `Logout`. A zombie
of an abandoned game (a continuation that runs after everybody left) is not
followed, nor are passwords, `gameMaster` and the vote for the mode.

`Actions` is how a player composes his turn. The client keeps a stack of the
messages it was sent; going back pops it, and the server still accepts the answer to
what is then on top. So an action takes an index `i`: message `stack[i]` is answered
and what was above it is gone. A message holds a `Sandbox` (`box`: the cubes, cards
and loaded weapons as they would be, and the effects gathered), the debt it asks
for, the actions of the weapon already taken, and what is left in the iterator over
the effects of the action. Iterators are shared: the answers given inside a weapon or a
payment continue the iterator of the message that asked for the weapon or the
reload, whose index is `own`. `Confirm` and the reload at the end hand the effects
over; `MergeEffect` is one `mergeInGameMap`. The targets of a move or a shot and
what they do to others are left open; one menu stands for the powerup question and the
action question that follows it, since both come from the same `setPowUps`. `Ammo`
holds the arithmetic of `AmmoAmount` and `AmmoAmountUncapped`.

`Cards` is where every card is. The three decks are one record, `deck`, told apart
by the kind of the card: `pile` is the set of cards of `deckIterator`, whose order
is a shuffle and so any choice, `stash` and `picked` are the code's. `tile` is what
lies on the map; `hand`, `loaded` and `unloaded` are the actor's. `Refill` is one
card of `GameMap.refill`, `DrawPowerUp` one of `drawPowerUpRaw`; `turn`,
`refilling`, `dead`, `spawning` and `due` say how far `MainController` has got. The order
of turns is left to `TurnFlow`: here anybody on the map may be next, and any of them
may be found dead at the end of a turn, the ones offline too. Cubes are left out, so
any weapon that may be grabbed or reloaded is paid for, and using a powerup, spending
it, or playing a tagback or scope in another's turn is one action (`UsePowerUp`).

`Battle` is what the boards and the scoreboard hold. A turn is a number of
effects, each merged whole (`Shoot`, `Mark`, `Scope`, `ShootPoint`), with the
tagbacks of the players it hurt; then `EndTurn` looks at the control points, where
the player may hurt himself, and the loop of `MainController.endTurn` settles
actors and control points one by one (`SettleDead`, `SettlePoint`) in any order,
since it follows a hash map. `struck` is who was hurt in this turn and `hurt` who
has yet to answer, which is what `damagedBy` comes to. The literals of the code (10
for the overkill, 3 marks, 8 for a full track) are constants, so that they can be
small; the tables of points are the code's. Play starts after a first round without
shots. The closing of a game with too few players may come at the end of any turn.
Skulls and flipped boards are kept by the code and read by nothing but the views.

`Board` is the map: `Neighbors` is what `ParserMap` computes from indices, doors and
rooms, the rest is what sandbox, map and targets ask of it. `Targeting` is a player
who uses a weapon. An action is a list of targeters and effects, as the parser reads
it from `weapons.txt`; a *target* is a record of what it is and which. `plan` is the
`WeaponUse` and its `Sandbox`: the actions done, the targets by name, the pawns that
were moved in the sandbox and the effects gathered. `Iterate` is `Action.iterate`:
it resolves targeters up to the next one that asks the player, and after the last
spawns the effects. An automatic targeter takes the first target of a hash set, so
any. A rollback or an exception leaves nothing but to go back, and all ways back
are `GoBack`. Costs are `Actions`'s; contemporary actions, requirements on targets and
the IS selector are left out. `MCTargeting` holds the second map of the game and eight
weapons that use the other selectors and conditions.

`ClientPolling` is the client's side of the slot. The server is reduced to a slot
with at most one question, the cache and the deadline, which clears the cache and
tells the client before it puts in the WAIT. `flight` holds requests and replies
that are under way, on the threads of the timer, of the view and of the
connection; any may overtake any. A question leads through `Depth` messages; a
pick leads to the next one, to a rollback, or at the end to a WAIT. `firstMap` is
"fetching" from the moment the first powerups are polled for again until that call
returns, which over RMI is after its reply was elaborated. Each handler of the client
is one step, so two threads in `stack.pop` at once are not modelled; neither are a
failing network, the end of the game, and the map that is printed with a message.
A poll reads the slot and fills the cache in one step here, in two in `MessageSlot`.

Operators whose comment begins with "Slip" are not part of a specification:
each is a definition with a plausible mistake, kept to show that the property
paired with it in `PROJECT.json` notices it.

## Runs

| run | instance | what it shows |
|---|---|---|
| `slot_guarded` | 3 questions, 2 handler threads, all questions guarded, `FairSpec` | `OneToken`: the slot, a handler, or `MainController` has the turn token, never two of them and never none. `CommitsCurrent`: an answer never wipes out a later question. `NoAnswerAfterDeadline`. `ImplementsLine`: refinement of `QuestionLine`. `QuestionEnds`: a question leaves the slot, unless the lock was leaked. |
| `slot_mixed` | 3 questions: one drop, one Teleporter, one guarded | `GuardedOnce`: the guarded question calls on once, even beside unguarded ones that duplicate the token |
| `slot_lockleak` | 2 questions, 2 handlers | finding: `LockHolderSets` is violated |
| `turn_rounds` | 3 players, game closes below 2, 2 skulls, at most 1 powerup a turn | `OneToken` for the whole game; `ImplementsOrder`: the order of `TurnOrder`, with a frenzy of exactly one turn each; `EverybodyRespawned`: players spawn before they play and are back before the next turn; `NoTagbackPending`: tagbacks are settled within the turn |
| `turn_domination` | 2 players, 1 skull, spawn tracks, 2 weapons to find, arsenals of 1 or of 3, one player whose lock may be left taken, `FairSpec` | `FrenzyStartsOnce`: with arsenals of 3 (nobody drops a weapon) the last player is marked once, in the turn that begins the frenzy, before the next turn, and for good; with arsenals of 1, where a drop leaves a second token, nobody is marked before the last skull. `TurnEnds`, `GameCloses`: also when a player dies in his own `endTurn`, and unless the game waits for a silent player whose deadlines are dropped |
| `battle_game` | 3 players, 2 skulls; 3 turns of 2 effects (damage of 1 or 2, a mark), or with 2 control points 3 turns of 1 effect | `DeadAreSettled`: nobody starts a turn or ends the game unscored. `PaidByRank`: every death and track is paid by rank, in full, once. `FairEnd`: the winner has the most points after the tracks were paid. `MarksPayOff`: marks leave a board only as damage, all at once |
| `targeting_shots` | map 2 of the game, a shooter, 2 others and a control point, 8 weapons of 1 or 2 actions | `ShotsAsRuled`: nobody is taken further than the weapons allow, flames and laser go straight. `SightAgrees`: the sandbox's sight against the map's. `AsForeseen`: the map ends up as the sandbox showed |
| `client_polling` | 2 questions of 1 and 2 messages, 2 requests under way | `NotDeaf`: the client always has something to wait for. `Shown`: a question that stays is shown in the end, after late replies, deadlines and notices |
| `session_networks` | 3 clients, all on RMI or all on sockets, 3 colours, game of 2 to 3, `FairSpec` | `ColoursHeld`: colours are neither lost nor doubled, even when an announcement logs others out. `ServerAgrees`: on RMI tokens, users, `numOfPlayer`, heartbeats and who is on line agree between the methods, and an empty server is as good as new unless a start of the game was under way. `GoneLeaves`: a dead client is logged out. `LobbyStarts`: a lobby that keeps enough players comes to a start, unless it is filled again and again |
| `actions_plan` | 2 colours, 3 powerups (one usable, one scope, one of neither), 2 weapons, 3 weapon actions, at most 1 cube a colour | `PaidExactly`: every plan on the stack pays for what it contains, once. `NeverStuck`: a debt that is asked for can be paid and has a card of use, and every effect finds what it needs when merged. `PlanKept`: the player ends up with what the sandbox showed |
| `cards_game` | 2 players, 5 powerups for hands of 2, 3 ammo cards for 2 tiles, 3 weapons for a spawn point of 2 and arsenals of 1 | `CardsConserved`: every card is in one place, and the deck knows which, so no discard is refused. `LimitsKept`: hands, arsenals, tiles. `DrawSucceeds`: a powerup is there whenever one may be drawn. `Restocked`: turns start on a full map |
| `actions_back` | the same | finding: `EffectsComplete` is violated |

Bounds. Three questions let an answer to the first race the second and the
deadline of the first strike during the third; two handlers let a repeated pick
race itself; more of either only repeats these. Three players give a first, a
middle and a last one, which is what the index arithmetic of `endTurn` tells
apart; two skulls give a game that continues after a kill and then enters the
frenzy. `MaxHand` bounds the powerups of a turn (each returns to the same menu),
`MaxFound` the weapons in the game. `maxWeapons` is `MAX_WEAPON`, 3 in the code; a run
may start with any of `WeaponLimits`, so that 1 makes players drop weapons and 3 does
not (`NoDrops`, the premise of what a second token would break). `kills` and `fullTracks` stop at the value beyond
which only the score differs, `frenzyTurns` at 2. `Thread` bounds the
continuations that run at once; by `OneToken` one is enough unless weapons are
dropped, and a second one is kept in `turn_rounds` so that a duplicated token
could show itself. `Leaky` bounds the players whose lock may be left taken: one in
`turn_domination`, so that the other's turns go on or wait for him, and only where nobody
drops a weapon (`LeakLock`), where the liveness is claimed; none in `turn_rounds`, where a
deadline that does not strike is one that has not struck yet. One skull is enough in
`turn_domination`: the frenzy begins with the first death or with the tracks. The runs of `TurnFlow` allow deadlock, since a game that is
over stops. The minimum number of players is read from `configuration.txt`
(`minNumOfPlayers`, 3 as shipped).

In `Session` there are as many colours as players (5 and 5 in the code, scaled
down) and as many clients: a user keeps his colour until the server is reset, so a
client more could not register. The minimum is below the maximum, so that the
timer is armed, disarmed and re-armed. The thread of a start needs milliseconds, so two
bounds are put on it: once `gameStarted` is set, it is through before a new lobby forms (`Register`
waits for `StartUnderWay`), and before the next timer strikes, a second or more later
(`Strike`). Logins under way, reconnections and logouts fall between all its steps. `Wishes` bounds
the colours a client may ask for: two of the three want the same one. The runs of `Session` allow
deadlock: a server whose last token has no user really is stuck. With clients on
sockets `numOfPlayer` and the tokens need not agree (see below), so `ServerAgrees`
speaks of clients on RMI, `ColoursHeld` of both.

In `Actions` the costs are chosen so that a debt may need cubes, cards or both, of
one colour or two, and may come out exact. `Template` has the action that
ends without a question, the one with a single question, and the frenzy action
with a reload before the shot; two bundles and the reload are a whole turn. With
`MaxAmmo = 2` the same run passes on 183,000 states. It allows deadlock: a turn ends.

In `Cards` the pile of each kind runs out and is stacked anew, and weapons run out for
good. `EnoughCards` in `Cards` is the relation that makes the draws succeed: more
powerups than places in hands. The game has 24 for 5 hands of 3, 36 ammo cards for
at most 9 tiles, and 21 weapons for 9 places on the map and 15 in arsenals, so that
a spawn point can really stay short.

In `Battle` two damages kill and a track has two places, so that deaths, overkill,
ties, full tracks and the frenzy come within three turns; the table of points keeps
its values. Symmetry is over control points only, since players have an order.
`Targeting` starts from every placement of the pawns, the dead ones included, so one weapon's use
reaches what a game could. Map 2 has rooms of one tile, a hole, and rows
that end next to another's start. Further players would only be further targets of the same kind; the
two others are interchangeable. In `ClientPolling` a second
question is enough to meet the first one's late replies, and a second request
under way to be overtaken by; `MaxStack` bounds only how often the first question is
fetched again before the flag is reset.

Fairness. The JVM runs every thread that was started and every timer task that
is due: weak fairness on the steps of a running thread and on the deadline
tasks. A deadline task that finds the lock taken gives up and is not run again: `Timeout`
of `TurnFlow` is not enabled for a player in `leaked`, so no fairness is assumed there, and
`TurnEnds` and `GameCloses` except a game that is stuck on such a player (`Stuck`), as
`QuestionEnds` does. Clients owe nothing, so no fairness on polls, picks, answers, logins. In `Session`
the heartbeat gets strong fairness: it waits for the monitor of `Database`, which
others may take in between, but its task is blocked on it and gets it in the end. The start timer has
weak fairness for each timer by itself: `timerStart` in a full lobby puts another in its place,
so a countdown that is started anew again and again need never end, which is the exception in
`LobbyStarts`.
`ClientPolling` assumes that requests are served and delivered, which is TCP's part,
and, with strong fairness, that a player who is shown something over and over gives
an answer in the end: a player who goes back for ever within a question that has
expired never learns of the next one. Nothing forces the deadline to strike, so
`Shown` does not rely on questions going away.
`MessageSlot!FairSpec` also assumes that a deadline task is done before the
deadline of a later question strikes, since deadlines lie a minute apart and the
task takes microseconds; without it a task could find the lock taken by an
earlier task and give up. Safety does not use this.

## What the runs found

* `SetMessageProxy.setControllerMessage` returns from both refusals with
  `lockMessageSet` locked. A handler that was refused keeps the lock for ever, and
  the player's deadline tasks give up from then on (`slot_lockleak`).
* `Action.iterate` makes the iterator over an action's effects when it asks the
  question, and the answer drains it. A player who goes back to the reload
  question of "move, reload and shoot" and answers again is taken straight to the
  confirmation, without his shot (`actions_back`).

Other behaviours of the code that are in the models, and which the properties state
or step around, without a run of their own:

* `endTurn` has no lock. The pick of the weapon to drop starts its thread without the proxy
  (`SlaveController.java:549`) and the question stays in the slot, so picking again, or the
  deadline, continues the turn a second time. Two threads in `endTurn` may both have read
  `frenzyBefore` as false (`MainController.java:373`), and both mark a last player of the frenzy
  (line 433): with two players, arsenals of 1, two threads and one skull TLC finds
  `lastInFrenzy` holding two. `FrenzyStartsOnce` claims one under `NoDrops` only.
* A timer that has struck is not stopped by `timerClose`: players who log out before
  its thread sets `gameStarted` leave a game with fewer than the minimum (`Strike`, `Logout`,
  `StartGame`). If everybody leaves in that moment, `clear` comes too early and `gameStarted` stays
  set on an empty server: `canConnect` refuses everybody until the server is restarted. `FreshServer`
  excepts exactly what such a start leaves.
* `createGame` (`MainController.java:247`) hands the actors of `numOfPlayer` players to
  all registered users. A user in the middle of a login when the timer strikes, or
  who left the lobby, is one too many: the timer's thread dies with `gameStarted` set.
* A login announced to a lobby whose only connected client has a dead socket logs
  that one out, finds nobody connected and clears all users, the one logging in
  included (`Database.java:144`); his token is then connected without a user.
* `Actor.numOfDeaths` is never incremented, so each death of a player pays from the
  start of the table, however often he died. The death that takes the last skull is
  counted before it is paid, so it is paid from the frenzy's table. Deaths and tracks
  of one turn are settled in the order of a hash map. A second `endGame` pays the
  tracks again; `FairEnd` is about the first.
* `Sandbox.tilesSeen` leaves out the observer's own room if it has one tile (maps 2 and
  3 have such rooms), unlike `GameMap.getVisible`: who stands there with the shooter
  cannot be seen. `SightAgrees` states exactly this exception.
* `ParserMap.addElem` makes the first tile of a row the neighbour of the last one
  of the row before, behind a wall. A shot through walls wraps there, as
  `LaserInLine` says. Aiming at such a tile may fit two directions, of
  which the first of a hash set is taken.
* `Targeter.giveChoices` throws `IllegalStateException` if its selector starts
  from an optional target that was not acquired, as the second step of the flamethrower
  does when there is no second tile (`FailsOnlyShort`). The second mode of Raggio Solare always
  does: its tile is looked for by `targ1` (`weapons.txt:182`), which only the first mode acquires,
  and the two exclude each other.

## Proofs

Eight modules prove every invariant and every action property of `MessageSlot`, `TurnFlow`,
`Session`, `Battle`, `Cards`, `Actions`, `Targeting` and `ClientPolling` for all values of
the constants. Each follows one pattern: an invariant is strengthened until it is
inductive, a lemma per action shows that the action preserves it, and the theorems
follow. What is assumed of the constants is the named `ASSUME`s of the modules, which
TLC evaluates on every run.

`MessageSlotProofs` proves, for any number of questions and handler threads:

* `TypeCorrect`: `Spec => []TypeOK`, from `TypeInv`, which adds that a busy
  handler holds a question.
* `GuardedOnceHolds`: `Spec => []GuardedOnce`, for any set of unguarded questions.
  `GuardedOnce` is not inductive: that a question has called on once says nothing
  of who might be about to call on again. `OnceInv` adds that the
  lock belongs to whoever is between `tryLock` and `unlock` (`LockOwned`), that
  questions not asked yet left no trace (`Fresh`), that a question taken out of the
  slot does not return (`TakenOut`), and that a question that called on is
  *spent*: out of the slot, with no handler past the checks and no task past
  its own (`SpentOnce`). The leaked lock is no obstacle: the owner's own
  later answers still hold it alone.
* `OneTokenHolds`, `CommitsCurrentHolds`, `NoAnswerAfterDeadlineHolds`, under
  `AllGuarded` (no unguarded question). `TokenInv` adds to `OnceInv` that what an
  accepted answer or a striking deadline has seen in the slot is still there
  (`InHand`), and that a question whose deadline is through is gone (`Struck`).
* `SlotImplementsLine`: under `AllGuarded` the slot implements `QuestionLine`.
  Putting, settling and the offline shortcut map to its actions, everything else
  to a stutter. The open question is the one in the slot or the one a committing
  handler has just taken out.

`AllGuarded` is the hypothesis the code breaks with the weapon drop and the
Teleporter, whose questions `slot_mixed` has.

`TurnFlowProofs` proves, for any number of players and threads:

* `TypeCorrect`, from `TypeInv`: every job and question is well formed (`WellFormed`), that is,
  it knows the players it acts for.
* `FrenzyOnce`: that nobody is marked before the frenzy needs no hypothesis, since skulls and tracks
  are never given back. The rest of `FrenzyStartsOnce` holds when nobody drops a weapon, and follows
  from `FlowInv`: between the steps of `endTurn` the one thread with the token knows whether the frenzy
  was on before, and has marked its player exactly if it began since. With two tokens it is false
  (above).
* `TokenIsOne`, `AllAreBack`, `TagbacksOffered` and `PlaysInOrder`, when nobody drops a weapon
  (`NoDrops`). `OneToken` counts threads and questions and is not inductive, since it does
  not know what a thread does next. `TokenInv` says that there is one bearer of the
  token (`Running` or `Asked`), and that its job, the job its answer leads to and the one
  its deadline runs are `Valid`: they belong to the turn that is played
  (`InTurn`: who is on the map, who was hit by whom, who had his turn in the
  frenzy) or lead to the next one (`BetweenTurns`: who will be put on the map before it).
  For `PlaysInOrder` the turns left are counted from `frenzyTurns` (`Left`), and each
  step is shown to be a turn, the start of the frenzy, the end of the game, or a stutter.

`NoDrops` is needed. With arsenals of one, two players and two threads TLC finds a
turn that ends while a duplicated token still collects tagbacks, so
`NoTagbackPending` is stated under `NoDrops`, like the properties beside it.

`SessionProofs` proves, for any number of clients and colours:

* `TypeCorrect`. That `numOfPlayer` stays natural needs that it is at least the
  number of connected users, and one more while a login is between `Enter` and `Admit`
  (`CountType`); equality fails on sockets, where tokens without users stay counted.
* `ColoursAreHeld`, on sockets and RMI alike.
* `ServerIsConsistent`: `ServerAgrees` speaks of moments between two methods; `RmiInv` of
  all moments, with the login that is under way (`Entered`, `TokenInv`), the timer and the start
  thread at each of its steps (`StartInv`), and the server on which nobody is counted (`EmptyInv`). A thread
  may go on to build a game for nobody, but never deals one: without users nobody has an
  actor (`DealRmi`).

`BattleProofs` proves, for any number of players, control points, skulls, lengths of
the tracks and tables of points:

* `TypeCorrect`, from `TypeInv`, which adds `Course`: nobody hurts himself, and nothing of
  a turn is left when the next one starts.
* `DeadSettled`, with `PendingDead`: what `endTurn` still has to settle is dead or a
  track. This is also why `SettleDead` needs no guard of its own that looks at the board.
* `MarksPaid`: a board grows by the damage and then by all marks of the shooter.
* `DeathsPaid` and `EndIsFair`. The points are sums over the players, the ranks are
  positions: that the whole row of the table is paid takes a bijection between the
  players who are paid and the ranks (`SumBijection`); that no one is paid less than somebody below
  him takes the order by damage and by first blood to be total. The winner exists because
  a finite set of sums has a greatest one.

`CardsProofs` proves, for any number of cards, players and tiles:

* `TypeCorrect`, from `TypeInv`, which adds `Course`: powerups are due only to
  somebody who is spawning, turns and deaths are for players who have been on the
  map, and the others have empty hands.
* `CardsConservedHolds`. With `TypeInv`, `CardsConserved` is inductive: a card that is
  drawn was with nobody, since the deck's pile and stash are what is not in play,
  and one that is discarded was in nobody else's hands. There is a lemma for each
  way a card moves (`RefillConserves`, `DrawConserves`, `DiscardConserves`,
  `GrabAmmoConserves`, `WeaponsConserved`).
* `LimitsKeptHolds`, from `TypeInv` and a lemma each for arsenals, hands and tiles. A
  player who spawns for the first time has an empty hand by `Course`, which is why
  two cards do not break the limit. `CardsAssumption` asks that the limits are at
  least 1.
* `DrawAlwaysSucceeds`, under `EnoughCards`: the hands together hold at most their limit
  for each player, a sum over the players, so a card that is in no hand is left, and
  by `CardsConserved` it is in the pile or the stash.
* `MapIsRestocked`: a tile that is short when the turns change is in what is left to refill, or its
  deck has run out; ammo cards cannot run out, since there are as many as tiles.

`ActionsProofs` proves, for any weapons, cards, colours, costs and actions of weapons:

* `PlansPay`, `GoesOn`, `ShownIsKept` and `TypeCorrect`, all from one invariant, `Inv`.
  A plan (`Plan`) is a sandbox with a *way*: what the player has in the game, then what he has
  after each effect, each of which finds what it needs (`Works`), up to what the
  sandbox shows; and its effects pay what they cost up to the debt. `Inv` says that every message
  on the client's stack, the ones below the top included, holds such a plan from what he
  has in the game, and that what he confirmed is still a way to what he was
  shown. While he composes there is nothing to merge, so going back finds the game
  as the plans assume it (`Idle`). Merging takes the first step of the way (`WayFromFirst`);
  answering joins one (`WayOn`) and adds to both sides of the account (`TallyJoined`).
  A question for payment can be paid (`Payable`) and offers a card: a debt that the cubes do
  not cover, but cubes and cards do, has a card of use (`CardOfUse`), so `PayTemplate.spawn`,
  which answers itself when no card is of use, never does so while the cubes fall short, and
  cannot call itself for ever.
  Reloads and cards come in the order of a set: that their sums do not depend on it
  is `SameOnEach`. `AmmoAmount`'s maximum is no loss in a payment, since it only takes cubes away.

`TargetingProofs` proves, for any map, players, control points and weapons:

* `PawnsOnTheMap`, `MergedAsForeseen` and `SightsAgree`, from one invariant, `Inv`: everybody
  is on a tile or dead, control points are on their spots, and the plan in the making is *sound*
  (`PlanInv`). Sound means that the pawns shown as moved are on tiles and a control point is
  shown where it is (`Moved`); that every target was acquired by a targeter of an
  action that was picked and fits its type as the pawns stand (`Acquired`); and that the
  history, merged entry by entry, leads to where the sandbox shows everybody (`Told`). While an
  action acquires its targets, a control point that it moves has its own place for a goal
  (`Linked`), and the targeters still to come have acquired nothing (`Fresh`), so no later
  target changes what an earlier one was picked by. `AsForeseen` rests on `Linked`: in the sandbox
  a control point moves, on the map `Pawn.move` leaves it, and the two agree only because
  `DominationPointTarget` reaches nothing but its own tile.
* `CirclesAreWalks`: `Sandbox.circle`, which looks only at the tiles found in the round before,
  finds exactly the tiles a walk through doors reaches (`Walk`, which `ShotsAsRuled` uses), for all
  radii and tiles, where `targeting_shots` only meets those of its weapons.
* `ShotsFollowRules`: `Spec => []ShotsAsRuled`. `Inv` also says, of the plan in the making:
  the actions used do not exclude each other, nobody aims at himself, and nobody has been taken more than two
  steps from where he stood (`Orderly`); who was moved or hit is a target of an action that was
  used, and those actions have acquired all that is not optional (`Traced`). While an action
  acquires its targets, each of them is among those `giveChoices` offered in the Sandbox as that targeter
  found it, and what is missing was optional (`Given`); the targets that come later
  do not change what was offered before, since names are new and no pawn moves in between. From there:
  a pawn is moved once, by one action (two that could both move it exclude each other, or the second
  picks somebody new), to a tile picked within two steps of it, which is a walk by `CirclesAreWalks`
  (`Ready`). The flames' first tile is next to the player, and their second is at distance two in
  its direction, so it lies straight behind the first (`FlamesLine`). A direction through walls
  is followed by adding to the number of the tile, so it leaves the row only over its end (`LineStrays`).
  And a targeter without what it starts from is the flames' last one (`FallsShort`): everything else
  starts from targets that are not optional.

Five things are assumed of the constants. `RoomsConnected`: no room falls into parts; so
it is on maps 1 to 4, and without it the sandbox, which takes the rooms of a tile's neighbours,
and the map, which takes the tile's own as well, would differ for more than rooms of one tile. `RowsApart`:
the tiles that `ParserMap` takes for neighbours over the end of a row are of different rooms
without a door between them; it holds on all four maps. `ActionAssumption` is what
`ParserWeapon` can return: known selectors and targets, each name once. `WeaponAssumption`
is what the weapons of `weapons.txt` have in common: a selector that needs to know where its source is
starts from a pawn or a tile (any other throws `InvalidParameterException`), two actions with
a name in common exclude each other, and whom an effect moves is the user or is moved to a tile that was
picked by its reach (`Guided`), so a weapon that moved a control point elsewhere would not be covered.

`ShotAssumption` is what the rules of `ShotsAsRuled` count on: moves of at most two steps
(`ShortMove`), no two actions that move the same pawn (`Apart`), targeters that start from
what was acquired before (`Sourced`), and what the flames and the laser aim at, as `weapons.txt` has it.
It speaks of walking and aiming only, not of where somebody ends up. The weapons of `weapons.txt` fit it,
with four exceptions, which `targeting_shots` does not contain either:

* Raggio Solare, whose second mode always throws (above);
* Cyberguanto, whose user goes to the tile of his target, and whose second mode starts from an
  optional tile, as the flames do;
* Lanciarazzi's contemporary action, since contemporary actions are not modelled;
* Mitragliatrice, whose `IS` selector is not modelled.

`Circle`, and the folds over targeters, effects and histories, are recursive
functions. What is needed of them is shown by a smallest counterexample, as in `Sums`; for the folds
once for all three (`FoldOf`, by a tag for what is folded).

`ClientPolling` is proved about in `MessageSlotProofs` too, as the other end of a question
(its names are chosen so that both modules can be extended): `NeverDeaf` holds for any questions, depths and numbers of requests. With
the types of all that travels (`ServerTypes`, `ClientTypes`; the stack holds questions only, never a WAIT)
`NotDeaf` is inductive.

`Sums` holds the lemmas about the library's sums over finite sets (remove an
element, change one value, exchange two sums, sum along a bijection, a constant one), and
that a finite set of numbers has a least and a greatest element. The library's induction
theorems cannot be used by the provers, because they take an operator as a parameter. The lemmas
argue by a smallest counterexample instead (`SmallestSet`): the set of the subsets for which
the claim fails has a member without a smaller one, by the well-foundedness of inclusion on finite sets,
which the library states without such a parameter. Folds over sequences in `Actions` (`FoldAlong`) are treated alike.

Only model-checked: liveness (`QuestionEnds`, `TurnEnds`, `GameCloses`,
`GoneLeaves`, `LobbyStarts`, `Shown`), which is out of the prover's reach.

## Plan

1. The composition of `TurnFlow` with a slot in detail: what the second token of a
   dropped weapon does to two players' slots at once.
2. The monitors of the socket transport (`ClientHandler`), against the callbacks of
   `Database.logout`.
3. Contemporary actions and the requirements of actions on targets, with the four weapons
   that `ShotAssumption` leaves out.

## Not modelled

Object streams and RMI stubs, whose requests are the inputs of the other modules;
the parsers of configuration, maps and cards, which run once at start-up and leave
no state behind but the constants of the models; the views. Within the modelled
components: passwords, the choice of the game master and of the mode; the zombie
continuations of an abandoned game; contemporary actions and requirements on
targets; the colours and cubes of the cards on the map.
