------------------------------ MODULE Session -------------------------------
(***************************************************************************)
(* Who is in the server: registration, login, reconnection, logout, the    *)
(* heartbeat that logs a silent client out, the timer that starts the      *)
(* game, and the reset of the server when the last player has left.        *)
(*                                                                         *)
(* The methods of Database hold its monitor ("entering" keeps it between   *)
(* the steps of a login).  The start timer's thread does not, so its steps *)
(* interleave with theirs.  A client is known by its token; a client that  *)
(* the server has forgotten gets a new one when it registers again.        *)
(*                                                                         *)
(* Telling a client that somebody came or went may fail.  For a client on  *)
(* a socket the failed write logs it out at once, inside the method that   *)
(* is telling; for one on RMI a thread of its own does so afterwards.      *)
(***************************************************************************)
EXTENDS Naturals, FiniteSets

CONSTANTS Client,     \* the clients
          Network,    \* which of them may be on sockets, the others on RMI
          Colour,     \* the colours a player may have
          Wishes,     \* the colours each client may ask for
          NoColour,   \* "not registered"
          NoOne,      \* "no login is under way"
          MinPlayer,  \* MainController.MIN_PLAYER
          MaxPlayer   \* MainController.MAX_PLAYER

ASSUME SessionAssumption ==
    /\ IsFiniteSet(Client) /\ Network \subseteq SUBSET Client
    /\ Wishes \in [Client -> SUBSET Colour]
    /\ NoColour \notin Colour /\ NoOne \notin Client
    /\ MinPlayer \in Nat /\ MaxPlayer \in Nat
    /\ 1 < MinPlayer /\ MinPlayer < MaxPlayer

VARIABLES
    colourOf,     \* usersByToken: the colour of each registered user
    colors,       \* Database.colors, those still free
    connected,    \* Database.connectedToken
    disconnected, \* Database.disconnectedToken
    beating,      \* tokens with a running TimerForDisconnection
    entering,     \* the client whose login holds the monitor
    stage,        \* how far that login has come
    online,       \* users with Player.isOnLine
    num,          \* MainController.numOfPlayer
    slaves,       \* MainController.slaveControllerList
    gameStarted, gameOver, closing, \* closing is closeGameAtEndTurn
    task,         \* the start timer: armed timers are "odd" and "even" in turn
    timerRunning, \* MainController.timerRunning
    starter,      \* what the thread of an expired start timer is doing
    built,        \* numOfPlayer when it built the game
    hasActor,     \* users with an actor
    playing,      \* the first player was asked to spawn
    gone,         \* clients that died without a word
    socket        \* the clients on sockets

userVars == <<colourOf, colors, connected, disconnected, beating, online>>
loginVars == <<entering, stage>>
gameVars == <<gameStarted, gameOver, closing, playing>>
timerVars == <<task, timerRunning>>
startVars == <<starter, built, hasActor>>
vars == <<userVars, loginVars, num, slaves, gameVars, timerVars, startVars, gone, socket>>

User == {p \in Client : colourOf[p] # NoColour}

TypeOK ==
    /\ colourOf \in [Client -> Colour \cup {NoColour}]
    /\ colors \subseteq Colour
    /\ connected \subseteq Client /\ disconnected \subseteq Client
    /\ beating \subseteq Client
    /\ entering \in Client \cup {NoOne}
    /\ stage \in {"free", "registered", "counted"}
    /\ online \subseteq User
    /\ num \in Nat
    /\ slaves \subseteq Client
    /\ gameStarted \in BOOLEAN /\ gameOver \in BOOLEAN
    /\ closing \in BOOLEAN /\ playing \in BOOLEAN
    /\ task \in {"off", "odd", "even"} /\ timerRunning \in BOOLEAN
    /\ starter \in {"idle", "struck", "started", "building", "dealing", "dealt", "failed"}
    /\ built \in Nat
    /\ hasActor \subseteq User
    /\ gone \subseteq Client
    /\ socket \in Network

Init ==
    /\ colourOf = [p \in Client |-> NoColour]
    /\ colors = Colour
    /\ connected = {} /\ disconnected = {} /\ beating = {}
    /\ entering = NoOne /\ stage = "free"
    /\ online = {}
    /\ num = 0
    /\ slaves = {}
    /\ gameStarted = FALSE /\ gameOver = FALSE
    /\ closing = FALSE /\ playing = FALSE
    /\ task = "off" /\ timerRunning = FALSE
    /\ starter = "idle" /\ built = 0
    /\ hasActor = {}
    /\ gone = {}
    /\ socket \in Network

-----------------------------------------------------------------------------
(* Helpers *)

MonitorFree == entering = NoOne

\* timerClose.  (It cannot stop a timer that has struck.)
TimerClose == task' = "off" /\ timerRunning' = FALSE

\* timerStart: another timer takes the place of the last one.
TimerStart == task' = (IF task = "odd" THEN "even" ELSE "odd") /\ timerRunning' = TRUE

\* Slip: the timer waits for one player too many.
CheckTimerLate(n, m) ==
    \/ ~gameStarted /\ n <= MinPlayer /\ timerRunning /\ TimerClose
    \/ ~gameStarted /\ n > MinPlayer /\ (MaxPlayer \in n..m \/ ~timerRunning) /\ TimerStart
    \/ /\ IF gameStarted THEN TRUE
          ELSE IF n <= MinPlayer THEN ~timerRunning ELSE timerRunning /\ MaxPlayer \notin n..m
       /\ UNCHANGED timerVars

\* What checkGameState does to the timer of a lobby, called as the count of the
\* players goes from m down to n: too few stop it; with enough it is started, unless
\* it runs already; a full lobby starts it anew.
Restarts(n, m) == MaxPlayer \in n..m \/ (n < MaxPlayer /\ ~timerRunning)

CheckTimer(n, m) ==
    \/ ~gameStarted /\ n < MinPlayer /\ timerRunning /\ TimerClose
    \/ ~gameStarted /\ n >= MinPlayer /\ Restarts(n, m) /\ TimerStart
    \/ /\ gameStarted \/ (IF n < MinPlayer THEN ~timerRunning ELSE ~Restarts(n, m))
       /\ UNCHANGED timerVars

\* checkGameState: the game under way closes for lack of players or not; before the
\* game the timer is looked after.
CheckGameState(n, m) ==
    /\ closing' = IF gameStarted THEN n < MinPlayer ELSE closing
    /\ CheckTimer(n, m)

\* Slip: the reset forgets that the game was over.
ClearKeepsGame ==
    /\ gameStarted' = FALSE /\ closing' = FALSE /\ playing' = FALSE
    /\ slaves' = {}
    /\ UNCHANGED gameOver

\* MainController.clear, when nobody is left.
Clear ==
    /\ gameStarted' = FALSE /\ gameOver' = FALSE /\ closing' = FALSE
    /\ playing' = FALSE
    /\ slaves' = {}

\* What logout, for all of D together, leaves in MainController with n players.
CountOut(n) ==
    /\ num' = n
    /\ IF n = 0
       THEN CheckTimer(0, num - 1) /\ Clear
       ELSE CheckGameState(n, num - 1) /\ UNCHANGED <<gameStarted, gameOver, playing, slaves>>

\* Slip: a logout gives the colour back, although the user stays.
SignOutFreesColours(D) ==
    /\ connected' = connected \ D
    /\ beating' = beating \ D
    /\ disconnected' = disconnected \cup D
    /\ online' = online \ D
    /\ colors' = colors \cup {colourOf[p] : p \in D}
    /\ UNCHANGED <<colourOf, hasActor>>

\* Slip: clearAll leaves the actors to the users it forgets.
SignOutKeepsActors(D) ==
    /\ connected' = connected \ D
    /\ beating' = beating \ D
    /\ IF connected' = {}
       THEN /\ colourOf' = [p \in Client |-> NoColour]
            /\ colors' = colors \cup {colourOf[p] : p \in User}
            /\ disconnected' = {} /\ online' = {} /\ UNCHANGED hasActor
       ELSE /\ disconnected' = disconnected \cup D
            /\ online' = online \ D
            /\ UNCHANGED <<colourOf, colors, hasActor>>

\* ... and in Database: their tokens are disconnected; when none is left,
\* clearAll forgets all users and takes their colours back.
SignOut(D) ==
    /\ connected' = connected \ D
    /\ beating' = beating \ D
    /\ IF connected' = {}
       THEN /\ colourOf' = [p \in Client |-> NoColour]
            /\ colors' = colors \cup {colourOf[p] : p \in User}
            /\ disconnected' = {} /\ online' = {} /\ hasActor' = {}
       ELSE /\ disconnected' = disconnected \cup D
            /\ online' = online \ D
            /\ UNCHANGED <<colourOf, colors, hasActor>>

\* The clients that fail while the others are told about somebody: sets of
\* connected users on sockets.  (Bound: a token that lost its user, see
\* LogoutUnknown, does not fail while somebody else is being told.)
Failing(others) == SUBSET (others \cap socket \cap User)

-----------------------------------------------------------------------------
(* Login *)

\* The user is registered under a fresh token: the name is free, the colour is
\* free and the game has not begun.  (Bound: a thread that starts a game, which needs
\* milliseconds from there on, is through before a new lobby forms.)
StartUnderWay == starter \in {"started", "building", "dealing", "dealt"}

Register(p) ==
    /\ MonitorFree
    /\ p \notin User \cup connected \cup disconnected
    /\ num < MaxPlayer /\ ~gameStarted /\ ~gameOver
    /\ ~StartUnderWay
    /\ \E c \in colors \cap Wishes[p] :
          /\ colourOf' = [colourOf EXCEPT ![p] = c]
          /\ colors' = colors \ {c}
    /\ online' = online \cup {p}
    /\ entering' = p /\ stage' = "registered"
    /\ gone' = gone \ {p}
    /\ UNCHANGED <<connected, disconnected, beating, num, slaves, gameVars, timerVars,
                   startVars, socket>>

\* bind and connect: the player is counted and the others are told, which may
\* log some of them out.
Enter(p) ==
    /\ entering = p /\ stage = "registered"
    /\ num < MaxPlayer /\ ~gameStarted /\ ~gameOver
    /\ slaves' = slaves \cup {p}
    /\ stage' = "counted"
    /\ \E D \in Failing(connected) :
          /\ num' = num + 1 - Cardinality(D)
          /\ IF D = {}
             THEN UNCHANGED <<userVars, timerVars, closing, hasActor>>
             ELSE SignOut(D) /\ CheckGameState(num', num)
    /\ UNCHANGED <<entering, gameStarted, gameOver, playing, starter, built, gone, socket>>

\* connect throws: the game has begun since canConnect was first asked.  The
\* user stays registered, the token does not become connected.
EnterRefused(p) ==
    /\ entering = p /\ stage = "registered"
    /\ gameStarted \/ gameOver \/ num >= MaxPlayer
    /\ slaves' = slaves \cup {p}
    /\ entering' = NoOne /\ stage' = "free"
    /\ UNCHANGED <<userVars, num, gameVars, timerVars, startVars, gone, socket>>

\* Slip: the new token gets no TimerForDisconnection.
AdmitUnwatched(p) ==
    /\ entering = p /\ stage = "counted"
    /\ CheckGameState(num, num)
    /\ connected' = connected \cup {p}
    /\ entering' = NoOne /\ stage' = "free"
    /\ UNCHANGED <<colourOf, colors, disconnected, beating, online, num, slaves,
                   gameStarted, gameOver, playing, startVars, gone, socket>>

\* checkGameState, and the end of login.
Admit(p) ==
    /\ entering = p /\ stage = "counted"
    /\ CheckGameState(num, num)
    /\ connected' = connected \cup {p}
    /\ beating' = beating \cup {p}
    /\ entering' = NoOne /\ stage' = "free"
    /\ UNCHANGED <<colourOf, colors, disconnected, online, num, slaves, gameStarted,
                   gameOver, playing, startVars, gone, socket>>

\* Login with name and password: the search looks up the user of every
\* disconnected token, and fails if one is unknown.
Rejoin(p) ==
    /\ MonitorFree
    /\ p \in disconnected
    /\ disconnected \subseteq User
    /\ \E D \in Failing(connected) :
          LET left == connected \ D IN
          /\ num' = num + 1 - Cardinality(D)
          /\ CheckGameState(num', IF D = {} THEN num' ELSE num)
          /\ connected' = left \cup {p}
          /\ beating' = (beating \ D) \cup {p}
          /\ IF left = {} /\ D # {}
             THEN /\ colourOf' = [q \in Client |-> NoColour]
                  /\ colors' = colors \cup {colourOf[q] : q \in User}
                  /\ disconnected' = {} /\ online' = {} /\ hasActor' = {}
             ELSE /\ disconnected' = (disconnected \ {p}) \cup D
                  /\ online' = (online \ D) \cup {p}
                  /\ UNCHANGED <<colourOf, colors, hasActor>>
    /\ gone' = gone \ {p}
    /\ UNCHANGED <<loginVars, slaves, gameStarted, gameOver, playing, starter, built, socket>>

-----------------------------------------------------------------------------
(* Logout: asked for, or because a call to the client failed *)

Logout(p) ==
    /\ MonitorFree
    /\ p \in connected \cap User
    /\ \E D \in Failing(connected \ {p}) :
          /\ SignOut(D \cup {p})
          /\ CountOut(num - Cardinality(D \cup {p}))
    /\ UNCHANGED <<loginVars, starter, built, gone, socket>>

\* A connected token without a user: logout throws before it reaches the game.
LogoutUnknown(p) ==
    /\ MonitorFree
    /\ p \in connected \ User
    /\ connected' = connected \ {p}
    /\ beating' = beating \ {p}
    /\ disconnected' = disconnected \cup {p}
    /\ UNCHANGED <<colourOf, colors, online, loginVars, num, slaves, gameVars, timerVars,
                   startVars, gone, socket>>

\* The client dies without a word; ten heartbeats later it is logged out.
Vanish(p) ==
    /\ p \in connected \ gone
    /\ gone' = gone \cup {p}
    /\ UNCHANGED <<userVars, loginVars, num, slaves, gameVars, timerVars, startVars, socket>>

Heartbeat(p) ==
    /\ p \in beating \cap gone
    /\ Logout(p) \/ LogoutUnknown(p)

-----------------------------------------------------------------------------
(* The thread of the start timer *)

\* The timer strikes: its task begins to run and cannot be cancelled any more.
\* (Bound: the timers are a second or more apart, so a thread that starts a game is
\* through when the next one strikes.)
Strike(timer) ==
    /\ timer # "off" /\ task = timer
    /\ starter \in {"idle", "failed"}
    /\ task' = "off"
    /\ starter' = "struck"
    /\ UNCHANGED <<userVars, loginVars, num, slaves, gameVars, timerRunning, built, hasActor,
                   gone, socket>>

\* startGame, whatever has happened since.
StartGame ==
    /\ starter = "struck"
    /\ gameStarted' = TRUE
    /\ starter' = "started"
    /\ UNCHANGED <<userVars, loginVars, num, slaves, gameOver, closing, playing, timerVars,
                   built, hasActor, gone, socket>>

\* createGame builds a game for the players of now ...
BuildGame ==
    /\ starter = "started"
    /\ built' = num
    /\ starter' = "building"
    /\ UNCHANGED <<userVars, loginVars, num, slaves, gameVars, timerVars, hasActor, gone, socket>>

\* ... and gives the users their actors; with more users than actors the thread dies.
CreateGame ==
    /\ starter = "building"
    /\ Cardinality(User) <= built
    /\ hasActor' = User
    /\ starter' = "dealing"
    /\ UNCHANGED <<userVars, loginVars, num, slaves, gameVars, timerVars, built, gone, socket>>

CreateGameFails ==
    /\ starter = "building"
    /\ Cardinality(User) > built
    /\ \E A \in SUBSET User : Cardinality(A) = built /\ hasActor' = A
    /\ starter' = "failed"
    /\ UNCHANGED <<userVars, loginVars, num, slaves, gameVars, timerVars, built, gone, socket>>

\* The rest of startGame: the slaves are told and the first one is to spawn.
\* It fails without a slave, or with one whose player has no actor.
DealPossible == slaves # {} /\ slaves \subseteq hasActor

Deal ==
    /\ starter = "dealing"
    /\ DealPossible
    /\ playing' = TRUE
    /\ starter' = "dealt"
    /\ UNCHANGED <<userVars, loginVars, num, slaves, gameStarted, gameOver, closing, timerVars,
                   built, hasActor, gone, socket>>

DealFails ==
    /\ starter = "dealing"
    /\ ~DealPossible
    /\ starter' = "failed"
    /\ UNCHANGED <<userVars, loginVars, num, slaves, gameVars, timerVars, built, hasActor,
                   gone, socket>>

\* The end of the task: timerClose, also for a timer started meanwhile.
CloseTimer ==
    /\ starter = "dealt"
    /\ TimerClose
    /\ starter' = "idle"
    /\ UNCHANGED <<userVars, loginVars, num, slaves, gameVars, built, hasActor, gone, socket>>

EndGame ==
    /\ playing
    /\ playing' = FALSE
    /\ gameOver' = TRUE
    /\ UNCHANGED <<userVars, loginVars, num, slaves, gameStarted, closing, timerVars, startVars,
                   gone, socket>>

-----------------------------------------------------------------------------

LoginStep(p) == Enter(p) \/ EnterRefused(p) \/ Admit(p)
StartStep ==
    \/ StartGame \/ BuildGame \/ CreateGame \/ CreateGameFails
    \/ Deal \/ DealFails \/ CloseTimer

Next ==
    \/ \E p \in Client :
          \/ Register(p) \/ LoginStep(p) \/ Rejoin(p)
          \/ Logout(p) \/ LogoutUnknown(p) \/ Vanish(p) \/ Heartbeat(p)
    \/ \E timer \in {"odd", "even"} : Strike(timer)
    \/ StartStep
    \/ EndGame

Spec == Init /\ [][Next]_vars

\* Threads inside the server run, and a timer strikes unless another takes its place;
\* clients and the game may do nothing.
FairSpec ==
    /\ Spec
    /\ \A p \in Client : WF_vars(LoginStep(p)) /\ SF_vars(Heartbeat(p))
    /\ \A timer \in {"odd", "even"} : WF_vars(Strike(timer))
    /\ WF_vars(StartStep)

-----------------------------------------------------------------------------
(* Properties *)

\* A token that a login returned belongs to a registered user (Database.login).
TokensKnown == connected \cup disconnected \subseteq User

\* The game counts exactly the connected players, each of them is watched by a
\* heartbeat, and every token belongs to a user.
CountsAgree ==
    /\ num = Cardinality(connected)
    /\ beating = connected
    /\ connected \cap disconnected = {}
    /\ TokensKnown

\* Whom the game takes to be on line is connected, and nobody else: on that it
\* decides whether to ask a player or to run his deadline at once.
OnlineIsConnected == playing => online \cap hasActor = connected \cap hasActor

\* When the last player has left, nothing is left of him; and the server is as good
\* as new, unless a start of the game was under way, which nobody can stop: that may
\* leave gameStarted on an empty server.
FreshServer ==
    connected = {} =>
        /\ num = 0 /\ disconnected = {} /\ ~gameOver /\ ~closing /\ ~playing
        /\ ~gameStarted => User = {} /\ slaves = {}
        /\ starter = "idle" => ~gameStarted /\ task = "off" /\ ~timerRunning

\* With all clients on RMI, between the methods of Database, what it knows of the
\* clients agrees with what MainController and its timer know: the counts and
\* heartbeats, who is on line in a game, and what is left on an empty server.
ServerAgrees == MonitorFree /\ socket = {} => CountsAgree /\ OnlineIsConnected /\ FreshServer

\* Every colour is free or held by one user, whoever fails to log in, leaves or
\* is forgotten.
ColoursHeld ==
    /\ \A p, q \in User : colourOf[p] = colourOf[q] => p = q
    /\ colors = Colour \ {colourOf[p] : p \in User}

\* A client that died is logged out in the end.
GoneLeaves == \A p \in Client : p \in gone /\ p \in connected ~> p \notin connected \/ p \notin gone

\* A lobby that keeps enough players comes to a start, unless it fills up again and
\* again, as players come and go, which starts the countdown anew each time.
LobbyStarts ==
    <>[](num >= MinPlayer /\ ~gameStarted) => []<><<num' = MaxPlayer /\ task' # task>>_vars
=============================================================================
