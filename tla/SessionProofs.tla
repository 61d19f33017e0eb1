--------------------------- MODULE SessionProofs ----------------------------
(***************************************************************************)
(* Proofs about Session, for every set of clients, colours and networks    *)
(* and all limits on the players.                                          *)
(***************************************************************************)
EXTENDS Session, FiniteSetTheorems, TLAPS

-----------------------------------------------------------------------------
(* The inductive invariants *)

UserTypes ==
    /\ colourOf \in [Client -> Colour \cup {NoColour}] /\ colors \subseteq Colour
    /\ connected \subseteq Client /\ disconnected \subseteq Client /\ beating \subseteq Client
    /\ online \subseteq User /\ hasActor \subseteq User /\ gone \subseteq Client

GameTypes ==
    /\ slaves \subseteq Client /\ socket \in Network
    /\ gameStarted \in BOOLEAN /\ gameOver \in BOOLEAN
    /\ closing \in BOOLEAN /\ playing \in BOOLEAN
    /\ task \in {"off", "odd", "even"} /\ timerRunning \in BOOLEAN
    /\ starter \in {"idle", "struck", "started", "building", "dealing", "dealt", "failed"}
    /\ built \in Nat

\* A login holds the monitor until it is through; its token is not connected yet.
LoginTypes ==
    /\ entering \in Client \cup {NoOne} /\ stage \in {"free", "registered", "counted"}
    /\ entering = NoOne <=> stage = "free"
    /\ entering \notin connected

\* No connected user is left out of the count.  (It may be too high: the tokens
\* that have lost their users are never counted out.)
Late == IF stage = "counted" THEN 1 ELSE 0

CountType == num \in Nat /\ num >= Cardinality(connected \cap User) + Late

TypeInv == UserTypes /\ GameTypes /\ LoginTypes /\ CountType

\* Those whom the game counts, and the users whom it does not: their login is not
\* through, or was refused.
Entered == connected \cup (IF stage = "counted" THEN {entering} ELSE {})

Stray == User \ (Entered \cup disconnected)

\* With all clients on RMI: the tokens, ...
TokenInv ==
    /\ num = Cardinality(Entered)
    /\ beating = connected
    /\ connected \cap disconnected = {}
    /\ connected \cup disconnected \subseteq User
    /\ entering # NoOne => entering \in User \ disconnected
    /\ online = User \ disconnected

\* ... the start of the game, ...
StartInv ==
    /\ task # "off" => timerRunning
    /\ starter = "idle" /\ timerRunning => ~gameStarted /\ num >= MinPlayer
    /\ playing \/ gameOver => gameStarted
    /\ StartUnderWay => gameStarted \/ (User = {} /\ slaves = {} /\ entering = NoOne)
    /\ starter = "building" /\ gameStarted /\ Cardinality(User) <= built => Stray = {}
    /\ playing \/ (starter = "dealing" /\ gameStarted) => Stray = {}

\* ... and the server when the game counts nobody.
EmptyInv ==
    Entered = {} =>
        /\ disconnected = {} /\ ~closing /\ ~playing /\ ~gameOver
        /\ ~gameStarted => User \subseteq {entering} /\ slaves \subseteq {entering}
        /\ starter \in {"idle", "dealt"} => ~gameStarted

RmiInv == socket = {} => TokenInv /\ StartInv /\ EmptyInv

-----------------------------------------------------------------------------
(* Types *)

LEMMA CountOfRest ==
    ASSUME NEW A, IsFiniteSet(A), NEW D \in SUBSET A
    PROVE  /\ IsFiniteSet(D) /\ Cardinality(D) \in Nat /\ Cardinality(A) \in Nat
           /\ Cardinality(A \ D) = Cardinality(A) - Cardinality(D)
           /\ Cardinality(D) <= Cardinality(A)
<1>1. IsFiniteSet(D) /\ Cardinality(D) <= Cardinality(A)
  BY FS_Subset
<1>2. A \cap D = D
  OBVIOUS
<1> QED
  BY <1>1, <1>2, FS_Difference, FS_CardinalityType

\* The connected users are finitely many.
Counting == connected \cap User

LEMMA CountingType ==
    ASSUME UserTypes
    PROVE  IsFiniteSet(Counting) /\ Cardinality(Counting) \in Nat
<1>1. Counting \in SUBSET Client
  BY DEF UserTypes, Counting
<1> QED
  BY <1>1, SessionAssumption, FS_Subset, FS_CardinalityType

LEMMA TimerType ==
    ASSUME GameTypes, NEW n, NEW m, CheckTimer(n, m)
    PROVE  task' \in {"off", "odd", "even"} /\ timerRunning' \in BOOLEAN
BY DEF CheckTimer, TimerClose, TimerStart, timerVars, GameTypes

LEMMA CheckType ==
    ASSUME GameTypes, NEW n, NEW m, CheckGameState(n, m)
    PROVE  task' \in {"off", "odd", "even"} /\ timerRunning' \in BOOLEAN /\ closing' \in BOOLEAN
<1>1. CASE gameStarted
  BY <1>1, TimerType DEF CheckGameState, GameTypes
<1>2. CASE ~gameStarted
  BY <1>2, TimerType DEF CheckGameState, GameTypes
<1> QED
  BY <1>1, <1>2

LEMMA SignOutType ==
    ASSUME UserTypes, NEW D \in SUBSET Counting, SignOut(D), gone' = gone
    PROVE  /\ UserTypes'
           /\ connected' = connected \ D
           /\ Counting' \subseteq Counting \ D
<1>1. connected' = connected \ D
  BY DEF SignOut
<1>2. CASE connected' = {}
  <2>1. colourOf' = [p \in Client |-> NoColour]
        /\ colors' = colors \cup {colourOf[p] : p \in User}
        /\ disconnected' = {} /\ online' = {} /\ hasActor' = {} /\ beating' = beating \ D
    BY <1>2 DEF SignOut
  <2>2. colors' \subseteq Colour
    BY <2>1 DEF UserTypes, User
  <2>3. UserTypes'
    BY <1>1, <2>1, <2>2 DEF UserTypes, User
  <2> QED
    BY <1>1, <1>2, <2>3 DEF Counting
<1>3. CASE connected' # {}
  <2>1. disconnected' = disconnected \cup D /\ online' = online \ D /\ beating' = beating \ D
        /\ UNCHANGED <<colourOf, colors, hasActor>>
    BY <1>3 DEF SignOut
  <2>2. UserTypes'
    BY <1>1, <2>1 DEF UserTypes, User, Counting
  <2> QED
    BY <1>1, <2>1, <2>2 DEF Counting, User
<1> QED
  BY <1>2, <1>3

\* What a logout of all of D leaves of the count.
LEMMA CountedOut ==
    ASSUME UserTypes, NEW D \in SUBSET Counting, Counting' \subseteq Counting \ D
    PROVE  /\ Cardinality(D) \in Nat /\ Cardinality(Counting) \in Nat
           /\ Cardinality(Counting') \in Nat
           /\ Cardinality(D) + Cardinality(Counting') <= Cardinality(Counting)
<1>1. IsFiniteSet(Counting)
  BY CountingType
<1>2. /\ Cardinality(D) \in Nat /\ Cardinality(Counting) \in Nat
      /\ Cardinality(Counting \ D) = Cardinality(Counting) - Cardinality(D)
      /\ Cardinality(D) <= Cardinality(Counting)
  BY <1>1, CountOfRest
<1>3. IsFiniteSet(Counting \ D)
  BY <1>1, FS_Difference
<1>4. Cardinality(Counting') \in Nat /\ Cardinality(Counting') <= Cardinality(Counting \ D)
  BY <1>3, FS_Subset, FS_CardinalityType
<1> QED
  BY <1>2, <1>4

LEMMA RegisterType ==
    ASSUME TypeInv, NEW p \in Client, Register(p)
    PROVE  TypeInv'
<1>1. PICK c \in colors : colourOf' = [colourOf EXCEPT ![p] = c] /\ colors' = colors \ {c}
  BY DEF Register
<1>2. c \in Colour /\ c # NoColour
  BY SessionAssumption DEF TypeInv, UserTypes
<1>3. User' = User \cup {p}
  BY <1>1, <1>2 DEF User, TypeInv, UserTypes
<1>4. UserTypes'
  <2>1. colourOf' \in [Client -> Colour \cup {NoColour}] /\ colors' \subseteq Colour
    BY <1>1, <1>2 DEF TypeInv, UserTypes
  <2> QED
    BY <1>3, <2>1 DEF Register, TypeInv, UserTypes, startVars
<1>5. GameTypes'
  BY DEF Register, TypeInv, GameTypes, gameVars, timerVars, startVars
<1>6. LoginTypes'
  BY SessionAssumption DEF Register, TypeInv, LoginTypes, MonitorFree
<1>7. CountType'
  <2>1. connected' \cap User' = connected \cap User
    BY <1>3 DEF Register
  <2>2. Late' = 0 /\ Late = 0 /\ num' = num
    BY DEF Register, Late, TypeInv, LoginTypes, MonitorFree
  <2> QED
    BY <2>1, <2>2 DEF TypeInv, CountType
<1> QED
  BY <1>4, <1>5, <1>6, <1>7 DEF TypeInv

LEMMA EnterType ==
    ASSUME TypeInv, NEW p \in Client, Enter(p)
    PROVE  TypeInv'
<1>1. PICK D \in Failing(connected) :
         /\ num' = num + 1 - Cardinality(D)
         /\ IF D = {} THEN UNCHANGED <<userVars, timerVars, closing, hasActor>>
            ELSE SignOut(D) /\ CheckGameState(num', num)
  BY DEF Enter
<1>2. D \in SUBSET Counting /\ gone' = gone
  BY DEF Failing, Counting, Enter
<1>3. /\ UserTypes' /\ connected' \subseteq connected
      /\ Counting' \subseteq Counting \ D
      /\ task' \in {"off", "odd", "even"} /\ timerRunning' \in BOOLEAN /\ closing' \in BOOLEAN
  <2>1. CASE D = {}
    BY <1>1, <1>2, <2>1
    DEF userVars, timerVars, TypeInv, UserTypes, GameTypes, User, Counting
  <2>2. CASE D # {}
    BY <1>1, <1>2, <2>2, SignOutType, CheckType DEF TypeInv
  <2> QED
    BY <2>1, <2>2
<1>4. GameTypes'
  BY <1>3 DEF Enter, TypeInv, GameTypes
<1>5. LoginTypes'
  BY <1>3, SessionAssumption DEF Enter, TypeInv, LoginTypes
<1>6. CountType'
  <2>1. /\ Cardinality(D) \in Nat /\ Cardinality(Counting) \in Nat
        /\ Cardinality(Counting') \in Nat
        /\ Cardinality(D) + Cardinality(Counting') <= Cardinality(Counting)
    BY <1>2, <1>3, CountedOut DEF TypeInv
  <2>2. Late = 0 /\ Late' = 1
    BY DEF Enter, Late
  <2>3. num \in Nat /\ num >= Cardinality(Counting)
    BY <2>1, <2>2 DEF TypeInv, CountType, Counting
  <2>4. num' \in Nat /\ num' >= Cardinality(Counting') + 1
    BY <1>1, <2>1, <2>3
  <2> QED
    BY <2>2, <2>4 DEF CountType, Counting
<1> QED
  BY <1>3, <1>4, <1>5, <1>6 DEF TypeInv

LEMMA EnterRefusedType ==
    ASSUME TypeInv, NEW p \in Client, EnterRefused(p)
    PROVE  TypeInv'
<1>1. UserTypes' /\ GameTypes'
  BY DEF EnterRefused, TypeInv, UserTypes, GameTypes, User, userVars, gameVars, timerVars,
     startVars
<1>2. LoginTypes'
  BY SessionAssumption DEF EnterRefused, TypeInv, LoginTypes, UserTypes, userVars
<1>3. connected' \cap User' = connected \cap User /\ Late' = Late /\ num' = num
  BY DEF EnterRefused, userVars, User, Late
<1> QED
  BY <1>1, <1>2, <1>3 DEF TypeInv, CountType

LEMMA AdmitType ==
    ASSUME TypeInv, NEW p \in Client, Admit(p)
    PROVE  TypeInv'
<1>1. UserTypes'
  BY DEF Admit, TypeInv, UserTypes, User, startVars
<1>2. task' \in {"off", "odd", "even"} /\ timerRunning' \in BOOLEAN /\ closing' \in BOOLEAN
  BY CheckType DEF Admit, TypeInv
<1>3. GameTypes'
  BY <1>2 DEF Admit, TypeInv, GameTypes, startVars
<1>4. LoginTypes'
  BY <1>1, SessionAssumption DEF Admit, LoginTypes, UserTypes
<1>5. CountType'
  <2>1. Late = 1 /\ Late' = 0 /\ num' = num
    BY DEF Admit, Late
  <2>2. Counting' \subseteq Counting \cup {p}
    BY DEF Counting, User, Admit
  <2>3. IsFiniteSet(Counting) /\ Cardinality(Counting) \in Nat
    BY CountingType DEF TypeInv
  <2>4. IsFiniteSet(Counting \cup {p}) /\ Cardinality(Counting \cup {p}) <= Cardinality(Counting) + 1
    <3>1. /\ IsFiniteSet(Counting \cup {p})
          /\ Cardinality(Counting \cup {p}) = IF p \in Counting THEN Cardinality(Counting)
                                             ELSE Cardinality(Counting) + 1
      BY <2>3, FS_AddElement
    <3>2. CASE p \in Counting
      BY <2>3, <3>1, <3>2
    <3>3. CASE p \notin Counting
      BY <2>3, <3>1, <3>3
    <3> QED
      BY <3>2, <3>3
  <2>5. Cardinality(Counting') <= Cardinality(Counting \cup {p}) /\ Cardinality(Counting') \in Nat
        /\ Cardinality(Counting \cup {p}) \in Nat
    BY <2>2, <2>4, FS_Subset, FS_CardinalityType
  <2>6. num \in Nat /\ num >= Cardinality(Counting) + 1
    BY <2>1 DEF TypeInv, CountType, Counting
  <2>7. num >= Cardinality(Counting') + 0
    BY <2>3, <2>4, <2>5, <2>6
  <2> QED
    BY <2>1, <2>6, <2>7 DEF CountType, Counting
<1> QED
  BY <1>1, <1>3, <1>4, <1>5 DEF TypeInv

LEMMA RejoinType ==
    ASSUME TypeInv, NEW p \in Client, Rejoin(p)
    PROVE  TypeInv'
<1>1. PICK D \in Failing(connected) :
         /\ num' = num + 1 - Cardinality(D)
         /\ CheckGameState(num', IF D = {} THEN num' ELSE num)
         /\ connected' = (connected \ D) \cup {p}
         /\ beating' = (beating \ D) \cup {p}
         /\ IF connected \ D = {} /\ D # {}
            THEN /\ colourOf' = [q \in Client |-> NoColour]
                 /\ colors' = colors \cup {colourOf[q] : q \in User}
                 /\ disconnected' = {} /\ online' = {} /\ hasActor' = {}
            ELSE /\ disconnected' = (disconnected \ {p}) \cup D
                 /\ online' = (online \ D) \cup {p}
                 /\ UNCHANGED <<colourOf, colors, hasActor>>
  BY DEF Rejoin
<1>2. D \in SUBSET Counting /\ p \in User /\ gone' \subseteq gone
  BY DEF Failing, Counting, Rejoin
<1>3. UserTypes' /\ Counting' \subseteq (Counting \ D) \cup {p}
  <2>1. CASE connected \ D = {} /\ D # {}
    <3>1. colors' \subseteq Colour
      BY <1>1, <2>1 DEF TypeInv, UserTypes, User
    <3> QED
      BY <1>1, <1>2, <2>1, <3>1 DEF TypeInv, UserTypes, User, Counting
  <2>2. CASE ~(connected \ D = {} /\ D # {})
    BY <1>1, <1>2, <2>2 DEF TypeInv, UserTypes, User, Counting
  <2> QED
    BY <2>1, <2>2
<1>4. GameTypes'
  <2>1. task' \in {"off", "odd", "even"} /\ timerRunning' \in BOOLEAN /\ closing' \in BOOLEAN
    BY <1>1, CheckType DEF TypeInv
  <2> QED
    BY <2>1 DEF Rejoin, TypeInv, GameTypes
<1>5. LoginTypes' /\ Late = 0 /\ Late' = 0
  BY <1>3, SessionAssumption DEF Rejoin, TypeInv, LoginTypes, MonitorFree, loginVars, UserTypes, Late
<1>6. CountType'
  <2>1. IsFiniteSet(Counting) /\ Cardinality(Counting) \in Nat
    BY CountingType DEF TypeInv
  <2>2. /\ Cardinality(D) \in Nat
        /\ Cardinality(Counting \ D) = Cardinality(Counting) - Cardinality(D)
        /\ Cardinality(D) <= Cardinality(Counting)
    BY <1>2, <2>1, CountOfRest
  <2>3. IsFiniteSet(Counting \ D) /\ Cardinality(Counting \ D) \in Nat
    BY <2>1, FS_Difference, FS_CardinalityType
  <2>4. IsFiniteSet((Counting \ D) \cup {p})
        /\ Cardinality((Counting \ D) \cup {p}) \in Nat
    BY <2>3, FS_AddElement, FS_CardinalityType
  <2>5. Cardinality((Counting \ D) \cup {p}) <= Cardinality(Counting \ D) + 1
    <3>1. Cardinality((Counting \ D) \cup {p}) = IF p \in Counting \ D THEN Cardinality(Counting \ D)
                                                 ELSE Cardinality(Counting \ D) + 1
      BY <2>3, FS_AddElement
    <3>2. CASE p \in Counting \ D
      BY <2>3, <3>1, <3>2
    <3>3. CASE p \notin Counting \ D
      BY <2>3, <3>1, <3>3
    <3> QED
      BY <3>2, <3>3
  <2>6. Cardinality(Counting') \in Nat
        /\ Cardinality(Counting') <= Cardinality((Counting \ D) \cup {p})
    BY <1>3, <2>4, FS_Subset, FS_CardinalityType
  <2>7. num \in Nat /\ num >= Cardinality(Counting)
    BY <1>5, <2>1 DEF TypeInv, CountType, Counting
  <2>8. num' \in Nat /\ num' >= Cardinality(Counting') + 0
    BY <1>1, <2>1, <2>2, <2>3, <2>4, <2>5, <2>6, <2>7
  <2> QED
    BY <1>5, <2>8 DEF CountType, Counting
<1> QED
  BY <1>3, <1>4, <1>5, <1>6 DEF TypeInv

LEMMA LogoutType ==
    ASSUME TypeInv, NEW p \in Client, Logout(p)
    PROVE  TypeInv'
<1>1. PICK E \in Failing(connected \ {p}) :
         SignOut(E \cup {p}) /\ CountOut(num - Cardinality(E \cup {p}))
  BY DEF Logout
<1> DEFINE D == E \cup {p}
<1>2. D \in SUBSET Counting /\ gone' = gone /\ SignOut(D)
  BY <1>1 DEF Failing, Counting, Logout
<1>3. num' = num - Cardinality(D)
  BY <1>1 DEF CountOut
<1> HIDE DEF D
<1>4. UserTypes' /\ connected' \subseteq connected /\ Counting' \subseteq Counting \ D
  BY <1>2, SignOutType DEF TypeInv
<1>5. GameTypes'
  <2> DEFINE n == num - Cardinality(D)
  <2>1. CountOut(n)
    BY <1>1 DEF D
  <2> HIDE DEF n
  <2>2. CASE n = 0
    <3>1. task' \in {"off", "odd", "even"} /\ timerRunning' \in BOOLEAN
      BY <2>1, <2>2, TimerType DEF CountOut, TypeInv
    <3> QED
      BY <2>1, <2>2, <3>1 DEF CountOut, Clear, Logout, TypeInv, GameTypes
  <2>3. CASE n # 0
    <3>1. CheckGameState(n, num - 1) /\ UNCHANGED <<gameStarted, gameOver, playing, slaves>>
      BY <2>1, <2>3 DEF CountOut
    <3>2. task' \in {"off", "odd", "even"} /\ timerRunning' \in BOOLEAN /\ closing' \in BOOLEAN
      BY <3>1, CheckType DEF TypeInv
    <3> QED
      BY <3>1, <3>2 DEF Logout, TypeInv, GameTypes
  <2> QED
    BY <2>2, <2>3
<1>6. LoginTypes' /\ Late = 0 /\ Late' = 0
  BY <1>4, SessionAssumption DEF Logout, TypeInv, LoginTypes, MonitorFree, loginVars, UserTypes, Late
<1>7. CountType'
  <2>1. /\ Cardinality(D) \in Nat /\ Cardinality(Counting) \in Nat
        /\ Cardinality(Counting') \in Nat
        /\ Cardinality(D) + Cardinality(Counting') <= Cardinality(Counting)
    BY <1>2, <1>4, CountedOut DEF TypeInv
  <2>2. num \in Nat /\ num >= Cardinality(Counting)
    BY <1>6, <2>1 DEF TypeInv, CountType, Counting
  <2>3. num' \in Nat /\ num' >= Cardinality(Counting') + 0
    BY <1>3, <2>1, <2>2
  <2> QED
    BY <1>6, <2>3 DEF CountType, Counting
<1> QED
  BY <1>4, <1>5, <1>6, <1>7 DEF TypeInv

LEMMA LogoutUnknownType ==
    ASSUME TypeInv, NEW p \in Client, LogoutUnknown(p)
    PROVE  TypeInv'
<1>1. UserTypes'
  BY DEF LogoutUnknown, TypeInv, UserTypes, User, startVars
<1>2. GameTypes'
  BY DEF LogoutUnknown, TypeInv, GameTypes, gameVars, timerVars, startVars
<1>3. LoginTypes'
  BY DEF LogoutUnknown, TypeInv, LoginTypes, loginVars
<1>4. connected' \cap User' = connected \cap User /\ Late' = Late /\ num' = num
  BY DEF LogoutUnknown, User, Late, loginVars
<1> QED
  BY <1>1, <1>2, <1>3, <1>4 DEF TypeInv, CountType

\* The steps that leave the clients' logins and their count alone.
LEMMA OtherType ==
    ASSUME TypeInv, UNCHANGED <<userVars, loginVars, num>>, gone' \subseteq Client,
           hasActor' \subseteq User, GameTypes'
    PROVE  TypeInv'
<1>1. UserTypes'
  BY DEF TypeInv, UserTypes, User, userVars
<1>2. LoginTypes'
  BY DEF TypeInv, LoginTypes, userVars, loginVars
<1>3. connected' \cap User' = connected \cap User /\ Late' = Late /\ num' = num
  BY DEF User, Late, userVars, loginVars
<1> QED
  BY <1>1, <1>2, <1>3 DEF TypeInv, CountType

LEMMA StrikeType ==
    ASSUME TypeInv, NEW timer, Strike(timer)
    PROVE  TypeInv'
<1>1. GameTypes'
  BY DEF Strike, TypeInv, GameTypes, gameVars
<1> QED
  BY <1>1, OtherType DEF Strike, TypeInv, UserTypes

LEMMA StartType ==
    ASSUME TypeInv, StartStep
    PROVE  TypeInv'
<1>1. UNCHANGED <<userVars, loginVars, num>> /\ gone' = gone
  BY DEF StartStep, StartGame, BuildGame, CreateGame, CreateGameFails, Deal, DealFails, CloseTimer
<1>2. hasActor' \subseteq User
  BY DEF StartStep, StartGame, BuildGame, CreateGame, CreateGameFails, Deal, DealFails, CloseTimer,
     TypeInv, UserTypes
<1>3. num \in Nat
  BY DEF TypeInv, CountType
<1>4. CASE StartGame \/ BuildGame \/ CreateGame \/ CreateGameFails
  <2>1. GameTypes'
    BY <1>3, <1>4
    DEF StartGame, BuildGame, CreateGame, CreateGameFails, TypeInv, GameTypes, gameVars, timerVars
  <2> QED
    BY <1>1, <1>2, <2>1, OtherType DEF TypeInv, UserTypes
<1>5. CASE Deal \/ DealFails \/ CloseTimer
  <2>1. GameTypes'
    BY <1>5 DEF Deal, DealFails, CloseTimer, TimerClose, TypeInv, GameTypes, gameVars, timerVars
  <2> QED
    BY <1>1, <1>2, <2>1, OtherType DEF TypeInv, UserTypes
<1> QED
  BY <1>4, <1>5 DEF StartStep

LEMMA StepType == TypeInv /\ [Next]_vars => TypeInv'
<1> SUFFICES ASSUME TypeInv, [Next]_vars PROVE TypeInv'
  OBVIOUS
<1>1. ASSUME NEW p \in Client, Vanish(p) PROVE TypeInv'
  BY <1>1, OtherType
  DEF Vanish, TypeInv, UserTypes, GameTypes, User, gameVars, timerVars, startVars
<1>2. CASE EndGame
  BY <1>2, OtherType DEF EndGame, TypeInv, UserTypes, GameTypes, User, timerVars, startVars
<1>3. CASE UNCHANGED vars
  BY <1>3, OtherType DEF vars, TypeInv, UserTypes, GameTypes, User, gameVars, timerVars, startVars
<1> QED
  BY <1>1, <1>2, <1>3, RegisterType, EnterType, EnterRefusedType, AdmitType, RejoinType, LogoutType,
     LogoutUnknownType, StrikeType, StartType DEF Next, LoginStep, Heartbeat

LEMMA InitType == Init => TypeInv
<1> SUFFICES ASSUME Init PROVE TypeInv
  OBVIOUS
<1>1. UserTypes
  BY DEF Init, UserTypes, User
<1>2. GameTypes
  BY DEF Init, GameTypes
<1>3. LoginTypes
  BY DEF Init, LoginTypes
<1>4. CountType
  <2>1. connected \cap User = {} /\ Late = 0 /\ num = 0
    BY DEF Init, Late
  <2> QED
    BY <2>1, FS_EmptySet DEF CountType
<1> QED
  BY <1>1, <1>2, <1>3, <1>4 DEF TypeInv

\* The server's maps and lists keep their types whatever fails on the way: only
\* users are on line or have an actor, and the count of the players never falls
\* below zero, although clients that lost their users are never counted out.
\* (Database, MainController)
THEOREM TypeCorrect == Spec => []TypeOK
<1>1. TypeInv => TypeOK
  BY DEF TypeInv, TypeOK, UserTypes, GameTypes, LoginTypes, CountType
<1> QED
  BY <1>1, InitType, StepType, PTL DEF Spec

-----------------------------------------------------------------------------
(* The colours *)

LEMMA ColoursReset ==
    ASSUME TypeInv, ColoursHeld, colourOf' = [q \in Client |-> NoColour],
           colors' = colors \cup {colourOf[q] : q \in User}
    PROVE  ColoursHeld'
<1>1. User' = {}
  BY DEF User
<1>2. {colourOf[q] : q \in User} \subseteq Colour
  BY DEF TypeInv, UserTypes, User
<1>3. colors' = Colour
  BY <1>2 DEF ColoursHeld
<1> QED
  BY <1>1, <1>3 DEF ColoursHeld

LEMMA ColoursKept ==
    ASSUME ColoursHeld, UNCHANGED <<colourOf, colors>>
    PROVE  ColoursHeld'
BY DEF ColoursHeld, User

LEMMA ColoursSignOut ==
    ASSUME TypeInv, ColoursHeld, NEW D, SignOut(D)
    PROVE  ColoursHeld'
<1>1. CASE connected' = {}
  BY <1>1, ColoursReset DEF SignOut
<1>2. CASE connected' # {}
  BY <1>2, ColoursKept DEF SignOut
<1> QED
  BY <1>1, <1>2

LEMMA ColoursRegister ==
    ASSUME TypeInv, ColoursHeld, NEW p \in Client, Register(p)
    PROVE  ColoursHeld'
<1>1. PICK c \in colors : colourOf' = [colourOf EXCEPT ![p] = c] /\ colors' = colors \ {c}
  BY DEF Register
<1>2. c \in Colour /\ c # NoColour /\ p \notin User
  BY SessionAssumption DEF TypeInv, UserTypes, Register
<1>3. User' = User \cup {p} /\ colourOf'[p] = c /\ \A q \in User : colourOf'[q] = colourOf[q]
  BY <1>1, <1>2 DEF User, TypeInv, UserTypes
<1>4. \A q \in User : colourOf[q] # c
  BY DEF ColoursHeld
<1>5. \A q, r \in User' : colourOf'[q] = colourOf'[r] => q = r
  BY <1>3, <1>4 DEF ColoursHeld
<1>6. {colourOf'[q] : q \in User'} = {colourOf[q] : q \in User} \cup {c}
  BY <1>3
<1>7. colors' = Colour \ {colourOf'[q] : q \in User'}
  BY <1>1, <1>6 DEF ColoursHeld
<1> QED
  BY <1>5, <1>7 DEF ColoursHeld

LEMMA StepColours == TypeInv /\ ColoursHeld /\ [Next]_vars => ColoursHeld'
<1> SUFFICES ASSUME TypeInv, ColoursHeld, [Next]_vars PROVE ColoursHeld'
  OBVIOUS
<1>1. ASSUME NEW p \in Client, Enter(p) PROVE ColoursHeld'
  <2>1. PICK D \in Failing(connected) : IF D = {} THEN UNCHANGED userVars ELSE SignOut(D)
    BY <1>1 DEF Enter
  <2>2. CASE D = {}
    BY <2>1, <2>2, ColoursKept DEF userVars
  <2>3. CASE D # {}
    BY <2>1, <2>3, ColoursSignOut
  <2> QED
    BY <2>2, <2>3
<1>2. ASSUME NEW p \in Client, EnterRefused(p) \/ Admit(p) \/ LogoutUnknown(p) \/ Vanish(p)
      PROVE  ColoursHeld'
  BY <1>2, ColoursKept DEF EnterRefused, Admit, LogoutUnknown, Vanish, userVars
<1>3. ASSUME NEW p \in Client, Rejoin(p) PROVE ColoursHeld'
  <2>1. PICK D \in Failing(connected) :
           IF connected \ D = {} /\ D # {}
           THEN /\ colourOf' = [q \in Client |-> NoColour]
                /\ colors' = colors \cup {colourOf[q] : q \in User}
           ELSE UNCHANGED <<colourOf, colors>>
    BY <1>3 DEF Rejoin
  <2>2. CASE connected \ D = {} /\ D # {}
    BY <2>1, <2>2, ColoursReset
  <2>3. CASE ~(connected \ D = {} /\ D # {})
    BY <2>1, <2>3, ColoursKept
  <2> QED
    BY <2>2, <2>3
<1>4. ASSUME NEW p \in Client, Logout(p) PROVE ColoursHeld'
  BY <1>4, ColoursSignOut DEF Logout
<1>5. CASE StartStep \/ EndGame
  BY <1>5, ColoursKept
  DEF StartStep, StartGame, BuildGame, CreateGame, CreateGameFails, Deal, DealFails, CloseTimer,
      EndGame, userVars
<1>6. ASSUME NEW timer, Strike(timer) PROVE ColoursHeld'
  BY <1>6, ColoursKept DEF Strike, userVars
<1>7. CASE UNCHANGED vars
  BY <1>7, ColoursKept DEF vars, userVars
<1> QED
  BY <1>1, <1>2, <1>3, <1>4, <1>5, <1>6, <1>7, ColoursRegister DEF Next, LoginStep, Heartbeat

\* Every colour is free or held by exactly one user, whoever registers, fails to
\* log in, leaves, or is forgotten with the whole server.  (Database.login, clearAll)
THEOREM ColoursAreHeld == Spec => []ColoursHeld
<1>1. Init => ColoursHeld
  BY DEF Init, ColoursHeld, User
<1> QED
  BY <1>1, InitType, StepType, StepColours, PTL DEF Spec

-----------------------------------------------------------------------------
(* All clients on RMI *)

Rmi == socket = {} /\ TypeInv /\ TokenInv /\ StartInv /\ EmptyInv

\* Nobody fails while he is told of somebody else.
LEMMA NobodyFails ==
    ASSUME socket = {}, NEW S
    PROVE  Failing(S) = {{}}
BY DEF Failing

LEMMA EnteredIsFinite ==
    ASSUME TypeInv
    PROVE  /\ Entered \subseteq Client /\ IsFiniteSet(Entered)
           /\ IsFiniteSet(connected) /\ Cardinality(connected) \in Nat
<1>1. Entered \subseteq Client /\ connected \subseteq Client
  BY DEF Entered, TypeInv, UserTypes, LoginTypes
<1> QED
  BY <1>1, SessionAssumption, FS_Subset, FS_CardinalityType

\* A free monitor counts the connected tokens.
LEMMA FreeCount ==
    ASSUME TypeInv, MonitorFree
    PROVE  stage = "free" /\ Entered = connected
BY DEF TypeInv, LoginTypes, MonitorFree, Entered

LEMMA OneMore ==
    ASSUME TypeInv, NEW p, p \notin connected
    PROVE  Cardinality(connected \cup {p}) = Cardinality(connected) + 1
BY EnteredIsFinite, FS_AddElement

LEMMA RegisterRmi ==
    ASSUME Rmi, NEW p \in Client, Register(p)
    PROVE  TokenInv' /\ StartInv' /\ EmptyInv'
<1>1. PICK c \in colors : colourOf' = [colourOf EXCEPT ![p] = c]
  BY DEF Register
<1>2. c # NoColour
  BY SessionAssumption DEF Rmi, TypeInv, UserTypes
<1>3. User' = User \cup {p}
  BY <1>1, <1>2 DEF User, Rmi, TypeInv, UserTypes
<1>4. Entered = connected /\ Entered' = connected /\ connected' = connected
  BY FreeCount DEF Register, Rmi, Entered
<1>5. TokenInv'
  BY <1>3, <1>4 DEF Register, Rmi, TokenInv
<1>6. StartInv'
  BY DEF Register, Rmi, StartInv, gameVars, timerVars, startVars, StartUnderWay
<1>7. EmptyInv'
  <2>1. Entered = {} => User = {} /\ slaves = {}
    BY SessionAssumption
    DEF Register, Rmi, EmptyInv, MonitorFree, TypeInv, GameTypes, User
  <2> QED
    BY <1>3, <1>4, <2>1 DEF Register, Rmi, EmptyInv, gameVars, startVars
<1> QED
  BY <1>5, <1>6, <1>7

LEMMA EnterRmi ==
    ASSUME Rmi, NEW p \in Client, Enter(p)
    PROVE  TokenInv' /\ StartInv' /\ EmptyInv'
<1>1. num' = num + 1 /\ UNCHANGED <<userVars, timerVars, closing, hasActor>>
  <2>1. PICK D \in Failing(connected) :
           /\ num' = num + 1 - Cardinality(D)
           /\ IF D = {} THEN UNCHANGED <<userVars, timerVars, closing, hasActor>>
              ELSE SignOut(D) /\ CheckGameState(num', num)
    BY DEF Enter
  <2>2. D = {} /\ Cardinality(D) = 0
    BY NobodyFails, FS_EmptySet DEF Rmi
  <2>3. num \in Nat
    BY DEF Rmi, TypeInv, CountType
  <2> QED
    BY <2>1, <2>2, <2>3
<1>2. User' = User /\ p \notin connected /\ connected' = connected /\ disconnected' = disconnected
  BY <1>1 DEF userVars, User, Enter, Rmi, TypeInv, LoginTypes
<1>3. Entered = connected /\ Entered' = connected \cup {p}
  BY <1>2 DEF Entered, Enter
<1>4. TokenInv'
  <2>1. num' = Cardinality(Entered')
    BY <1>1, <1>2, <1>3, OneMore DEF Rmi, TokenInv
  <2> QED
    BY <1>1, <1>2, <2>1 DEF Rmi, TokenInv, Enter, userVars
<1>5. Stray' \subseteq Stray
  BY <1>2, <1>3 DEF Stray
<1>6. ~StartUnderWay /\ starter' = starter /\ UNCHANGED <<timerVars, gameStarted, gameOver, playing>>
  BY <1>1, SessionAssumption DEF Enter, Rmi, StartInv
<1>7. num >= MinPlayer => num' >= MinPlayer
  BY <1>1, SessionAssumption DEF Rmi, TypeInv, CountType
<1>8. StartInv'
  BY <1>5, <1>6, <1>7 DEF StartInv, StartUnderWay, Rmi, timerVars
<1>9. EmptyInv'
  BY <1>3 DEF EmptyInv
<1> QED
  BY <1>4, <1>8, <1>9

LEMMA EnterRefusedRmi ==
    ASSUME Rmi, NEW p \in Client, EnterRefused(p)
    PROVE  TokenInv' /\ StartInv' /\ EmptyInv'
<1>1. User' = User /\ Entered = connected /\ Entered' = connected
      /\ connected' = connected /\ disconnected' = disconnected
  BY DEF EnterRefused, User, Entered, userVars
<1>2. Entered = {} => gameStarted
  <2> SUFFICES ASSUME Entered = {} PROVE gameStarted
    OBVIOUS
  <2>1. ~gameOver
    BY DEF Rmi, EmptyInv
  <2>2. num = 0
    BY FS_EmptySet DEF Rmi, TokenInv
  <2> QED
    BY <2>1, <2>2, SessionAssumption DEF EnterRefused
<1>3. TokenInv'
  BY <1>1 DEF Rmi, TokenInv, EnterRefused, userVars
<1>4. Stray' = Stray
  BY <1>1 DEF Stray
<1>5. StartInv'
  <2>1. StartUnderWay => gameStarted
    BY SessionAssumption DEF Rmi, StartInv, EnterRefused
  <2>2. UNCHANGED <<num, task, timerRunning, gameStarted, gameOver, playing, starter, built, User>>
    BY <1>1 DEF EnterRefused, gameVars, timerVars, startVars
  <2> QED
    BY <1>4, <2>1, <2>2 DEF Rmi, StartInv, StartUnderWay
<1>6. EmptyInv'
  BY <1>1, <1>2 DEF EnterRefused, Rmi, EmptyInv, gameVars, startVars
<1> QED
  BY <1>3, <1>5, <1>6

\* What checkGameState leaves of the start timer.
LEMMA CheckRmi ==
    ASSUME Rmi, NEW n \in Nat, NEW m, CheckTimer(n, m)
    PROVE  /\ task' # "off" => timerRunning'
           /\ starter = "idle" /\ timerRunning' => ~gameStarted /\ n >= MinPlayer
<1>1. CASE gameStarted
  BY <1>1 DEF CheckTimer, timerVars, Rmi, StartInv
<1>2. CASE ~gameStarted /\ n < MinPlayer
  BY <1>2, SessionAssumption DEF CheckTimer, TimerClose, timerVars, Rmi, StartInv
<1>3. CASE ~gameStarted /\ ~(n < MinPlayer)
  <2>1. n >= MinPlayer
    BY <1>3, SessionAssumption
  <2> QED
    BY <1>3, <2>1 DEF CheckTimer, TimerStart, timerVars, Rmi, StartInv
<1> QED
  BY <1>1, <1>2, <1>3

LEMMA AdmitRmi ==
    ASSUME Rmi, NEW p \in Client, Admit(p)
    PROVE  TokenInv' /\ StartInv' /\ EmptyInv'
<1>1. User' = User /\ Entered = connected \cup {p} /\ Entered' = connected \cup {p}
      /\ connected' = connected \cup {p} /\ disconnected' = disconnected
  BY DEF Admit, User, Entered
<1>2. p \in User \ disconnected
  BY SessionAssumption DEF Admit, Rmi, TokenInv
<1>3. TokenInv'
  BY <1>1, <1>2 DEF Rmi, TokenInv, Admit
<1>4. Stray' = Stray
  BY <1>1 DEF Stray
<1>5. /\ task' # "off" => timerRunning'
      /\ starter = "idle" /\ timerRunning' => ~gameStarted /\ num >= MinPlayer
  BY CheckRmi DEF Admit, CheckGameState, Rmi, TypeInv, CountType
<1>6. StartInv'
  <2>1. StartUnderWay => gameStarted
    BY SessionAssumption DEF Rmi, StartInv, Admit
  <2>2. UNCHANGED <<num, gameStarted, gameOver, playing, starter, built, User>>
    BY <1>1 DEF Admit, startVars
  <2> QED
    BY <1>4, <1>5, <2>1, <2>2 DEF Rmi, StartInv, StartUnderWay
<1>7. EmptyInv'
  BY <1>1 DEF EmptyInv
<1> QED
  BY <1>3, <1>6, <1>7

LEMMA RejoinRmi ==
    ASSUME Rmi, NEW p \in Client, Rejoin(p)
    PROVE  TokenInv' /\ StartInv' /\ EmptyInv'
<1>1. /\ num' = num + 1
      /\ CheckGameState(num', num')
      /\ connected' = connected \cup {p}
      /\ beating' = beating \cup {p}
      /\ disconnected' = disconnected \ {p}
      /\ online' = online \cup {p}
      /\ UNCHANGED <<colourOf, colors, hasActor>>
  <2>1. PICK D \in Failing(connected) :
          /\ num' = num + 1 - Cardinality(D)
          /\ CheckGameState(num', IF D = {} THEN num' ELSE num)
          /\ connected' = (connected \ D) \cup {p}
          /\ beating' = (beating \ D) \cup {p}
          /\ ~(connected \ D = {} /\ D # {}) =>
                /\ disconnected' = (disconnected \ {p}) \cup D
                /\ online' = (online \ D) \cup {p}
                /\ UNCHANGED <<colourOf, colors, hasActor>>
    BY DEF Rejoin
  <2>2. D = {} /\ Cardinality(D) = 0
    BY NobodyFails, FS_EmptySet DEF Rmi
  <2>3. num \in Nat
    BY DEF Rmi, TypeInv, CountType
  <2>4. num' = num + 1
    BY <2>1, <2>2, <2>3
  <2>5. CheckGameState(num', num')
    BY <2>1, <2>2
  <2> QED
    BY <2>1, <2>2, <2>4, <2>5
<1>2. User' = User /\ p \in User /\ p \notin connected /\ MonitorFree
  BY <1>1 DEF User, Rejoin, Rmi, TokenInv
<1>3. Entered = connected /\ Entered' = connected \cup {p}
  BY <1>1, <1>2, FreeCount DEF Rmi, Rejoin, loginVars, Entered
<1>4. TokenInv'
  <2>1. num' = Cardinality(Entered')
    BY <1>1, <1>2, <1>3, OneMore DEF Rmi, TokenInv
  <2> QED
    BY <1>1, <1>2, <2>1, SessionAssumption DEF Rmi, TokenInv, Rejoin, loginVars, MonitorFree
<1>5. Stray' = Stray
  BY <1>1, <1>2, <1>3 DEF Stray, Rejoin
<1>6. /\ task' # "off" => timerRunning'
      /\ starter = "idle" /\ timerRunning' => ~gameStarted /\ num' >= MinPlayer
  <2>1. num' \in Nat
    BY <1>1 DEF Rmi, TypeInv, CountType
  <2>2. CheckTimer(num', num')
    BY <1>1 DEF CheckGameState
  <2> QED
    BY <2>1, <2>2, CheckRmi
<1>7. StartUnderWay => gameStarted
  BY <1>2 DEF Rmi, StartInv
<1>8. StartInv'
  BY <1>2, <1>5, <1>6, <1>7 DEF Rmi, StartInv, Rejoin, StartUnderWay
<1>9. EmptyInv'
  BY <1>3 DEF EmptyInv
<1> QED
  BY <1>4, <1>8, <1>9

LEMMA LogoutRmi ==
    ASSUME Rmi, NEW p \in Client, Logout(p)
    PROVE  TokenInv' /\ StartInv' /\ EmptyInv'
<1>1. SignOut({p}) /\ CountOut(num - 1) /\ num' = num - 1
  <2>1. PICK D \in Failing(connected \ {p}) :
           SignOut(D \cup {p}) /\ CountOut(num - Cardinality(D \cup {p}))
    BY DEF Logout
  <2>2. D = {}
    BY NobodyFails DEF Rmi
  <2>3. D \cup {p} = {p} /\ Cardinality({p}) = 1
    BY <2>2, FS_Singleton
  <2>4. SignOut({p}) /\ CountOut(num - 1)
    BY <2>1, <2>3
  <2> QED
    BY <2>4 DEF CountOut
<1>2. /\ p \in connected \cap User /\ MonitorFree
      /\ connected' = connected \ {p} /\ beating' = beating \ {p}
  BY <1>1 DEF Logout, SignOut
<1>3. Entered = connected /\ Entered' = connected' /\ entering' = NoOne
  BY <1>2, FreeCount DEF Rmi, Logout, loginVars, Entered, MonitorFree
<1>4. num' = Cardinality(Entered') /\ num' \in Nat /\ IsFiniteSet(connected')
  <2>1. Cardinality(connected \ {p}) = Cardinality(connected) - 1 /\ IsFiniteSet(connected \ {p})
    BY <1>2, EnteredIsFinite, FS_RemoveElement DEF Rmi
  <2>2. num' = Cardinality(Entered')
    BY <1>1, <1>2, <1>3, <2>1 DEF Rmi, TokenInv
  <2> QED
    BY <1>2, <1>3, <2>1, <2>2, FS_CardinalityType
<1>5. num' = 0 <=> connected' = {}
  BY <1>3, <1>4, FS_EmptySet
<1>6. StartUnderWay => gameStarted
  BY <1>2 DEF Rmi, StartInv
<1>7. starter' = starter /\ built' = built
  BY DEF Logout
<1>8. /\ task' # "off" => timerRunning'
      /\ starter = "idle" /\ timerRunning' => ~gameStarted /\ num' >= MinPlayer
  <2>1. PICK n, m : CheckTimer(n, m) /\ num' = n
    <3>1. CASE num' = 0
      BY <1>1, <3>1 DEF CountOut
    <3>2. CASE num' # 0
      BY <1>1, <1>4, <3>2 DEF CountOut, CheckGameState
    <3> QED
      BY <3>1, <3>2
  <2> QED
    BY <1>4, <2>1, CheckRmi
<1>9. CASE connected' = {}
  <2>1. User' = {} /\ disconnected' = {} /\ online' = {}
    BY <1>1, <1>9 DEF SignOut, User
  <2>2. Clear
    BY <1>1, <1>5, <1>9 DEF CountOut
  <2>3. TokenInv'
    BY <1>2, <1>3, <1>4, <1>9, <2>1 DEF TokenInv, Rmi
  <2>4. Stray' = {}
    BY <2>1 DEF Stray
  <2>5. StartInv'
    BY <1>3, <1>7, <1>8, <2>1, <2>2, <2>4 DEF StartInv, Clear
  <2>6. EmptyInv'
    BY <2>1, <2>2 DEF EmptyInv, Clear
  <2> QED
    BY <2>3, <2>5, <2>6
<1>10. CASE connected' # {}
  <2>1. /\ disconnected' = disconnected \cup {p} /\ online' = online \ {p}
        /\ User' = User
    BY <1>1, <1>10 DEF SignOut, User
  <2>2. UNCHANGED <<gameStarted, gameOver, playing, slaves>>
    BY <1>1, <1>5, <1>10 DEF CountOut
  <2>3. TokenInv'
    BY <1>2, <1>3, <1>4, <2>1 DEF TokenInv, Rmi
  <2>4. Stray' = Stray
    BY <1>2, <1>3, <2>1 DEF Stray
  <2>5. StartInv'
    BY <1>6, <1>7, <1>8, <2>1, <2>2, <2>4 DEF StartInv, StartUnderWay, Rmi
  <2>6. EmptyInv'
    BY <1>3, <1>10 DEF EmptyInv
  <2> QED
    BY <2>3, <2>5, <2>6
<1> QED
  BY <1>9, <1>10

\* A game that is built for no more users than have entered leaves no user out.
LEMMA BuildRmi ==
    ASSUME Rmi, Cardinality(User) <= num
    PROVE  Stray = {}
<1>1. Entered \subseteq User
  BY DEF Entered, Rmi, TokenInv, TypeInv, LoginTypes
<1>2. IsFiniteSet(User)
  BY SessionAssumption, FS_Subset DEF User
<1>3. Cardinality(Entered) <= Cardinality(User)
  BY <1>1, <1>2, FS_Subset
<1>4. Cardinality(Entered) \in Nat /\ Cardinality(User) \in Nat
  BY <1>2, EnteredIsFinite, FS_CardinalityType DEF Rmi
<1>5. Cardinality(Entered) = Cardinality(User)
  BY <1>3, <1>4 DEF Rmi, TokenInv
<1>6. Entered = User
  BY <1>1, <1>2, <1>5, FS_Subset
<1> QED
  BY <1>6 DEF Stray

\* Nobody is asked to play on a server that has emptied meanwhile.
LEMMA DealRmi ==
    ASSUME Rmi, Deal
    PROVE  gameStarted /\ Stray = {} /\ Entered # {}
<1>1. starter = "dealing" /\ StartUnderWay /\ slaves # {} /\ slaves \subseteq hasActor
  BY DEF Deal, DealPossible, StartUnderWay
<1>2. gameStarted /\ Stray = {}
  BY <1>1 DEF Rmi, StartInv
<1>3. hasActor \subseteq User
  BY DEF Rmi, TypeInv, UserTypes
<1>4. ASSUME Entered = {} PROVE FALSE
  <2>1. User = {}
    BY <1>2, <1>4 DEF Rmi, EmptyInv, Stray
  <2> QED
    BY <1>1, <1>3, <2>1
<1> QED
  BY <1>2, <1>4

LEMMA StartRmi ==
    ASSUME Rmi, StartStep \/ \E timer \in {"odd", "even"} : Strike(timer)
    PROVE  TokenInv' /\ StartInv' /\ EmptyInv'
<1>1. UNCHANGED <<userVars, loginVars, num, slaves, gameOver, closing>>
  BY DEF StartStep, Strike, StartGame, BuildGame, CreateGame, CreateGameFails, Deal, DealFails,
     CloseTimer, gameVars
<1>2. User' = User /\ Entered' = Entered /\ Stray' = Stray /\ entering' = entering
  BY <1>1 DEF User, Entered, Stray, userVars, loginVars
<1>3. TokenInv'
  BY <1>1, <1>2 DEF Rmi, TokenInv, userVars, loginVars
<1>4. ASSUME NEW timer \in {"odd", "even"}, Strike(timer) PROVE StartInv' /\ EmptyInv'
  <2>1. task' = "off" /\ starter' = "struck" /\ UNCHANGED <<gameStarted, playing, timerRunning>>
    BY <1>4 DEF Strike, gameVars
  <2> QED
    BY <1>1, <1>2, <2>1 DEF Rmi, StartInv, EmptyInv, StartUnderWay, userVars
<1>5. CASE StartGame
  <2>1. starter' = "started" /\ gameStarted' = TRUE /\ UNCHANGED <<playing, task, timerRunning>>
    BY <1>5 DEF StartGame, timerVars
  <2> QED
    BY <1>1, <1>2, <1>3, <2>1 DEF Rmi, StartInv, EmptyInv, StartUnderWay, userVars
<1>6. CASE BuildGame
  <2>1. /\ starter = "started" /\ starter' = "building" /\ built' = num
        /\ UNCHANGED <<gameStarted, playing, task, timerRunning>>
    BY <1>6 DEF BuildGame, gameVars, timerVars
  <2>2. Cardinality(User') <= built' => Stray' = {}
    BY <1>2, <2>1, BuildRmi
  <2>3. StartInv'
    BY <1>1, <1>2, <2>1, <2>2 DEF Rmi, StartInv, StartUnderWay
  <2>4. EmptyInv'
    BY <1>1, <1>2, <2>1 DEF Rmi, EmptyInv, userVars
  <2> QED
    BY <1>3, <2>3, <2>4
<1>7. CASE CreateGame
  <2>1. /\ starter = "building" /\ starter' = "dealing"
        /\ UNCHANGED <<gameStarted, playing, task, timerRunning, built>>
    BY <1>7 DEF CreateGame, gameVars, timerVars
  <2>2. gameStarted => Stray = {}
    BY <1>7, <2>1 DEF CreateGame, Rmi, StartInv
  <2>3. StartInv'
    BY <1>1, <1>2, <2>1, <2>2 DEF Rmi, StartInv, StartUnderWay
  <2>4. EmptyInv'
    BY <1>1, <1>2, <2>1 DEF Rmi, EmptyInv, userVars
  <2> QED
    BY <1>3, <2>3, <2>4
<1>8. CASE CreateGameFails \/ DealFails
  <2>1. starter' = "failed" /\ UNCHANGED <<gameStarted, playing, task, timerRunning>>
    BY <1>8 DEF CreateGameFails, DealFails, gameVars, timerVars
  <2>2. StartInv'
    BY <1>1, <1>2, <2>1 DEF Rmi, StartInv, StartUnderWay
  <2>3. EmptyInv'
    BY <1>1, <1>2, <2>1 DEF Rmi, EmptyInv, userVars
  <2> QED
    BY <1>3, <2>2, <2>3
<1>9. CASE Deal
  <2>1. gameStarted /\ Stray = {} /\ Entered # {}
    BY <1>9, DealRmi
  <2>2. starter' = "dealt" /\ UNCHANGED <<gameStarted, task, timerRunning>>
    BY <1>9 DEF Deal, timerVars
  <2>3. StartInv'
    BY <1>1, <1>2, <2>1, <2>2 DEF Rmi, StartInv, StartUnderWay
  <2>4. EmptyInv'
    BY <1>2, <2>1 DEF EmptyInv
  <2> QED
    BY <1>3, <2>3, <2>4
<1>10. CASE CloseTimer
  <2>1. /\ starter = "dealt" /\ starter' = "idle" /\ task' = "off" /\ timerRunning' = FALSE
        /\ UNCHANGED <<gameStarted, playing>>
    BY <1>10 DEF CloseTimer, TimerClose, gameVars
  <2>2. StartInv'
    BY <1>1, <1>2, <2>1 DEF Rmi, StartInv, StartUnderWay
  <2>3. EmptyInv'
    BY <1>1, <1>2, <2>1 DEF Rmi, EmptyInv, userVars
  <2> QED
    BY <1>3, <2>2, <2>3
<1> QED
  BY <1>3, <1>4, <1>5, <1>6, <1>7, <1>8, <1>9, <1>10 DEF StartStep

LEMMA StillRmi ==
    ASSUME Rmi, UNCHANGED <<userVars, loginVars, num, slaves, gameStarted, closing, timerVars, startVars>>,
           playing' => playing, gameOver' => gameOver \/ playing
    PROVE  TokenInv' /\ StartInv' /\ EmptyInv'
<1>1. User' = User /\ Entered' = Entered /\ Stray' = Stray
  BY DEF User, Entered, Stray, userVars, loginVars
<1>2. TokenInv'
  BY <1>1 DEF Rmi, TokenInv, userVars, loginVars
<1>3. StartInv'
  BY <1>1 DEF Rmi, StartInv, StartUnderWay, timerVars, startVars, loginVars
<1>4. EmptyInv'
  BY <1>1 DEF Rmi, EmptyInv, userVars, loginVars, startVars
<1> QED
  BY <1>2, <1>3, <1>4

LEMMA StepRmi == TypeInv /\ RmiInv /\ [Next]_vars => RmiInv'
<1> SUFFICES ASSUME TypeInv, RmiInv, [Next]_vars, socket' = {}
             PROVE  TokenInv' /\ StartInv' /\ EmptyInv'
  BY DEF RmiInv
<1>1. socket' = socket
  BY DEF Next, LoginStep, Heartbeat, Register, Enter, EnterRefused, Admit, Rejoin, Logout,
     LogoutUnknown, Vanish, Strike, StartStep, StartGame, BuildGame, CreateGame, CreateGameFails,
     Deal, DealFails, CloseTimer, EndGame, vars
<1>2. Rmi
  BY <1>1 DEF RmiInv, Rmi
<1>3. ASSUME NEW p \in Client PROVE ~LogoutUnknown(p)
  BY <1>2 DEF LogoutUnknown, Rmi, TokenInv
<1>4. CASE StartStep \/ \E timer \in {"odd", "even"} : Strike(timer)
  BY <1>2, <1>4, StartRmi
<1>5. ASSUME NEW p \in Client, Vanish(p) PROVE TokenInv' /\ StartInv' /\ EmptyInv'
  BY <1>2, <1>5, StillRmi DEF Vanish, gameVars
<1>6. CASE EndGame
  BY <1>2, <1>6, StillRmi DEF EndGame
<1>7. CASE UNCHANGED vars
  BY <1>2, <1>7, StillRmi DEF vars, gameVars
<1> QED
  BY <1>2, <1>3, <1>4, <1>5, <1>6, <1>7, RegisterRmi, EnterRmi, EnterRefusedRmi, AdmitRmi,
     RejoinRmi, LogoutRmi DEF Next, LoginStep, Heartbeat

LEMMA InitRmi == Init => RmiInv
<1> SUFFICES ASSUME Init PROVE TokenInv /\ StartInv /\ EmptyInv
  BY DEF RmiInv
<1>1. User = {} /\ Entered = {}
  BY DEF Init, User, Entered
<1>2. TokenInv
  BY <1>1, FS_EmptySet DEF Init, TokenInv
<1> QED
  BY <1>1, <1>2 DEF Init, StartInv, EmptyInv, StartUnderWay

\* With all clients on RMI the count of the players, the heartbeats and the players
\* on line never part from the tokens that Database holds, however logins, logouts
\* and the steps of the timer's thread interleave.  When the last player has left,
\* no user, token, game or timer is left of him, save what a start of the game that
\* was under way leaves: there may be a game started for nobody.
\* (Database.login and logout, MainController.logout, clear and startGame)
THEOREM ServerIsConsistent == Spec => []ServerAgrees
<1>1. TypeInv /\ RmiInv => ServerAgrees
  <2> SUFFICES ASSUME TypeInv, RmiInv, MonitorFree, socket = {}
               PROVE  CountsAgree /\ OnlineIsConnected /\ FreshServer
    BY DEF ServerAgrees
  <2>1. Entered = connected /\ TokenInv /\ StartInv /\ EmptyInv /\ entering = NoOne
    BY FreeCount DEF RmiInv, MonitorFree
  <2>2. CountsAgree
    BY <2>1 DEF CountsAgree, TokenInv, TokensKnown
  <2>3. OnlineIsConnected
    <3> SUFFICES ASSUME playing PROVE online = connected
      BY DEF OnlineIsConnected
    <3>1. Stray = {}
      BY <2>1 DEF StartInv
    <3> QED
      BY <2>1, <3>1 DEF Stray, TokenInv
  <2>4. FreshServer
    <3> SUFFICES ASSUME connected = {}
                 PROVE  /\ num = 0 /\ disconnected = {} /\ ~gameOver /\ ~closing /\ ~playing
                        /\ ~gameStarted => User = {} /\ slaves = {}
                        /\ starter = "idle" => ~gameStarted /\ task = "off" /\ ~timerRunning
      BY DEF FreshServer
    <3>1. num = 0
      BY <2>1, FS_EmptySet DEF TokenInv
    <3>2. ~gameStarted => User = {} /\ slaves = {}
      BY <2>1, SessionAssumption DEF EmptyInv, TypeInv, GameTypes, User
    <3>3. disconnected = {} /\ ~gameOver /\ ~closing /\ ~playing
      BY <2>1 DEF EmptyInv
    <3>4. starter = "idle" => ~timerRunning
      BY <2>1, <3>1, SessionAssumption DEF StartInv
    <3>5. starter = "idle" => ~gameStarted /\ task = "off" /\ ~timerRunning
      BY <2>1, <3>4 DEF StartInv, EmptyInv
    <3> QED
      BY <3>1, <3>2, <3>3, <3>5
  <2> QED
    BY <2>2, <2>3, <2>4
<1> QED
  BY <1>1, InitType, InitRmi, StepType, StepRmi, PTL DEF Spec
=============================================================================
