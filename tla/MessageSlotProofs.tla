------------------------- MODULE MessageSlotProofs -------------------------
(***************************************************************************)
(* Proofs about both ends of a question: the slot on the server            *)
(* (MessageSlot), for every number of questions, handler threads, and      *)
(* choice of unguarded questions, and the client that polls for it         *)
(* (ClientPolling).                                                        *)
(***************************************************************************)
EXTENDS MessageSlot, ClientPolling, SequenceTheorems, TLAPS

-----------------------------------------------------------------------------
(* Type correctness *)

\* A thread that serves a request is busy with a question.
BusyWithQuestion == \A h \in Handler : pc[h] # "idle" => msg[h] \in Message

TypeInv == TypeOK /\ BusyWithQuestion

\* A fresh slot is well typed, and no handler is busy without a question.
LEMMA InitTypeInv == Init => TypeInv
<1> SUFFICES ASSUME Init PROVE TypeInv
  OBVIOUS
<1>1. 0 \in 0..MaxMessage
  BY SlotAssumption
<1> QED BY <1>1 DEF Init, TypeInv, TypeOK, BusyWithQuestion, HandlerPC, TimerPC

\* Every step of the game, of a handler or of a deadline task keeps the types,
\* and a handler never leaves idle without a question of the slot or the cache.
LEMMA StepTypeInv == TypeInv /\ [Next]_vars => TypeInv'
<1> SUFFICES ASSUME TypeInv, [Next]_vars PROVE TypeInv'
  OBVIOUS
<1> USE DEF TypeInv, TypeOK, BusyWithQuestion, slotVars, lockVars, handlerVars
<1>1. CASE Ask \/ AskOffline
  <2>1. issued + 1 \in 0..MaxMessage
    BY <1>1, SlotAssumption DEF Ask, AskOffline, Message
  <2> QED BY <1>1, <2>1 DEF Ask, AskOffline, TimerPC
<1>2. CASE Disconnect \/ Reconnect
  BY <1>2 DEF Disconnect, Reconnect
<1>3. ASSUME NEW h \in Handler, Serve(h) PROVE TypeInv'
  <2>1. CASE PollRead(h)
    BY <2>1 DEF PollRead, HandlerPC
  <2>2. CASE PollPut(h) \/ PickMore(h)
    BY <2>2 DEF PollPut, PickMore, Put, HandlerPC
  <2>3. CASE PickFind(h) \/ Reply(h)
    BY <2>3 DEF PickFind, Reply, HandlerPC
  <2>4. CASE TryLock(h) \/ TryLockFails(h)
    BY <2>4 DEF TryLock, TryLockFails, HandlerPC
  <2>5. CASE CheckAccepts(h) \/ CheckRefuses(h) \/ SetWait(h)
    BY <2>5 DEF CheckAccepts, CheckRefuses, SetWait, HandlerPC
  <2>6. CASE Continue(h)
    BY <2>6 DEF Continue, HandlerPC
  <2>7. CASE DropWeapon(h) \/ TeleportAgain(h)
    BY <2>7 DEF DropWeapon, TeleportAgain, HandlerPC
  <2> QED BY <1>3, <2>1, <2>2, <2>3, <2>4, <2>5, <2>6, <2>7 DEF Serve
<1>4. ASSUME NEW k \in Message, Deadline(k) PROVE TypeInv'
  <2>1. CASE Fire(k) \/ FireDropped(k) \/ DeadlineHits(k) \/ DeadlineMisses(k)
    BY <2>1 DEF Fire, FireDropped, DeadlineHits, DeadlineMisses, TimerPC
  <2>2. CASE Expire(k) \/ Release(k)
    BY <2>2 DEF Expire, Release, TimerPC
  <2> QED BY <1>4, <2>1, <2>2 DEF Deadline
<1>5. CASE UNCHANGED vars
  BY <1>5 DEF vars
<1> QED BY <1>1, <1>2, <1>3, <1>4, <1>5 DEF Next, Game

\* Every variable of the slot stays in its type, whatever the threads do.
THEOREM TypeCorrect == Spec => []TypeOK
<1>1. TypeInv => TypeOK
  BY DEF TypeInv
<1> QED BY <1>1, InitTypeInv, StepTypeInv, PTL DEF Spec

-----------------------------------------------------------------------------
(* A guarded question carries the game on at most once *)

\* The lock: a handler between tryLock and unlock owns it, and so does a
\* deadline task between tryLock and unlock.
HandlerInside(h) == pc[h] \in {"locked", "passed", "set"}
TaskInside(k) == timer[k] \in {"checking", "expired", "release"}
LockOwned ==
    /\ \A h \in Handler : HandlerInside(h) => lock = h
    /\ \A k \in Message : TaskInside(k) => lock = k

\* Questions beyond the last one issued have not been touched.
Fresh ==
    /\ current <= issued
    /\ \A h \in Handler : pc[h] \in {"passed", "set"} => msg[h] <= issued
    /\ \A k \in Message : k > issued => timer[k] = "off"

\* A handler that took its question out of the slot does not find it there
\* again.
TakenOut == \A h \in Handler : pc[h] = "set" => current # msg[h]

\* A question that carried the game on can not do it again: it has left the
\* slot, and nobody is between finding it there and starting a thread.
Guarded == Message \ (Unguarded \cup Teleports)
Spent(k) ==
    /\ k <= issued
    /\ current # k
    /\ \A h \in Handler : pc[h] \in {"passed", "set"} => msg[h] # k
    /\ timer[k] # "expired"
SpentOnce == \A k \in Guarded : calls[k] = 0 \/ (calls[k] = 1 /\ Spent(k))

OnceInv == TypeInv /\ LockOwned /\ Fresh /\ TakenOut /\ SpentOnce

\* A fresh slot satisfies the invariant on which GuardedOnce rests.
LEMMA InitOnceInv == Init => OnceInv
<1> SUFFICES ASSUME Init PROVE OnceInv
  OBVIOUS
<1>1. TypeInv
  BY InitTypeInv
<1> QED BY <1>1, SlotAssumption
     DEF Init, OnceInv, LockOwned, HandlerInside, TaskInside, Fresh, TakenOut,
         SpentOnce, Spent, Guarded, Message, Wait

\* Between tryLock and unlock a thread owns lockMessageSet: nobody else's step
\* takes the lock away from a handler inside setControllerMessage or from a task.
LEMMA StepLockOwned == TypeInv /\ LockOwned /\ [Next]_vars => LockOwned'
<1> SUFFICES ASSUME TypeInv, LockOwned, [Next]_vars PROVE LockOwned'
  OBVIOUS
<1> USE SlotAssumption DEF TypeInv, TypeOK, LockOwned, HandlerInside, TaskInside,
        slotVars, lockVars, handlerVars
<1>1. CASE Ask
  BY <1>1 DEF Ask
<1>2. CASE AskOffline \/ Disconnect \/ Reconnect
  BY <1>2 DEF AskOffline, Disconnect, Reconnect
<1>3. ASSUME NEW h \in Handler, Serve(h) PROVE LockOwned'
  <2>1. CASE PollRead(h) \/ PollPut(h) \/ PickFind(h) \/ PickMore(h) \/ Reply(h)
    BY <2>1 DEF PollRead, PollPut, PickFind, PickMore, Reply
  <2>2. CASE TryLock(h) \/ TryLockFails(h)
    BY <2>2 DEF TryLock, TryLockFails
  <2>3. CASE CheckAccepts(h) \/ CheckRefuses(h) \/ SetWait(h)
    BY <2>3 DEF CheckAccepts, CheckRefuses, SetWait
  <2>4. CASE Continue(h)
    <3>1. lock = h
      BY <2>4 DEF Continue
    <3> QED BY <2>4, <3>1 DEF Continue
  <2>5. CASE DropWeapon(h) \/ TeleportAgain(h)
    BY <2>5 DEF DropWeapon, TeleportAgain
  <2> QED BY <1>3, <2>1, <2>2, <2>3, <2>4, <2>5 DEF Serve
<1>4. ASSUME NEW k \in Message, Deadline(k) PROVE LockOwned'
  <2>1. CASE Fire(k) \/ FireDropped(k)
    BY <2>1 DEF Fire, FireDropped
  <2>2. CASE DeadlineHits(k) \/ DeadlineMisses(k) \/ Expire(k)
    BY <2>2 DEF DeadlineHits, DeadlineMisses, Expire
  <2>3. CASE Release(k)
    <3>1. lock = k
      BY <2>3 DEF Release
    <3> QED BY <2>3, <3>1 DEF Release
  <2> QED BY <1>4, <2>1, <2>2, <2>3 DEF Deadline
<1>5. CASE UNCHANGED vars
  BY <1>5 DEF vars
<1> QED BY <1>1, <1>2, <1>3, <1>4, <1>5 DEF Next, Game

\* Questions not asked yet have left no trace, and one that a handler took out
\* of the slot, or that its task expired, does not come back.
LEMMA StepFresh == TypeInv /\ Fresh /\ TakenOut /\ [Next]_vars => Fresh' /\ TakenOut'
<1> SUFFICES ASSUME TypeInv, Fresh, TakenOut, [Next]_vars PROVE Fresh' /\ TakenOut'
  OBVIOUS
<1> USE DEF TypeInv, TypeOK, Fresh, TakenOut, slotVars, lockVars, handlerVars
<1>1. CASE Game
  <2>1. CASE Ask
    <3>1. Fresh'
      BY <2>1 DEF Ask, Message, Wait
    <3>2. \A h \in Handler : pc[h] = "set" => msg[h] # issued + 1
      BY DEF Message, Wait
    <3>3. TakenOut'
      BY <2>1, <3>2 DEF Ask
    <3> QED BY <3>1, <3>3
  <2>2. CASE AskOffline
    <3>1. Fresh'
      BY <2>2 DEF AskOffline, Message, Wait
    <3>2. TakenOut'
      BY <2>2 DEF AskOffline
    <3> QED BY <3>1, <3>2
  <2>3. CASE Disconnect \/ Reconnect
    BY <2>3 DEF Disconnect, Reconnect
  <2> QED BY <1>1, <2>1, <2>2, <2>3 DEF Game
<1>2. ASSUME NEW h \in Handler, Serve(h) PROVE Fresh' /\ TakenOut'
  <2>1. CASE PollRead(h) \/ PollPut(h) \/ PickFind(h) \/ PickMore(h) \/ Reply(h)
    BY <2>1 DEF PollRead, PollPut, PickFind, PickMore, Reply
  <2>2. CASE TryLock(h) \/ TryLockFails(h)
    BY <2>2 DEF TryLock, TryLockFails
  <2>3. CASE CheckAccepts(h) \/ CheckRefuses(h)
    BY <2>3 DEF CheckAccepts, CheckRefuses, Accepted
  <2>4. CASE SetWait(h)
    <3>1. Fresh'
      BY <2>4 DEF SetWait, Wait, Message
    <3>2. \A g \in Handler : pc'[g] = "set" => msg[g] \in Message
      BY <2>4 DEF SetWait, BusyWithQuestion
    <3>3. TakenOut'
      BY <2>4, <3>2 DEF SetWait, Message, Wait
    <3> QED BY <3>1, <3>3
  <2>5. CASE Continue(h) \/ DropWeapon(h) \/ TeleportAgain(h)
    BY <2>5 DEF Continue, DropWeapon, TeleportAgain
  <2> QED BY <1>2, <2>1, <2>2, <2>3, <2>4, <2>5 DEF Serve
<1>3. ASSUME NEW k \in Message, Deadline(k) PROVE Fresh' /\ TakenOut'
  <2>1. k <= issued
    BY <1>3 DEF Deadline, Fire, FireDropped, DeadlineHits, DeadlineMisses, Expire, Release,
                Message
  <2>2. CASE Fire(k) \/ FireDropped(k) \/ DeadlineHits(k) \/ DeadlineMisses(k) \/ Release(k)
    BY <2>1, <2>2 DEF Fire, FireDropped, DeadlineHits, DeadlineMisses, Release
  <2>3. CASE Expire(k)
    <3>1. Wait <= issued /\ \A g \in Handler : pc[g] = "set" => msg[g] \in Message
      BY SlotAssumption DEF BusyWithQuestion, Wait
    <3> QED BY <2>1, <2>3, <3>1 DEF Expire, Message, Wait
  <2> QED BY <1>3, <2>2, <2>3 DEF Deadline
<1>4. CASE UNCHANGED vars
  BY <1>4 DEF vars
<1> QED BY <1>1, <1>2, <1>3, <1>4 DEF Next

\* A guarded question has carried the game on at most once, and not at all while
\* it is in the slot or on its way out of it.
LEMMA StepSpentOnce == OnceInv /\ [Next]_vars => SpentOnce'
<1> SUFFICES ASSUME OnceInv, [Next]_vars PROVE SpentOnce'
  OBVIOUS
<1> USE DEF OnceInv, TypeInv, TypeOK, SpentOnce, Spent, Guarded, slotVars, lockVars,
        handlerVars
<1>1. CASE Ask
  BY <1>1 DEF Ask, Message
<1>2. CASE AskOffline
  BY <1>2 DEF AskOffline, Fresh, Message, Wait
<1>3. CASE Disconnect \/ Reconnect
  BY <1>3 DEF Disconnect, Reconnect
<1>4. ASSUME NEW h \in Handler, Serve(h) PROVE SpentOnce'
  <2>1. CASE PollRead(h) \/ PollPut(h) \/ PickFind(h) \/ PickMore(h) \/ Reply(h)
    BY <2>1 DEF PollRead, PollPut, PickFind, PickMore, Reply
  <2>2. CASE TryLock(h) \/ TryLockFails(h) \/ CheckRefuses(h)
    BY <2>2 DEF TryLock, TryLockFails, CheckRefuses
  <2>3. CASE CheckAccepts(h)
    BY <2>3 DEF CheckAccepts, Accepted
  <2>4. CASE SetWait(h)
    BY <2>4 DEF SetWait, Wait, Message
  <2>5. CASE Continue(h)
    <3>1. \A g \in Handler \ {h} : pc[g] \notin {"passed", "set"}
      BY <2>5 DEF Continue, LockOwned, HandlerInside
    <3>2. \A k \in Message : timer[k] # "expired"
      BY <2>5, SlotAssumption DEF Continue, LockOwned, HandlerInside, TaskInside
    <3>3. current # msg[h] /\ msg[h] <= issued
      BY <2>5 DEF Continue, TakenOut, Fresh
    <3>4. msg[h] \in Guarded => calls[msg[h]] = 0
      BY <2>5 DEF Continue
    <3> QED BY <2>5, <3>1, <3>2, <3>3, <3>4 DEF Continue
  <2>6. CASE DropWeapon(h) \/ TeleportAgain(h)
    BY <2>6 DEF DropWeapon, TeleportAgain
  <2> QED BY <1>4, <2>1, <2>2, <2>3, <2>4, <2>5, <2>6 DEF Serve
<1>5. ASSUME NEW k \in Message, Deadline(k) PROVE SpentOnce'
  <2>1. CASE Fire(k) \/ FireDropped(k) \/ DeadlineMisses(k) \/ Release(k)
    BY <2>1 DEF Fire, FireDropped, DeadlineMisses, Release
  <2>2. CASE DeadlineHits(k)
    BY <2>2 DEF DeadlineHits
  <2>3. CASE Expire(k)
    <3>1. \A h \in Handler : pc[h] \notin {"passed", "set"}
      BY <2>3, SlotAssumption DEF Expire, LockOwned, HandlerInside, TaskInside
    <3>2. k <= issued
      BY <2>3 DEF Expire, Fresh, Message
    <3>3. k \in Guarded => calls[k] = 0
      BY <2>3 DEF Expire
    <3> QED BY <2>3, <3>1, <3>2, <3>3 DEF Expire, Wait, Message
  <2> QED BY <1>5, <2>1, <2>2, <2>3 DEF Deadline
<1>6. CASE UNCHANGED vars
  BY <1>6 DEF vars
<1> QED BY <1>1, <1>2, <1>3, <1>4, <1>5, <1>6 DEF Next, Game

\* The three parts above together are inductive.
LEMMA StepOnceInv == OnceInv /\ [Next]_vars => OnceInv'
BY StepTypeInv, StepLockOwned, StepFresh, StepSpentOnce DEF OnceInv

\* Whatever other questions of the player escape the proxy, a guarded question
\* carries the game on at most once.
THEOREM GuardedOnceHolds == Spec => []GuardedOnce
<1>1. OnceInv => GuardedOnce
  BY DEF OnceInv, TypeInv, TypeOK, GuardedOnce, SpentOnce, Guarded
<1> QED BY <1>1, InitOnceInv, StepOnceInv, PTL DEF Spec

-----------------------------------------------------------------------------
(* When the proxy guards every question: one token, and the promise kept *)

AllGuarded == Unguarded = {} /\ Teleports = {}

\* What a thread that holds the lock has seen is still so: an accepted answer
\* and a deadline about to expire find their question in the slot.
InHand ==
    /\ \A h \in Handler : pc[h] = "passed" => current = msg[h]
    /\ \A k \in Message : timer[k] = "expired" => current = k

\* A question whose deadline task is through is out of the slot for good.
Struck == \A k \in Message : timer[k] \in {"release", "over"} => current # k

TokenInv == OnceInv /\ OneToken /\ InHand /\ Struck

\* A fresh slot has one turn token: MainController is about to ask.
LEMMA InitTokenInv == Init => TokenInv
<1> SUFFICES ASSUME Init PROVE TokenInv
  OBVIOUS
<1>1. OnceInv
  BY InitOnceInv
<1> QED BY <1>1 DEF Init, TokenInv, OneToken, Committing, InHand, Struck

\* Only the owner of the lock commits.
LEMMA OneCommitter ==
  ASSUME TypeInv, LockOwned, NEW h \in Handler, pc[h] = "set"
  PROVE  Committing = {h}
BY DEF Committing, LockOwned, HandlerInside

\* The question a committing handler holds is the one it took out of the slot.
LEMMA StepInHand ==
  ASSUME AllGuarded, TokenInv, [Next]_vars PROVE InHand' /\ Struck'
<1> USE DEF TokenInv, OnceInv, TypeInv, TypeOK, InHand, Struck, slotVars, lockVars,
        handlerVars
<1>1. CASE Ask
  <2>1. current = Wait
    BY <1>1 DEF Ask, OneToken
  <2>2. \A h \in Handler : pc[h] # "passed"
    BY <2>1 DEF BusyWithQuestion, Message, Wait
  <2>3. \A k \in Message : timer[k] # "expired" /\ k # Wait
    BY <2>1 DEF Message, Wait
  <2> QED BY <1>1, <2>2, <2>3 DEF Ask
<1>2. CASE AskOffline \/ Disconnect \/ Reconnect
  BY <1>2 DEF AskOffline, Disconnect, Reconnect
<1>3. ASSUME NEW h \in Handler, Serve(h) PROVE InHand' /\ Struck'
  <2>1. CASE PollRead(h) \/ PollPut(h) \/ PickFind(h) \/ PickMore(h) \/ Reply(h)
    BY <2>1 DEF PollRead, PollPut, PickFind, PickMore, Reply
  <2>2. CASE TryLock(h) \/ TryLockFails(h) \/ CheckRefuses(h)
    BY <2>2 DEF TryLock, TryLockFails, CheckRefuses
  <2>3. CASE CheckAccepts(h)
    BY <2>3 DEF CheckAccepts, Accepted
  <2>4. CASE SetWait(h)
    <3>1. \A g \in Handler \ {h} : pc[g] # "passed"
      BY <2>4 DEF SetWait, LockOwned, HandlerInside
    <3>2. \A k \in Message : timer[k] # "expired" /\ k # Wait
      BY <2>4, SlotAssumption DEF SetWait, LockOwned, HandlerInside, TaskInside, Message, Wait
    <3> QED BY <2>4, <3>1, <3>2 DEF SetWait
  <2>5. CASE Continue(h) \/ DropWeapon(h) \/ TeleportAgain(h)
    BY <2>5 DEF Continue, DropWeapon, TeleportAgain
  <2> QED BY <1>3, <2>1, <2>2, <2>3, <2>4, <2>5 DEF Serve
<1>4. ASSUME NEW k \in Message, Deadline(k) PROVE InHand' /\ Struck'
  <2>1. CASE Fire(k) \/ FireDropped(k) \/ DeadlineHits(k) \/ DeadlineMisses(k)
    BY <2>1 DEF Fire, FireDropped, DeadlineHits, DeadlineMisses
  <2>2. CASE Expire(k)
    <3>1. \A h \in Handler : pc[h] # "passed"
      BY <2>2, SlotAssumption DEF Expire, LockOwned, HandlerInside, TaskInside
    <3>2. \A j \in Message \ {k} : timer[j] # "expired"
      BY <2>2 DEF Expire, LockOwned, TaskInside
    <3>3. \A j \in Message : j # Wait
      BY DEF Message, Wait
    <3> QED BY <2>2, <3>1, <3>2, <3>3 DEF Expire
  <2>3. CASE Release(k)
    BY <2>3 DEF Release
  <2> QED BY <1>4, <2>1, <2>2, <2>3 DEF Deadline
<1>5. CASE UNCHANGED vars
  BY <1>5 DEF vars
<1> QED BY <1>1, <1>2, <1>3, <1>4, <1>5 DEF Next, Game

\* Every step passes the turn token on, and none copies or drops it.
LEMMA StepOneToken ==
  ASSUME AllGuarded, TokenInv, [Next]_vars PROVE OneToken'
<1> USE DEF TokenInv, OnceInv, TypeInv, TypeOK, OneToken, slotVars, lockVars, handlerVars
<1>1. CASE Ask
  <2>1. Committing' = {} /\ current' # Wait
    BY <1>1 DEF Ask, Committing, Message, Wait
  <2> QED BY <1>1, <2>1 DEF Ask
<1>2. CASE AskOffline \/ Disconnect \/ Reconnect
  BY <1>2 DEF AskOffline, Disconnect, Reconnect, Committing
<1>3. ASSUME NEW h \in Handler, Serve(h) PROVE OneToken'
  <2>1. CASE PollRead(h) \/ PollPut(h) \/ PickFind(h) \/ PickMore(h) \/ Reply(h)
    BY <2>1 DEF PollRead, PollPut, PickFind, PickMore, Reply, Committing
  <2>2. CASE TryLock(h) \/ TryLockFails(h) \/ CheckAccepts(h) \/ CheckRefuses(h)
    BY <2>2 DEF TryLock, TryLockFails, CheckAccepts, CheckRefuses, Committing
  <2>3. CASE SetWait(h)
    <3>1. current # Wait
      BY <2>3 DEF SetWait, InHand, BusyWithQuestion, Message, Wait
    <3>2. h \in Committing'
      BY <2>3 DEF SetWait, Committing
    <3> QED BY <2>3, <3>1, <3>2 DEF SetWait
  <2>4. CASE Continue(h)
    <3>1. Committing = {h}
      BY <2>4, OneCommitter DEF Continue
    <3>2. current = Wait /\ due = 0
      BY <3>1
    <3>3. Committing' = {}
      BY <2>4, <3>1 DEF Continue, Committing
    <3> QED BY <2>4, <3>2, <3>3 DEF Continue
  <2>5. CASE DropWeapon(h) \/ TeleportAgain(h)
    BY <2>5 DEF DropWeapon, TeleportAgain, AllGuarded
  <2> QED BY <1>3, <2>1, <2>2, <2>3, <2>4, <2>5 DEF Serve
<1>4. ASSUME NEW k \in Message, Deadline(k) PROVE OneToken'
  <2>1. CASE Fire(k) \/ FireDropped(k) \/ DeadlineHits(k) \/ DeadlineMisses(k) \/ Release(k)
    BY <2>1 DEF Fire, FireDropped, DeadlineHits, DeadlineMisses, Release, Committing
  <2>2. CASE Expire(k)
    <3>1. current # Wait
      BY <2>2 DEF Expire, InHand, Message, Wait
    <3>2. Committing' = {}
      BY <2>2, <3>1 DEF Expire, Committing
    <3> QED BY <2>2, <3>1, <3>2 DEF Expire
  <2> QED BY <1>4, <2>1, <2>2 DEF Deadline
<1>5. CASE UNCHANGED vars
  BY <1>5 DEF vars, Committing
<1> QED BY <1>1, <1>2, <1>3, <1>4, <1>5 DEF Next, Game

\* The token invariant is inductive when every question is guarded.
LEMMA StepTokenInv == ASSUME AllGuarded PROVE TokenInv /\ [Next]_vars => TokenInv'
BY StepOnceInv, StepInHand, StepOneToken DEF TokenInv

\* If every question is guarded, the player has one turn token: in the slot,
\* with the handler that took it out, or in MainController.
THEOREM OneTokenHolds == ASSUME AllGuarded PROVE Spec => []OneToken
<1>1. TokenInv => OneToken
  BY DEF TokenInv
<1> QED BY <1>1, InitTokenInv, StepTokenInv, PTL DEF Spec

\* If every question is guarded, an answer resets the slot only while it still
\* holds the question answered.
THEOREM CommitsCurrentHolds == ASSUME AllGuarded PROVE Spec => CommitsCurrent
<1>1. TokenInv /\ [Next]_vars => [\A h \in Handler : SetWait(h) => current = msg[h]]_vars
  BY DEF TokenInv, InHand, SetWait
<1> QED BY <1>1, InitTokenInv, StepTokenInv, PTL DEF Spec, CommitsCurrent

\* If every question is guarded, no answer is accepted once the deadline of its
\* question has struck.
THEOREM NoAnswerAfterDeadlineHolds ==
  ASSUME AllGuarded PROVE Spec => NoAnswerAfterDeadline
<1>1. TokenInv /\ [Next]_vars =>
        [\A h \in Handler : SetWait(h) => timer[msg[h]] \notin {"expired", "release", "over"}]_vars
  <2> SUFFICES ASSUME TokenInv, NEW h \in Handler, SetWait(h)
               PROVE  timer[msg[h]] \notin {"expired", "release", "over"}
    OBVIOUS
  <2>1. msg[h] \in Message /\ current = msg[h] /\ lock = h
    BY DEF TokenInv, OnceInv, TypeInv, BusyWithQuestion, InHand, SetWait, LockOwned,
           HandlerInside
  <2>2. timer[msg[h]] # "expired"
    BY <2>1, SlotAssumption DEF TokenInv, OnceInv, LockOwned, TaskInside
  <2> QED BY <2>1, <2>2 DEF TokenInv, Struck
<1> QED BY <1>1, InitTokenInv, StepTokenInv, PTL DEF Spec, NoAnswerAfterDeadline

-----------------------------------------------------------------------------
(* The slot implements QuestionLine *)

\* Where the open question is: in the slot, or with the one committing handler.
LEMMA OpenInSlot == ASSUME current # Wait PROVE OpenQuestion = current
BY DEF OpenQuestion

\* With the slot in WAIT, the open question is the committing handler's.
LEMMA OpenInHandler ==
  ASSUME current = Wait, NEW h \in Handler, Committing = {h}
  PROVE  OpenQuestion = msg[h]
BY DEF OpenQuestion

\* With the slot in WAIT and nobody committing, no question is open.
LEMMA OpenNowhere == ASSUME current = Wait, Committing = {} PROVE OpenQuestion = 0
BY DEF OpenQuestion

\* The fresh slot is an initial state of QuestionLine.
LEMMA LineInit == Init => Line!Init
BY DEF Init, Line!Init, OpenQuestion, Committing, Wait

\* A step that leaves the slot, the committing handlers with their questions,
\* and the continuations alone, is invisible to MainController.
LEMMA LineStutter ==
  ASSUME TypeInv, UNCHANGED <<current, issued, calls>>, Committing' = Committing,
         \A h \in Committing : msg'[h] = msg[h]
  PROVE  UNCHANGED Line!vars
<1>1. OpenQuestion' = OpenQuestion
  BY DEF OpenQuestion
<1> QED BY <1>1 DEF Line!vars

\* Every step of the slot is a step of QuestionLine or invisible to it.
LEMMA LineStep == ASSUME AllGuarded, TokenInv, TokenInv', [Next]_vars
                  PROVE  [Line!Next]_(Line!vars)
<1> USE DEF TokenInv, OnceInv, TypeInv, TypeOK, slotVars, lockVars, handlerVars
<1>1. CASE Ask
  <2>1. current = Wait /\ Committing = {}
    BY <1>1 DEF Ask, OneToken
  <2>2. OpenQuestion = 0
    BY <2>1, OpenNowhere
  <2>3. OpenQuestion' = issued + 1
    BY <1>1 DEF Ask, OpenQuestion, Message, Wait
  <2>4. issued < MaxMessage
    BY <1>1, SlotAssumption DEF Ask, Message
  <2>5. UNCHANGED {k \in Message : calls[k] > 0}
    BY <1>1 DEF Ask
  <2>6. Line!Put
    BY <1>1, <2>2, <2>3, <2>4, <2>5 DEF Line!Put, Ask
  <2> QED BY <2>6 DEF Line!Next
<1>2. CASE AskOffline
  <2>1. current = Wait /\ Committing = {}
    BY <1>2 DEF AskOffline, OneToken
  <2>2. OpenQuestion = 0
    BY <2>1, OpenNowhere
  <2>3. OpenQuestion' = OpenQuestion
    BY <1>2 DEF AskOffline, OpenQuestion, Committing
  <2>4. issued < MaxMessage
    BY <1>2, SlotAssumption DEF AskOffline, Message
  <2>5. {k \in Message : calls'[k] > 0} = {k \in Message : calls[k] > 0} \cup {issued + 1}
    BY <1>2 DEF AskOffline
  <2>6. Line!PutOffline
    BY <1>2, <2>2, <2>3, <2>4, <2>5 DEF Line!PutOffline, AskOffline
  <2> QED BY <2>6 DEF Line!Next
<1>3. CASE Disconnect \/ Reconnect
  BY <1>3, LineStutter DEF Disconnect, Reconnect, Committing
<1>4. ASSUME NEW h \in Handler, Serve(h) PROVE [Line!Next]_(Line!vars)
  <2>1. CASE PollRead(h) \/ PollPut(h) \/ PickFind(h) \/ PickMore(h) \/ Reply(h)
    <3>1. pc[h] # "set" /\ pc'[h] # "set" /\ \A g \in Handler \ {h} : pc'[g] = pc[g]
      BY <2>1 DEF PollRead, PollPut, PickFind, PickMore, Reply
    <3>2. \A g \in Handler \ {h} : msg'[g] = msg[g]
      BY <2>1 DEF PollRead, PollPut, PickFind, PickMore, Reply
    <3>3. Committing' = Committing /\ \A g \in Committing : msg'[g] = msg[g]
      BY <3>1, <3>2 DEF Committing
    <3>4. UNCHANGED <<current, issued, calls>>
      BY <2>1 DEF PollRead, PollPut, PickFind, PickMore, Reply
    <3> QED BY <3>3, <3>4, LineStutter
  <2>2. CASE TryLock(h) \/ TryLockFails(h) \/ CheckAccepts(h) \/ CheckRefuses(h)
    <3>1. Committing' = Committing /\ msg' = msg
      BY <2>2 DEF TryLock, TryLockFails, CheckAccepts, CheckRefuses, Committing
    <3>2. UNCHANGED <<current, issued, calls>>
      BY <2>2 DEF TryLock, TryLockFails, CheckAccepts, CheckRefuses
    <3> QED BY <3>1, <3>2, LineStutter
  <2>3. CASE SetWait(h)
    <3>1. current = msg[h] /\ current # Wait
      BY <2>3 DEF SetWait, InHand, BusyWithQuestion, Message, Wait
    <3>2. Committing = {} /\ Committing' = {h}
      BY <2>3, <3>1 DEF SetWait, OneToken, Committing
    <3>3. OpenQuestion = msg[h]
      BY <3>1, OpenInSlot
    <3>4. OpenQuestion' = msg[h]
      BY <2>3, <3>2 DEF SetWait, OpenQuestion
    <3>5. UNCHANGED <<issued, calls>>
      BY <2>3 DEF SetWait
    <3> QED BY <3>3, <3>4, <3>5 DEF Line!vars
  <2>4. CASE Continue(h)
    <3>1. Committing = {h} /\ current = Wait
      BY <2>4, OneCommitter DEF Continue, OneToken
    <3>2. OpenQuestion = msg[h] /\ msg[h] \in Message
      BY <2>4, <3>1, OpenInHandler DEF Continue, BusyWithQuestion
    <3>3. Committing' = {} /\ current' = Wait
      BY <2>4, <3>1 DEF Continue, Committing
    <3>4. OpenQuestion' = 0
      BY <3>3 DEF OpenQuestion
    <3>5. {k \in Message : calls'[k] > 0} = {k \in Message : calls[k] > 0} \cup {msg[h]}
      BY <2>4, <3>2 DEF Continue
    <3>6. Line!Settle
      BY <2>4, <3>2, <3>4, <3>5 DEF Line!Settle, Continue, Message
    <3> QED BY <3>6 DEF Line!Next
  <2>5. CASE DropWeapon(h) \/ TeleportAgain(h)
    BY <2>5 DEF DropWeapon, TeleportAgain, AllGuarded
  <2> QED BY <1>4, <2>1, <2>2, <2>3, <2>4, <2>5 DEF Serve
<1>5. ASSUME NEW k \in Message, Deadline(k) PROVE [Line!Next]_(Line!vars)
  <2>1. CASE Fire(k) \/ FireDropped(k) \/ DeadlineHits(k) \/ DeadlineMisses(k) \/ Release(k)
    <3>1. Committing' = Committing /\ msg' = msg
      BY <2>1 DEF Fire, FireDropped, DeadlineHits, DeadlineMisses, Release, Committing
    <3>2. UNCHANGED <<current, issued, calls>>
      BY <2>1 DEF Fire, FireDropped, DeadlineHits, DeadlineMisses, Release
    <3> QED BY <3>1, <3>2, LineStutter
  <2>2. CASE Expire(k)
    <3>1. current = k /\ k # Wait
      BY <2>2 DEF Expire, InHand, Message, Wait
    <3>2. OpenQuestion = k
      BY <3>1, OpenInSlot
    <3>3. Committing' = {}
      BY <2>2, <3>1 DEF Expire, Committing, OneToken
    <3>4. OpenQuestion' = 0
      BY <2>2, <3>3 DEF Expire, OpenQuestion
    <3>5. {j \in Message : calls'[j] > 0} = {j \in Message : calls[j] > 0} \cup {k}
      BY <2>2 DEF Expire
    <3>6. Line!Settle
      BY <2>2, <3>1, <3>2, <3>4, <3>5 DEF Line!Settle, Expire, Wait
    <3> QED BY <3>6 DEF Line!Next
  <2> QED BY <1>5, <2>1, <2>2 DEF Deadline
<1>6. CASE UNCHANGED vars
  BY <1>6, LineStutter DEF vars, Committing
<1> QED BY <1>1, <1>2, <1>3, <1>4, <1>5, <1>6 DEF Next, Game

\* If every question is guarded, the slot keeps the promise MainController
\* relies on: questions one at a time, each settled exactly once.
THEOREM SlotImplementsLine == ASSUME AllGuarded PROVE Spec => ImplementsLine
<1>1. TokenInv /\ TokenInv' /\ [Next]_vars => [Line!Next]_(Line!vars)
  BY LineStep
<1> QED BY <1>1, LineInit, InitTokenInv, StepTokenInv, PTL
     DEF Spec, ImplementsLine, Line!Spec

-----------------------------------------------------------------------------
(* The other end of a question: the client that polls for it, with its own  *)
(* view of the server (ClientPolling), for every number of questions, depth *)
(* of the questions, choice of powerup messages, and bound on the requests. *)

\* What travels between client and server: polls, picks of a message the client
\* was shown, and replies.
Request ==
    {PollRequest}
    \cup {PickRequest(m, good) : m \in ClientMessage, good \in BOOLEAN}
    \cup {ReplyWith(m) : m \in ClientMessage \cup {WaitMessage, RollbackMessage}}

\* The server.
ServerTypes ==
    /\ slot \in 0..MaxQuestion /\ asked \in 0..MaxQuestion
    /\ expiring \in BOOLEAN
    /\ answerable \subseteq ClientMessage
    /\ notice \in Nat

\* The client has nothing but messages of questions on its stack, so that a
\* rollback never brings back a WAIT or the empty screen.
ClientTypes ==
    /\ stack \in Seq(ClientMessage)
    /\ polling \in BOOLEAN
    /\ firstMap \in {"yes", "fetching", "no"}
    /\ shown \in ClientMessage \cup {Nothing}

ClientInv == ServerTypes /\ ClientTypes /\ flight \in Seq(Request)

\* A slot without a question is well typed.
LEMMA NoQuestion == 0 \in 0..MaxQuestion
BY ClientAssumption

\* The first message of a question is a message.
LEMMA FirstMessage == \A q \in 1..MaxQuestion : <<q, 1>> \in ClientMessage
BY ClientAssumption DEF ClientMessage

\* WAIT, ROLLBACK and the empty screen are no questions.
LEMMA NotMessages ==
    /\ WaitMessage \notin ClientMessage /\ RollbackMessage \notin ClientMessage
    /\ Nothing \notin ClientMessage
BY ClientAssumption DEF ClientMessage, WaitMessage, RollbackMessage, Nothing

\* A message leads to another one of its question as long as it is not the last.
LEMMA NextMessage ==
    ASSUME NEW m \in ClientMessage, m[2] < Depth[m[1]]
    PROVE  <<m[1], m[2] + 1>> \in ClientMessage
BY ClientAssumption DEF ClientMessage

\* A reply put in the place of its request leaves as many requests under way.
LEMMA Replied ==
    ASSUME flight \in Seq(Request), NEW i \in 1..Len(flight),
           NEW m \in ClientMessage \cup {WaitMessage, RollbackMessage},
           flight' = [flight EXCEPT ![i] = ReplyWith(m)]
    PROVE  flight' \in Seq(Request) /\ flight' # <<>>
<1>1. ReplyWith(m) \in Request
  BY DEF Request
<1>2. flight' \in Seq(Request) /\ Len(flight') = Len(flight)
  BY <1>1, ExceptSeq
<1>3. Len(flight') > 0
  BY <1>2, LenProperties
<1> QED BY <1>2, <1>3, EmptySeq

\* A reply that was taken leaves a sequence of requests.
LEMMA Taken ==
    ASSUME flight \in Seq(Request), NEW i \in 1..Len(flight)
    PROVE  RemoveAt(flight, i) \in Seq(Request)
<1>1. Len(flight) \in Nat /\ \A j \in 1..Len(flight) : flight[j] \in Request
  BY LenProperties, ElementOfSeq
<1>2. SubSeq(flight, 1, i - 1) \in Seq(Request)
  BY <1>1, SubSeqProperties
<1>3. SubSeq(flight, i + 1, Len(flight)) \in Seq(Request)
  BY <1>1, SubSeqProperties
<1> QED BY <1>2, <1>3, ConcatProperties DEF RemoveAt

\* A request that is sent is under way.
LEMMA Sent ==
    ASSUME NEW others \in Seq(Request), NEW r \in Request
    PROVE  Append(others, r) \in Seq(Request) /\ Append(others, r) # <<>>
BY AppendProperties

-----------------------------------------------------------------------------
(* The client always waits for something *)

\* What the properties below rest on: with these types, a client that has
\* no question polls or waits for a reply.
DeafInv == ClientInv /\ NotDeaf

\* elaborate of a message of a question: it is shown, or asked for once more.
LEMMA PushHears ==
    ASSUME ServerTypes, NEW m \in ClientMessage, NEW rest \in Seq(ClientMessage),
           NEW others \in Seq(Request),
           firstMap \in {"yes", "fetching", "no"}, shown \in ClientMessage \cup {Nothing},
           Push(m, rest, others)
    PROVE  /\ ClientTypes' /\ flight' \in Seq(Request)
           /\ NotDeaf'
<1>1. stack' \in Seq(ClientMessage)
  <2>1. <<m>> \in Seq(ClientMessage)
    OBVIOUS
  <2> QED BY <2>1, ConcatProperties DEF Push
<1>2. Append(others, PollRequest) \in Seq(Request) /\ Append(others, PollRequest) # <<>>
  BY Sent DEF Request
<1> QED BY <1>1, <1>2, NotMessages DEF Push, Present, ClientTypes, NotDeaf

\* rollback with nothing to go back to: the request it sends is under way.
LEMMA AskAgainHears ==
    ASSUME NEW others \in Seq(Request), firstMap \in {"yes", "fetching", "no"},
           polling' \in BOOLEAN, AskAgain(others)
    PROVE  /\ ClientTypes' /\ flight' \in Seq(Request)
           /\ NotDeaf'
<1>1. Append(others, PollRequest) \in Seq(Request) /\ Append(others, PollRequest) # <<>>
  BY Sent DEF Request
<1>2. <<>> \in Seq(ClientMessage)
  BY EmptySeq
<1> QED BY <1>1, <1>2 DEF AskAgain, ClientTypes, NotDeaf

\* rollback: the message before is shown, or the server is asked.
LEMMA RollbackHears ==
    ASSUME ServerTypes, ClientTypes, NEW others \in Seq(Request), NEW poll \in BOOLEAN,
           RollbackFrom(others, poll)
    PROVE  /\ ClientTypes' /\ flight' \in Seq(Request)
           /\ NotDeaf'
<1>1. CASE Len(stack) <= 1
  BY <1>1, AskAgainHears DEF RollbackFrom, ClientTypes
<1>2. CASE ~(Len(stack) <= 1)
  <2>1. Len(stack) \in Nat /\ \A j \in 1..Len(stack) : stack[j] \in ClientMessage
    BY LenProperties, ElementOfSeq DEF ClientTypes
  <2>2. SubSeq(stack, 3, Len(stack)) \in Seq(ClientMessage)
    BY <2>1, SubSeqProperties
  <2>3. stack[2] \in ClientMessage
    BY <1>2, <2>1
  <2> QED BY <1>2, <2>2, <2>3, PushHears DEF RollbackFrom, ClientTypes
<1> QED BY <1>1, <1>2

\* A client that starts polls.
LEMMA InitDeafInv == ClientInit => DeafInv
<1> SUFFICES ASSUME ClientInit PROVE DeafInv
  OBVIOUS
<1>1. <<PollRequest>> \in Seq(Request)
  BY DEF Request
<1>2. ServerTypes
  BY NoQuestion, ClientAssumption DEF ClientInit, ServerTypes
<1>3. ClientTypes
  BY EmptySeq DEF ClientInit, ClientTypes
<1> QED BY <1>1, <1>2, <1>3 DEF ClientInit, DeafInv, ClientInv, NotDeaf

\* No step of the server, of a reply, of a timer or of the player leaves the
\* client without anything to wait for.
LEMMA StepDeafInv == DeafInv /\ [ClientNext]_pollingVars => DeafInv'
<1> SUFFICES ASSUME DeafInv, [ClientNext]_pollingVars PROVE DeafInv'
  OBVIOUS
<1> USE DEF DeafInv, ClientInv, serverVars, clientVars
<1>1. CASE PutQuestion
  BY <1>1, ClientAssumption DEF PutQuestion, ServerTypes, ClientTypes, NotDeaf
<1>2. CASE Strike \/ PutWait
  <2>1. CASE Strike
    BY <1>2, <2>1 DEF Strike, ServerTypes, ClientTypes, NotDeaf
  <2>2. CASE PutWait
    BY <1>2, <2>2, NoQuestion DEF PutWait, ServerTypes, ClientTypes, NotDeaf
  <2> QED BY <1>2, <2>1, <2>2
<1>3. ASSUME NEW i \in 1..Len(flight), ServePoll(i) PROVE DeafInv'
  <2>1. slot # 0 => <<slot, 1>> \in ClientMessage
    BY FirstMessage, ClientAssumption DEF ServerTypes
  <2>2. flight' \in Seq(Request) /\ flight' # <<>>
    BY <1>3, <2>1, Replied DEF ServePoll
  <2> QED BY <1>3, <2>1, <2>2 DEF ServePoll, ServerTypes, ClientTypes, NotDeaf
<1>4. ASSUME NEW i \in 1..Len(flight), ServePick(i) PROVE DeafInv'
  <2> DEFINE m == flight[i].msg
             reply == IF m \notin answerable THEN WaitMessage
                      ELSE IF ~flight[i].good THEN RollbackMessage
                      ELSE IF m[2] < Depth[m[1]] THEN <<m[1], m[2] + 1>>
                      ELSE WaitMessage
  <2>1. reply \in ClientMessage \cup {WaitMessage, RollbackMessage}
    <3>1. m \in answerable /\ m[2] < Depth[m[1]] => <<m[1], m[2] + 1>> \in ClientMessage
      BY NextMessage DEF ServerTypes
    <3> QED BY <3>1
  <2>2. flight' \in Seq(Request) /\ flight' # <<>>
    BY <1>4, <2>1, Replied DEF ServePick
  <2>3. slot' \in {0, slot} /\ answerable' \subseteq ClientMessage
    BY <1>4, <2>1 DEF ServePick, ServerTypes
  <2>4. ServerTypes'
    BY <1>4, <2>3, NoQuestion DEF ServePick, ServerTypes
  <2> QED BY <1>4, <2>2, <2>4 DEF ServePick, ClientTypes, NotDeaf
<1>5. ASSUME NEW i \in 1..Len(flight), Deliver(i) PROVE DeafInv'
  <2> DEFINE m == flight[i].msg
             others == RemoveAt(flight, i)
  <2>1. others \in Seq(Request)
    BY Taken
  <2>2. UNCHANGED serverVars
    BY <1>5 DEF Deliver
  <2>3. CASE WaitAgain(others)
    <3>1. <<>> \in Seq(ClientMessage)
      BY EmptySeq
    <3> QED BY <2>1, <2>2, <2>3, <3>1 DEF WaitAgain, ServerTypes, ClientTypes, NotDeaf
  <2>4. CASE RollbackFrom(others, FALSE)
    BY <2>1, <2>2, <2>4, RollbackHears DEF ServerTypes
  <2>5. CASE m \in ClientMessage /\ Push(m, stack, others)
    BY <2>1, <2>2, <2>5, PushHears DEF ServerTypes, ClientTypes
  <2> QED BY <1>5, <2>3, <2>4, <2>5 DEF Deliver
<1>6. CASE Fetched \/ Notified
  <2>1. ServerTypes'
    BY <1>6 DEF Fetched, Notified, ServerTypes
  <2> QED BY <1>6, <2>1 DEF Fetched, Notified, ClientTypes, NotDeaf
<1>7. CASE Tick
  <2>1. flight' \in Seq(Request) /\ flight' # <<>>
    BY <1>7, Sent DEF Tick, Request
  <2> QED BY <1>7, <2>1 DEF Tick, ServerTypes, ClientTypes, NotDeaf
<1>8. ASSUME NEW good \in BOOLEAN, Pick(good) PROVE DeafInv'
  <2>1. PickRequest(shown, good) \in Request
    BY <1>8 DEF Pick, Request, ClientTypes
  <2>2. flight' \in Seq(Request) /\ flight' # <<>>
    BY <1>8, <2>1, Sent DEF Pick
  <2> QED BY <1>8, <2>2 DEF Pick, ServerTypes, ClientTypes, NotDeaf
<1>9. CASE Back
  BY <1>9, RollbackHears DEF Back, ServerTypes, ClientTypes
<1>10. CASE Restart
  <2>1. CASE stack = <<>>
    BY <1>10, <2>1, AskAgainHears DEF Restart, ServerTypes, ClientTypes
  <2>2. CASE stack # <<>>
    <3>1. Len(stack) \in Nat \ {0} /\ \A j \in 1..Len(stack) : stack[j] \in ClientMessage
      BY <2>2, LenProperties, ElementOfSeq, EmptySeq DEF ClientTypes
    <3>2. Last(stack) \in ClientMessage
      BY <3>1 DEF Last
    <3>3. <<>> \in Seq(ClientMessage)
      BY EmptySeq
    <3> QED BY <1>10, <2>2, <3>2, <3>3, PushHears DEF Restart, ServerTypes, ClientTypes
  <2> QED BY <2>1, <2>2
<1>11. CASE UNCHANGED pollingVars
  BY <1>11 DEF pollingVars, ServerTypes, ClientTypes, NotDeaf
<1> QED BY <1>1, <1>2, <1>3, <1>4, <1>5, <1>6, <1>7, <1>8, <1>9, <1>10, <1>11
     DEF ClientNext, ServeOne, DeliverOne

\* A client is never left with nothing to wait for, however often the deadline
\* strikes, replies overtake each other, and the player goes back.
THEOREM NeverDeaf == ClientSpec => []NotDeaf
<1>1. DeafInv => NotDeaf
  BY DEF DeafInv
<1> QED BY <1>1, InitDeafInv, StepDeafInv, PTL DEF ClientSpec
=============================================================================
