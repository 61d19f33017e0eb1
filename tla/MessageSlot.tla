---------------------------- MODULE MessageSlot ----------------------------
(***************************************************************************)
(* One player's message slot on the server: the currentMessage of his      *)
(* SlaveController, the SetMessageProxy that guards each question asked    *)
(* through it, the 60 s deadline task, the ReentrantLock the two share,    *)
(* and the cache of answerable questions that ObjectMap keeps for him.     *)
(*                                                                         *)
(* A "question" is one call of setCurrentMessage with a message that is    *)
(* not WAIT, together with every message reachable from it by picks: they  *)
(* all share one SetMessageProxy.  Questions are numbered in the order in  *)
(* which they are asked.  The rest of MainController is the environment: a *)
(* started continuation ("due") may ask the player his next question.      *)
(*                                                                         *)
(* Every step below is one that other threads may interleave with; the     *)
(* synchronized methods of SlaveController are short and atomic here.      *)
(***************************************************************************)
EXTENDS Naturals

CONSTANTS MaxMessage,   \* how many questions are asked in a behaviour
          MaxCalls,     \* bound on the continuations started by one question
          Handler,      \* server threads that serve this player's requests
          NoThread,     \* "nobody holds lockMessageSet"
          Unguarded,    \* questions that end in the weapon-drop pick
          Teleports     \* questions that offer a Teleporter

Message == 1..MaxMessage
Wait == 0

ASSUME SlotAssumption ==
    /\ MaxMessage \in Nat \ {0}
    /\ MaxCalls \in Nat \ {0}
    /\ Unguarded \subseteq Message
    /\ Teleports \subseteq Message
    /\ Unguarded \cap Teleports = {}
    /\ Handler \cap Message = {}
    /\ NoThread \notin Handler \cup Message

VARIABLES
    current,    \* SlaveController.currentMessage: Wait or a question
    issued,     \* the last question that was created
    due,        \* continuations of MainController running for this player
    online,     \* Player.isOnLine
    flag,       \* SetMessageProxy.flag of each question
    calls,      \* continuations that each question has started so far
    lock,       \* owner of lockMessageSet: a handler, a timer or NoThread
    leaked,     \* the owner left setControllerMessage without unlocking
    pc,         \* what each handler thread is doing ...
    msg,        \* ... and the question it is doing it with
    timer,      \* the deadline task of each question
    cache       \* the questions ObjectMap will still let the client answer

slotVars == <<current, issued, due, online>>
lockVars == <<lock, leaked>>
handlerVars == <<pc, msg>>
vars == <<slotVars, flag, calls, lockVars, handlerVars, timer, cache>>

HandlerPC == {"idle", "polling", "picking", "locked", "passed", "set", "reply"}
TimerPC == {"off", "armed", "checking", "expired", "release", "over", "dropped"}

TypeOK ==
    /\ current \in Message \cup {Wait}
    /\ issued \in 0..MaxMessage
    /\ due \in Nat
    /\ online \in BOOLEAN
    /\ flag \in [Message -> BOOLEAN]
    /\ calls \in [Message -> Nat]
    /\ lock \in Handler \cup Message \cup {NoThread}
    /\ leaked \in BOOLEAN
    /\ pc \in [Handler -> HandlerPC]
    /\ msg \in [Handler -> Message \cup {Wait}]
    /\ timer \in [Message -> TimerPC]
    /\ cache \subseteq Message

\* A fresh slave holds a WAIT message, and the game is about to give it its
\* first question.
Init ==
    /\ current = Wait
    /\ issued = 0
    /\ due = 1
    /\ online = TRUE
    /\ flag = [k \in Message |-> FALSE]
    /\ calls = [k \in Message |-> 0]
    /\ lock = NoThread
    /\ leaked = FALSE
    /\ pc = [h \in Handler |-> "idle"]
    /\ msg = [h \in Handler |-> Wait]
    /\ timer = [k \in Message |-> "off"]
    /\ cache = {}

-----------------------------------------------------------------------------
(* The game side: setCurrentMessage with a question, and the connection. *)

\* A continuation reaches this player and asks the next question.  The
\* deadline task is scheduled in the same synchronized method.
Ask ==
    LET k == issued + 1 IN
    /\ due > 0 /\ k \in Message
    /\ online
    /\ issued' = k
    /\ due' = due - 1
    /\ current' = k
    /\ timer' = [timer EXCEPT ![k] = "armed"]
    /\ UNCHANGED <<online, flag, calls, lockVars, handlerVars, cache>>

\* The player is offline: onTimeout runs at once, the message is not stored.
AskOffline ==
    LET k == issued + 1 IN
    /\ due > 0 /\ k \in Message
    /\ ~online
    /\ issued' = k
    /\ calls' = [calls EXCEPT ![k] = @ + 1]
    /\ UNCHANGED <<current, due, online, flag, lockVars, handlerVars, timer, cache>>

Disconnect ==
    /\ online
    /\ online' = FALSE
    /\ UNCHANGED <<current, issued, due, flag, calls, lockVars, handlerVars, timer, cache>>

Reconnect ==
    /\ ~online
    /\ online' = TRUE
    /\ UNCHANGED <<current, issued, due, flag, calls, lockVars, handlerVars, timer, cache>>

-----------------------------------------------------------------------------
(* Requests of the client: a poll, or a pick on a message it was given. *)

\* Slip: a WAIT is made answerable too.
PollReadAny(h) ==
    /\ pc[h] = "idle"
    /\ pc' = [pc EXCEPT ![h] = "polling"]
    /\ msg' = [msg EXCEPT ![h] = current]
    /\ UNCHANGED <<slotVars, flag, calls, lockVars, timer, cache>>

\* getInstruction returns a question.  (A WAIT changes nothing.)
PollRead(h) ==
    /\ pc[h] = "idle"
    /\ current # Wait
    /\ pc' = [pc EXCEPT ![h] = "polling"]
    /\ msg' = [msg EXCEPT ![h] = current]
    /\ UNCHANGED <<slotVars, flag, calls, lockVars, timer, cache>>

\* ObjectMap.put.  Its maps are shared by the threads of every player and not
\* synchronized, so an entry may be lost.
Put(k) == \E kept \in {{k}, {}} : cache' = cache \cup kept

PollPut(h) ==
    /\ pc[h] = "polling"
    /\ Put(msg[h])
    /\ pc' = [pc EXCEPT ![h] = "idle"]
    /\ UNCHANGED <<slotVars, flag, calls, lockVars, msg, timer>>

\* ObjectMap.pick finds the identifier and runs the message's pick.
PickFind(h) ==
    /\ pc[h] = "idle"
    /\ \E k \in cache : msg' = [msg EXCEPT ![h] = k]
    /\ pc' = [pc EXCEPT ![h] = "picking"]
    /\ UNCHANGED <<slotVars, flag, calls, lockVars, timer, cache>>

\* The choice leads to a further choice of the same question, which
\* handlePick makes answerable in its turn.
PickMore(h) ==
    /\ pc[h] = "picking"
    /\ Put(msg[h])
    /\ pc' = [pc EXCEPT ![h] = "idle"]
    /\ UNCHANGED <<slotVars, flag, calls, lockVars, msg, timer>>

\* The last choice calls setControllerMessage.  The method is synchronized on
\* the proxy, hence the second conjunct; tryLock is reentrant, so a thread
\* that leaked the lock before takes it again.
InsideProxy(k) == \E h \in Handler : msg[h] = k /\ pc[h] \in {"locked", "passed"}

TryLock(h) ==
    /\ pc[h] = "picking" /\ msg[h] \notin Unguarded
    /\ ~InsideProxy(msg[h])
    /\ lock \in {NoThread, h}
    /\ lock' = h
    /\ pc' = [pc EXCEPT ![h] = "locked"]
    /\ UNCHANGED <<slotVars, flag, calls, leaked, msg, timer, cache>>

TryLockFails(h) ==
    /\ pc[h] = "picking" /\ msg[h] \notin Unguarded
    /\ ~InsideProxy(msg[h])
    /\ lock \notin {NoThread, h}
    /\ flag' = [flag EXCEPT ![msg[h]] = TRUE]
    /\ pc' = [pc EXCEPT ![h] = "reply"]
    /\ UNCHANGED <<slotVars, calls, lockVars, msg, timer, cache>>

\* Slip: an answer to a question of the past is not refused.
AcceptedLate(h) == ~flag[msg[h]]

\* Both refusals return without unlocking.
Accepted(h) == ~flag[msg[h]] /\ current = msg[h]

\* Slip: nothing is tested once the lock is held.
CheckNothing(h) ==
    /\ pc[h] = "locked"
    /\ pc' = [pc EXCEPT ![h] = "passed"]
    /\ UNCHANGED <<slotVars, flag, calls, lockVars, msg, timer, cache>>

CheckAccepts(h) ==
    /\ pc[h] = "locked"
    /\ Accepted(h)
    /\ pc' = [pc EXCEPT ![h] = "passed"]
    /\ UNCHANGED <<slotVars, flag, calls, lockVars, msg, timer, cache>>

CheckRefuses(h) ==
    /\ pc[h] = "locked"
    /\ ~Accepted(h)
    /\ flag' = [flag EXCEPT ![msg[h]] = TRUE]
    /\ leaked' = TRUE
    /\ pc' = [pc EXCEPT ![h] = "reply"]
    /\ UNCHANGED <<slotVars, calls, lock, msg, timer, cache>>

SetWait(h) ==
    /\ pc[h] = "passed"
    /\ flag' = [flag EXCEPT ![msg[h]] = TRUE]
    /\ current' = Wait
    /\ pc' = [pc EXCEPT ![h] = "set"]
    /\ UNCHANGED <<issued, due, online, calls, lockVars, msg, timer, cache>>

\* unlock, then the thread that resolves the answer is started.
Continue(h) ==
    /\ pc[h] = "set"
    /\ lock' = IF leaked THEN lock ELSE NoThread
    /\ calls' = [calls EXCEPT ![msg[h]] = @ + 1]
    /\ due' = due + 1
    /\ pc' = [pc EXCEPT ![h] = "reply"]
    /\ UNCHANGED <<current, issued, online, flag, leaked, msg, timer, cache>>

\* The pick of the weapon to drop starts its thread without the proxy.
DropWeapon(h) ==
    /\ pc[h] = "picking" /\ msg[h] \in Unguarded
    /\ calls[msg[h]] < MaxCalls
    /\ calls' = [calls EXCEPT ![msg[h]] = @ + 1]
    /\ due' = due + 1
    /\ pc' = [pc EXCEPT ![h] = "reply"]
    /\ UNCHANGED <<current, issued, online, flag, lockVars, msg, timer, cache>>

\* A Teleporter that was discarded in the meantime runs onPowerupFinalized.
TeleportAgain(h) ==
    /\ pc[h] = "picking" /\ msg[h] \in Teleports
    /\ calls[msg[h]] \in 1..MaxCalls - 1
    /\ calls' = [calls EXCEPT ![msg[h]] = @ + 1]
    /\ due' = due + 1
    /\ pc' = [pc EXCEPT ![h] = "reply"]
    /\ UNCHANGED <<current, issued, online, flag, lockVars, msg, timer, cache>>

\* handlePick: the pick returned a WAIT, every cached choice is dropped.
Reply(h) ==
    /\ pc[h] = "reply"
    /\ cache' = {}
    /\ pc' = [pc EXCEPT ![h] = "idle"]
    /\ UNCHANGED <<slotVars, flag, calls, lockVars, msg, timer>>

-----------------------------------------------------------------------------
(* The deadline task of question k, on a thread of its own. *)

\* Slip: the task does not ask for the lock.
FireUnlocked(k) ==
    /\ timer[k] = "armed"
    /\ timer' = [timer EXCEPT ![k] = "checking"]
    /\ UNCHANGED <<slotVars, flag, calls, lockVars, handlerVars, cache>>

Fire(k) ==
    /\ timer[k] = "armed"
    /\ lock = NoThread
    /\ lock' = k
    /\ timer' = [timer EXCEPT ![k] = "checking"]
    /\ UNCHANGED <<slotVars, flag, calls, leaked, handlerVars, cache>>

\* tryLock fails: the task ends and is not scheduled again.
FireDropped(k) ==
    /\ timer[k] = "armed"
    /\ lock # NoThread
    /\ timer' = [timer EXCEPT ![k] = "dropped"]
    /\ UNCHANGED <<slotVars, flag, calls, lockVars, handlerVars, cache>>

\* Slip: the deadline strikes whatever the slot holds by now.
DeadlineAlwaysHits(k) ==
    /\ timer[k] = "checking"
    /\ cache' = {}
    /\ timer' = [timer EXCEPT ![k] = "expired"]
    /\ UNCHANGED <<slotVars, flag, calls, lockVars, handlerVars>>

\* The question is still there: its choices are dropped and the other players
\* are told, before the slot itself is reset.
DeadlineHits(k) ==
    /\ timer[k] = "checking"
    /\ current = k
    /\ cache' = {}
    /\ timer' = [timer EXCEPT ![k] = "expired"]
    /\ UNCHANGED <<slotVars, flag, calls, lockVars, handlerVars>>

DeadlineMisses(k) ==
    /\ timer[k] = "checking"
    /\ current # k
    /\ timer' = [timer EXCEPT ![k] = "release"]
    /\ UNCHANGED <<slotVars, flag, calls, lockVars, handlerVars, cache>>

\* Slip: the game goes on, but the slot keeps the question.
ExpireKeeps(k) ==
    /\ timer[k] = "expired"
    /\ calls' = [calls EXCEPT ![k] = @ + 1]
    /\ due' = due + 1
    /\ timer' = [timer EXCEPT ![k] = "release"]
    /\ UNCHANGED <<current, issued, online, flag, lockVars, handlerVars, cache>>

Expire(k) ==
    /\ timer[k] = "expired"
    /\ current' = Wait
    /\ calls' = [calls EXCEPT ![k] = @ + 1]
    /\ due' = due + 1
    /\ timer' = [timer EXCEPT ![k] = "release"]
    /\ UNCHANGED <<issued, online, flag, lockVars, handlerVars, cache>>

\* Slip: the task ends without unlocking.
ReleaseForgotten(k) ==
    /\ timer[k] = "release"
    /\ timer' = [timer EXCEPT ![k] = "over"]
    /\ UNCHANGED <<slotVars, flag, calls, lockVars, handlerVars, cache>>

Release(k) ==
    /\ timer[k] = "release"
    /\ lock' = NoThread
    /\ timer' = [timer EXCEPT ![k] = "over"]
    /\ UNCHANGED <<slotVars, flag, calls, leaked, handlerVars, cache>>

-----------------------------------------------------------------------------

Game == Ask \/ AskOffline \/ Disconnect \/ Reconnect

Serve(h) ==
    \/ PollRead(h) \/ PollPut(h)
    \/ PickFind(h) \/ PickMore(h)
    \/ TryLock(h) \/ TryLockFails(h)
    \/ CheckAccepts(h) \/ CheckRefuses(h) \/ SetWait(h) \/ Continue(h)
    \/ DropWeapon(h) \/ TeleportAgain(h)
    \/ Reply(h)

Deadline(k) ==
    \/ Fire(k) \/ FireDropped(k)
    \/ DeadlineHits(k) \/ DeadlineMisses(k)
    \/ Expire(k) \/ Release(k)

Next ==
    \/ Game
    \/ \E h \in Handler : Serve(h)
    \/ \E k \in Message : Deadline(k)

Spec == Init /\ [][Next]_vars

\* The JVM runs every started task, and a handler that entered a request
\* finishes it.  The client owes nothing: it may never poll or pick.
Finish(h) ==
    \/ PollPut(h)
    \/ TryLock(h) \/ TryLockFails(h)
    \/ CheckAccepts(h) \/ CheckRefuses(h) \/ SetWait(h) \/ Continue(h)
    \/ Reply(h)

\* Deadlines are 60 s after their questions and the task takes microseconds,
\* so it is over before the deadline of a later question strikes.
InOrder(k) ==
    timer[k] = "armed" =>
        \A j \in Message : j < k => timer[j] \in {"off", "over", "dropped"}

PunctualNext ==
    \/ Game
    \/ \E h \in Handler : Serve(h)
    \/ \E k \in Message : InOrder(k) /\ Deadline(k)

FairSpec ==
    /\ Init /\ [][PunctualNext]_vars
    /\ \A h \in Handler : WF_vars(Finish(h))
    /\ \A k \in Message : WF_vars(InOrder(k) /\ Deadline(k))

-----------------------------------------------------------------------------
(* Properties *)

\* A question guarded by the proxy starts the game again at most once, however
\* picks, repeated picks, the deadline and reconnections race for it.
GuardedOnce ==
    \A k \in Message \ (Unguarded \cup Teleports) : calls[k] <= 1

\* While a question waits for its answer nothing else of the game runs for
\* this player, and once answered exactly one thread carries the game on:
\* one turn token, in the slot, in a handler, or in MainController.
Committing == {h \in Handler : pc[h] = "set"}
OneToken ==
    /\ due <= 1
    /\ current # Wait => due = 0 /\ Committing = {}
    /\ current = Wait => (due = 0) = (Committing # {})

\* A handler resets the slot only if the slot still holds the very question
\* it is answering: an answer never wipes out a later question.
CommitsCurrent ==
    [][\A h \in Handler : SetWait(h) => current = msg[h]]_vars

\* Once the deadline of a question has struck, no answer to it is accepted
\* any more: the lock the task holds keeps the proxies out.
NoAnswerAfterDeadline ==
    [][\A h \in Handler : SetWait(h) => timer[msg[h]] \notin {"expired", "release", "over"}]_vars

\* A question leaves the slot in the end: answered, or struck by its deadline.
\* It can outlive its deadline only if some thread left the lock locked.
QuestionEnds ==
    \A k \in Message : current = k ~> current # k \/ leaked

\* "If there's a lock something is about to put a message in": a handler that
\* holds the lock is inside setControllerMessage (comment in the deadline task,
\* which gives up when it finds the lock taken).
LockHolderSets ==
    lock \in Handler => pc[lock] \in {"locked", "passed", "set"}

\* The slot keeps the promise of QuestionLine.  A question is open while it is
\* in the slot, or while a handler has taken it out but has not yet started
\* the thread that carries on.
OpenQuestion ==
    IF current # Wait THEN current
    ELSE IF Committing # {} THEN msg[CHOOSE h \in Committing : TRUE]
    ELSE 0

Line == INSTANCE QuestionLine
            WITH asked <- issued,
                 open <- OpenQuestion,
                 settled <- {k \in Message : calls[k] > 0}

\* Every step of the slot puts a question, settles the open one, or is
\* invisible to MainController.
ImplementsLine == Line!Spec
=============================================================================
