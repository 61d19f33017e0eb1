---------------------------- MODULE ClientPolling ----------------------------
(***************************************************************************)
(* How a client learns what its player is asked (ClientController): while  *)
(* it has no question it polls, once it has one it stops; the answers      *)
(* lead to further messages, which it keeps on a stack to go back on.      *)
(* Requests and replies take their time, on threads of their own, and the  *)
(* deadline of a question may strike meanwhile.                            *)
(* The server is what MessageSlot shows it to be: a slot and a cache of    *)
(* the messages that may be answered.  All it says is <<question, level>>. *)
(***************************************************************************)
EXTENDS Integers, SequencesExt

CONSTANTS
    MaxQuestion,    \* bound on the questions put to the player
    Depth,          \* how many messages each question leads through
    MaxFlight,      \* bound on the requests under way
    MaxStack,       \* bound on the stack while the first question is fetched again
    PowerUpChoices  \* the messages that offer powerups

ClientMessage == UNION {{<<q, l>> : l \in 1..Depth[q]} : q \in 1..MaxQuestion}

ASSUME ClientAssumption ==
    /\ MaxQuestion \in Nat /\ Depth \in [1..MaxQuestion -> Nat \ {0}] /\ MaxFlight \in Nat \ {0}
    /\ MaxStack \in Nat \ {0}
    /\ PowerUpChoices \subseteq ClientMessage

WaitMessage == <<0, 0>>      \* a message of type WAIT
RollbackMessage == <<0, 1>>  \* a message of type ROLLBACK
Nothing == <<0, 2>>          \* nothing on the screen

VARIABLES
    slot,       \* the question in the slot, 0 if it is a WAIT
    asked,      \* how many have been put
    expiring,   \* its deadline struck, but the WAIT is not there yet
    answerable, \* the messages ObjectMap lets the client answer
    notice,     \* notifications of the lost turn that are under way
    stack,      \* the client's stack, its top first
    polling,    \* the timer for polling is on
    firstMap,   \* the first powerups are fetched twice, to have the map: "yes" before
                \* that, "fetching" while the call that polls again has not returned
    shown,      \* the message the view asks the player to answer
    flight      \* requests under way and the replies they turn into

serverVars == <<slot, asked, expiring, answerable, notice>>
clientVars == <<stack, polling, firstMap, shown>>
pollingVars == <<serverVars, clientVars, flight>>

PollRequest == [kind |-> "poll"]
PickRequest(m, good) == [kind |-> "pick", msg |-> m, good |-> good]
ReplyWith(m) == [kind |-> "reply", msg |-> m]

ClientInit ==
    /\ slot = 0 /\ asked = 0 /\ expiring = FALSE /\ answerable = {} /\ notice = 0
    /\ stack = <<>> /\ shown = Nothing
    /\ firstMap = "yes"
    \* onStarting, or login of somebody who comes back
    /\ polling = TRUE
    /\ flight = <<PollRequest>>

-----------------------------------------------------------------------------
(* The server *)

\* SlaveController.setCurrentMessage
PutQuestion ==
    /\ slot = 0 /\ ~expiring /\ asked < MaxQuestion
    /\ asked' = asked + 1
    /\ slot' = asked'
    /\ UNCHANGED <<expiring, answerable, notice, clientVars, flight>>

\* The deadline task: the cache is cleared and the client is told ...
Strike ==
    /\ slot # 0 /\ ~expiring
    /\ expiring' = TRUE
    /\ answerable' = {}
    /\ notice' = notice + 1
    /\ UNCHANGED <<slot, asked, clientVars, flight>>

\* ... before the WAIT is put in.
PutWait ==
    /\ expiring
    /\ expiring' = FALSE
    /\ slot' = 0
    /\ UNCHANGED <<asked, answerable, notice, clientVars, flight>>

\* Slip: a question is handed out only once.
ServePollOnce(i) ==
    /\ flight[i].kind = "poll"
    /\ flight' = [flight EXCEPT ![i] =
                     ReplyWith(IF slot = 0 \/ <<slot, 1>> \in answerable THEN WaitMessage
                               ELSE <<slot, 1>>)]
    /\ answerable' = IF slot = 0 THEN answerable ELSE answerable \cup {<<slot, 1>>}
    /\ UNCHANGED <<slot, asked, expiring, notice, clientVars>>

\* ObjectMap.poll
ServePoll(i) ==
    /\ flight[i].kind = "poll"
    /\ flight' = [flight EXCEPT ![i] = ReplyWith(IF slot = 0 THEN WaitMessage ELSE <<slot, 1>>)]
    /\ answerable' = IF slot = 0 THEN answerable ELSE answerable \cup {<<slot, 1>>}
    /\ UNCHANGED <<slot, asked, expiring, notice, clientVars>>

\* ObjectMap.pick.  A choice without a valid target leads to a rollback; the last
\* level commits, unless the question is over.
ServePick(i) ==
    /\ flight[i].kind = "pick"
    /\ LET m == flight[i].msg
           reply == IF m \notin answerable THEN WaitMessage
                    ELSE IF ~flight[i].good THEN RollbackMessage
                    ELSE IF m[2] < Depth[m[1]] THEN <<m[1], m[2] + 1>>
                    ELSE WaitMessage
       IN /\ flight' = [flight EXCEPT ![i] = ReplyWith(reply)]
          /\ answerable' = IF m \in answerable /\ reply = WaitMessage THEN {}
                           ELSE IF reply \in ClientMessage THEN answerable \cup {reply}
                           ELSE answerable
          /\ slot' = IF m \in answerable /\ reply = WaitMessage /\ slot = m[1] /\ ~expiring
                     THEN 0 ELSE slot
    /\ UNCHANGED <<asked, expiring, notice, clientVars>>

-----------------------------------------------------------------------------
(* ClientController *)

\* elaborate, from the choice on: the thread that shows it, or polls once more.
Present(m, others) ==
    IF firstMap # "no" /\ m \in PowerUpChoices
    THEN /\ flight' = Append(others, PollRequest)
         /\ firstMap' = "fetching"
         /\ UNCHANGED shown
    ELSE /\ flight' = others
         /\ shown' = m
         /\ UNCHANGED firstMap

\* elaborate of a message with a choice, on top of rest.
Push(m, rest, others) ==
    /\ stack' = <<m>> \o rest
    /\ polling' = FALSE
    /\ Present(m, others)

\* Slip: nothing is asked for when the stack has run out.
ForgetToAsk(others) ==
    /\ stack' = <<>>
    /\ shown' = Nothing
    /\ flight' = others
    /\ UNCHANGED firstMap

\* rollback with nothing to go back to: what the server has is fetched.
AskAgain(others) ==
    /\ stack' = <<>>
    /\ shown' = Nothing
    /\ flight' = Append(others, PollRequest)
    /\ UNCHANGED firstMap

\* rollback, to the message before.
RollbackFrom(others, poll) ==
    IF Len(stack) <= 1
    THEN AskAgain(others) /\ polling' = poll
    ELSE Push(stack[2], SubSeq(stack, 3, Len(stack)), others)

\* elaborate of a WAIT.
WaitAgain(others) ==
    /\ stack' = <<>>
    /\ shown' = IF polling THEN shown ELSE Nothing
    /\ polling' = TRUE
    /\ flight' = others
    /\ UNCHANGED firstMap

\* A reply reaches the client.  (A ROLLBACK is pushed, which stops the polling,
\* and popped again.)
Deliver(i) ==
    /\ flight[i].kind = "reply"
    /\ firstMap = "fetching" => Len(stack) < MaxStack
    /\ LET m == flight[i].msg
           others == RemoveAt(flight, i)
       IN \/ m = WaitMessage /\ WaitAgain(others)
          \/ m = RollbackMessage /\ RollbackFrom(others, FALSE)
          \/ m \in ClientMessage /\ Push(m, stack, others)
    /\ UNCHANGED serverVars

\* The poll that fetches the first question again is over: at once over sockets,
\* after its reply was elaborated over RMI.
Fetched ==
    /\ firstMap = "fetching"
    /\ firstMap' = "no"
    /\ UNCHANGED <<serverVars, stack, polling, shown, flight>>

\* The timer of the polling.
Tick ==
    /\ polling /\ Len(flight) < MaxFlight
    /\ flight' = Append(flight, PollRequest)
    /\ UNCHANGED <<serverVars, clientVars>>

\* onConnection: the player is told that he lost his turn.
Notified ==
    /\ notice > 0
    /\ notice' = notice - 1
    /\ polling' = TRUE
    /\ UNCHANGED <<slot, asked, expiring, answerable, stack, firstMap, shown, flight>>

\* The player answers what he is shown: with targets that exist, or without.
Pick(good) ==
    /\ shown # Nothing /\ Len(flight) < MaxFlight
    /\ flight' = Append(flight, PickRequest(shown, good))
    /\ shown' = Nothing
    /\ UNCHANGED <<serverVars, stack, polling, firstMap>>

\* rollback, chosen by the player.
Back ==
    /\ shown # Nothing /\ Len(flight) < MaxFlight
    /\ RollbackFrom(flight, polling)
    /\ UNCHANGED serverVars

\* restartSelection
Restart ==
    /\ shown # Nothing /\ Len(flight) < MaxFlight
    /\ IF stack = <<>> THEN AskAgain(flight) /\ UNCHANGED polling
                       ELSE Push(Last(stack), <<>>, flight)
    /\ UNCHANGED serverVars

ServeOne == \E i \in 1..Len(flight) : ServePoll(i) \/ ServePick(i)
DeliverOne == \E i \in 1..Len(flight) : Deliver(i)

ClientNext ==
    \/ PutQuestion \/ Strike \/ PutWait
    \/ ServeOne \/ DeliverOne
    \/ Fetched \/ Tick \/ Notified
    \/ Pick(TRUE) \/ Pick(FALSE) \/ Back \/ Restart

(* Threads and timers run; the oldest request is served and its reply delivered
   at some time, the others in any order; a player who is shown something over and over gives a
   valid answer some time, and does not go back from the last message of a question
   for ever.  Nothing makes the server ask or the deadline strike. *)
Fairness ==
    /\ WF_pollingVars(PutWait) /\ WF_pollingVars(Fetched)
    /\ WF_pollingVars(Tick) /\ WF_pollingVars(Notified)
    /\ WF_pollingVars(flight # <<>> /\ (ServePoll(1) \/ ServePick(1)))
    /\ WF_pollingVars(flight # <<>> /\ Deliver(1))
    /\ SF_pollingVars(Pick(TRUE))
    /\ SF_pollingVars(shown \in ClientMessage /\ shown[2] = Depth[shown[1]] /\ Pick(TRUE))

ClientSpec == ClientInit /\ [][ClientNext]_pollingVars /\ Fairness

-----------------------------------------------------------------------------
(* Properties *)

\* A client is never left with nothing to wait for: it polls, it has a question on
\* the screen, or a request is under way.  elaborate, rollback and onConnection
\* switch the timer on and off independently of what is on the stack.
NotDeaf == polling \/ shown # Nothing \/ flight # <<>>

\* A question that stays in the slot reaches the player's screen, whatever late
\* replies to earlier polls, lost-turn notices and rollbacks the client goes
\* through before: elaborate stops the polling for a stale question, too.
Shown ==
    \A q \in 1..MaxQuestion : slot = q /\ ~expiring ~> shown[1] = q \/ slot # q \/ expiring
=============================================================================
