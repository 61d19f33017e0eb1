------------------------------- MODULE Actions -------------------------------
(***************************************************************************)
(* How a player composes his turn.  Every message the server sends is a    *)
(* closure over a Sandbox, the game as it would be after the choices made  *)
(* so far; the answer to it yields the next message over a new Sandbox.    *)
(* Nothing happens until the player confirms; then the effects gathered in *)
(* the Sandbox are merged in the game one by one.  Until then he can go    *)
(* back to any message on his client's stack and answer it again.          *)
(*                                                                         *)
(* Targets are left open, and so are the effects on other players: what is *)
(* followed is what the player spends, reloads and fires.                  *)
(***************************************************************************)
EXTENDS Ammo, Sequences, SequencesExt

CONSTANTS Weapon,      \* the weapons the player owns
          ReloadCost,  \* Weapon.getReloadCost
          Mode,        \* the actions of a weapon, "main" among them
          ModeCost,    \* ActionInfo.cost
          Needs,       \* actionRequirements: the actions one must follow ...
          Excludes,    \* ... and those it cannot follow
          Template,    \* the effects of the actions he may choose from
          Scope,       \* the powerups that are targeting scopes
          Usable       \* those that can be used at any time

ASSUME ActionsAssumption ==
    /\ IsFiniteSet(Weapon)
    /\ ReloadCost \in [Weapon -> Amount]
    /\ "main" \in Mode
    /\ ModeCost \in [Mode -> Amount]
    /\ Needs \in [Mode -> SUBSET Mode]
    /\ Excludes \in [Mode -> SUBSET Mode]
    /\ Template \subseteq Seq({"move", "reload", "fire"})
    /\ Scope \subseteq Card /\ Usable \subseteq Card \ Scope

VARIABLES
    cubes, cards, loaded,  \* what the player has in the game
    acts,      \* the action bundles he still has, -1: only the end of the turn
    hit,       \* whether his last bundle damaged somebody
    stack,     \* the client's stack: the messages he can answer
    effects,   \* what he confirmed and is not merged yet
    foreseen   \* what the Sandbox he confirmed says he will have

owned == <<cubes, cards, loaded>>
vars == <<owned, acts, hit, stack, effects, foreseen>>

-----------------------------------------------------------------------------
(* Effects and sandboxes *)

Kind == {"move", "reload", "fire", "mode", "payCard", "payCubes"}
Effect == [do : Kind, on : Weapon \cup Mode \cup Card \cup {""}, amount : Amount]
Does(do, on) == [do |-> do, on |-> on, amount |-> Zero]
PaysCubes(amount) == [do |-> "payCubes", on |-> "", amount |-> amount]

\* The cubes, cards and loaded weapons after an effect: Sandbox's constructor,
\* from the new... methods of Effect.
After(have, e) ==
    [cubes  |-> IF e.do = "payCubes" THEN Subtract(have.cubes, e.amount) ELSE have.cubes,
     cards  |-> IF e.do = "payCard" THEN have.cards \ {e.on} ELSE have.cards,
     loaded |-> CASE e.do = "reload" -> have.loaded \cup {e.on}
                  [] e.do = "fire" -> have.loaded \ {e.on}
                  [] OTHER -> have.loaded]

\* A Sandbox: what the player would have, and how he comes to it.
Box == [have : [cubes : Amount, cards : SUBSET Card, loaded : SUBSET Weapon],
        history : Seq(Effect), template : Template \cup {<<>>}]

NewBox(has) == [have |-> has, history |-> <<>>, template |-> <<>>]
With(box, es) ==
    [box EXCEPT !.have = FoldLeft(After, @, es), !.history = @ \o es]

\* Sandbox.getUpdatedTotalAmmoAvailable.
Total(box) == Add(box.have.cubes, Worth(box.have.cards))

-----------------------------------------------------------------------------
(* Messages.  rest is what the iterator of the Action that spawned a reload or
   fire message has left; own says where on the stack the message is whose
   iterator goes on when this one is through, 0 for the reload at the end of
   the turn. *)

Ask == {"menu", "reload", "pay", "weapon", "mode", "confirm"}
Message == [ask : Ask, box : Box, own : Nat, rest : Seq({"move", "reload", "fire"}),
            owed : Amount, taken : SUBSET Mode]

Msg(ask, box, own) == [ask |-> ask, box |-> box, own |-> own, rest |-> <<>>,
                       owed |-> Zero, taken |-> {}]

\* setPowUps: the menu of the next bundle, or the reload when none is left.
Menu(has, n) == <<Msg(IF n > 0 THEN "menu" ELSE "reload", NewBox(has), 0)>>

\* Action.iterate: effects without a question are done at once, the first of
\* the others asks; with none left the bundle asks for confirmation.
Iterate(todo, box, at) ==
    LET asks == {i \in DOMAIN todo : todo[i] # "move"}
        i == CHOOSE i \in asks : \A j \in asks : i <= j
        moves(n) == [k \in 1..n |-> Does("move", "")]
    IN IF asks = {}
       THEN Msg("confirm", With(box, moves(Len(todo))), 0)
       ELSE [Msg(IF todo[i] = "fire" THEN "weapon" ELSE "reload",
                 With(box, moves(i - 1)), at)
             EXCEPT !.rest = SubSeq(todo, i + 1, Len(todo))]

Init ==
    /\ cubes \in [Colour -> 0..MaxAmmo]
    /\ cards \in SUBSET Card
    /\ loaded \in SUBSET Weapon
    /\ acts \in {1, 2}
    /\ hit = FALSE
    /\ effects = <<>>
    /\ foreseen = [cubes |-> cubes, cards |-> cards, loaded |-> loaded]
    /\ stack = Menu(foreseen, acts)

TypeOK ==
    /\ cubes \in [Colour -> 0..MaxAmmo] /\ cards \subseteq Card /\ loaded \subseteq Weapon
    /\ acts \in -1..2
    /\ hit \in BOOLEAN
    /\ \A i \in DOMAIN stack : stack[i] \in Message /\ stack[i].own <= i
    /\ effects \in Seq(Effect)
    /\ foreseen \in [cubes : Amount, cards : SUBSET Card, loaded : SUBSET Weapon]

-----------------------------------------------------------------------------
(* Answers.  The i-th message of the stack is answered: the client has rolled
   back what is above it. *)

Back(i) == SubSeq(stack, 1, i)
Send(i, m) == stack' = Append(Back(i), m)

\* The answer is final: the proxy puts the player in wait and a thread runs
\* resolveEffect.
Resolve(box, n) ==
    /\ stack' = <<>>
    /\ effects' = box.history
    /\ foreseen' = box.have
    /\ acts' = n
    /\ UNCHANGED owned

Composing == UNCHANGED <<owned, acts, hit, effects, foreseen>>

\* The consumer given to EffectTemplate.spawn: it takes what the iterator has
\* left, which empties it, and iterates over that.
Continue(i, own, box) ==
    IF own = 0
    THEN Resolve(box, -1) /\ UNCHANGED hit
    ELSE /\ stack' = Append([Back(i) EXCEPT ![own].rest = <<>>],
                            Iterate(stack[own].rest, box, i + 1))
         /\ Composing

\* WeaponUse: the actions of the weapon that can follow those taken.
Available(box, taken) ==
    {a \in Mode : /\ CanBuy(Limit(Total(box)), ModeCost[a])
                  /\ Needs[a] \subseteq taken
                  /\ Excludes[a] \cap taken = {}}

\* Once paid: after a reload the action goes on, after an action of a weapon
\* the next one can be chosen.
Proceed(i, own, taken, box) ==
    IF taken = {} THEN Continue(i, own, box)
    ELSE /\ Send(i, [Msg("mode", box, own) EXCEPT !.taken = taken])
         /\ Composing

PayCards(S) == SetToSeq({Does("payCard", p) : p \in S})

\* The cards that are of use against a debt.
Useful(box, owed) == {p \in box.have.cards : CanBuy(owed, One(ColourOf[p]))}

\* Slip: cubes pay all of a debt that cards have paid in part.
SettleOwed(i, own, taken, box, owed, S) ==
    LET left == Subtract(owed, Worth(S))
        used == With(box, PayCards(S))
    IN IF CanBuy(used.have.cubes, left)
       THEN Proceed(i, own, taken, With(used, <<PaysCubes(owed)>>))
       ELSE /\ Send(i, [Msg("pay", used, own) EXCEPT !.owed = left, !.taken = taken])
            /\ Composing

\* Slip: what cards did not cover is asked for with the part that they did.
SettleAgain(i, own, taken, box, owed, S) ==
    LET left == Subtract(owed, Worth(S))
        used == With(box, PayCards(S))
    IN IF left = Zero
       THEN Proceed(i, own, taken, used)
       ELSE /\ Send(i, [Msg("pay", used, own) EXCEPT !.owed = owed, !.taken = taken])
            /\ Composing

\* PayTemplate's onChoice: the cards are used, cubes pay what is left if they
\* are enough, and otherwise the rest of the debt is asked for.
Settle(i, own, taken, box, owed, S) ==
    LET left == Subtract(owed, Worth(S))
        used == With(box, PayCards(S))
    IN CASE left = Zero -> Proceed(i, own, taken, used)
         [] left # Zero /\ CanBuy(used.have.cubes, left) ->
              Proceed(i, own, taken, With(used, <<PaysCubes(left)>>))
         [] OTHER -> /\ Send(i, [Msg("pay", used, own)
                                  EXCEPT !.owed = left, !.taken = taken])
                     /\ Composing

\* PayTemplate.spawn, for a debt the player can pay: no question if no card
\* is of use.
AskPay(i, own, taken, box, owed) ==
    IF Useful(box, owed) = {} THEN Settle(i, own, taken, box, owed, {})
    ELSE /\ Send(i, [Msg("pay", box, own) EXCEPT !.owed = owed, !.taken = taken])
         /\ Composing

PickPay(i) ==
    LET m == stack[i] IN
    /\ m.ask = "pay"
    /\ \E S \in SUBSET Useful(m.box, m.owed) :
          /\ CanBuy(m.owed, Worth(S))
          /\ S # {} \/ CanBuy(m.box.have.cubes, m.owed)
          /\ Settle(i, m.own, m.taken, m.box, m.owed, S)

\* ActionBundle.pickAction.
PickBundle(i) ==
    /\ stack[i].ask = "menu"
    /\ \E t \in Template :
          Send(i, Iterate(t, [stack[i].box EXCEPT !.template = t], i + 1))
    /\ Composing

Reloads(S) == SetToSeq({Does("reload", w) : w \in S})
ReloadDebt(S) == [c \in Colour |-> SumFunction([w \in S |-> ReloadCost[w][c]])]

\* Slip: nobody looks whether the player can pay.
PickReloadUnchecked(i) ==
    LET m == stack[i] IN
    /\ m.ask = "reload"
    /\ \E S \in SUBSET (Weapon \ m.box.have.loaded) :
          IF S = {} THEN Continue(i, m.own, m.box)
          ELSE AskPay(i, m.own, {}, With(m.box, Reloads(S)), ReloadDebt(S))

\* ReloadTemplate's pick: a choice he cannot pay is rolled back.
PickReload(i) ==
    LET m == stack[i] IN
    /\ m.ask = "reload"
    /\ \E S \in SUBSET (Weapon \ m.box.have.loaded) :
          IF S = {} THEN Continue(i, m.own, m.box)
          ELSE /\ CanBuy(Total(m.box), ReloadDebt(S))
               /\ AskPay(i, m.own, {}, With(m.box, Reloads(S)), ReloadDebt(S))

\* Fire's pick.
PickWeapon(i) ==
    LET m == stack[i] IN
    /\ m.ask = "weapon"
    /\ \E w \in m.box.have.loaded :
          Send(i, Msg("mode", With(m.box, <<Does("fire", w)>>), m.own))
    /\ Composing

\* WeaponUse.pickAction: the action is played, its effects end with the payment.
PickMode(i) ==
    LET m == stack[i] IN
    /\ m.ask = "mode"
    /\ \E a \in Available(m.box, m.taken) :
          AskPay(i, m.own, m.taken \cup {a},
                 With(m.box, <<Does("mode", a)>>), ModeCost[a])

\* WeaponUse.pickAction without a choice, once the main action is out.
Stop(i) ==
    LET m == stack[i] IN
    /\ m.ask = "mode"
    /\ m.taken # {} /\ "main" \notin Available(m.box, m.taken)
    /\ Continue(i, m.own, m.box)

\* The bundle's confirmation, and bundleFinalizer.
Confirm(i) ==
    LET box == stack[i].box IN
    /\ stack[i].ask = "confirm"
    /\ hit' \in {FALSE, \E k \in DOMAIN box.history : box.history[k].do = "mode"}
    /\ Resolve(box, acts - 1)

-----------------------------------------------------------------------------
(* Powerups used from the menu *)

\* setPowUps: the cards that can be used after the last bundle; of a single
\* card without cubes only a scope is kept.
Offered ==
    LET can == cards \cap (Usable \cup (IF hit THEN Scope ELSE {}))
    IN IF Cardinality(cards) = 1 /\ cubes = Zero THEN can \cap Scope ELSE can

InMenu == stack # <<>> /\ acts >= 0

\* Newton and Teleporter: the card is discarded, the same menu comes back.
UsePowerup ==
    /\ InMenu
    /\ \E p \in Offered \ Scope :
          /\ cards' = cards \ {p}
          /\ foreseen' = [cubes |-> cubes, cards |-> cards', loaded |-> loaded]
    /\ stack' = <<>>
    /\ UNCHANGED <<cubes, loaded, acts, hit, effects>>

\* TargScope and PayWildCardTemp: the scope is discarded, and another card or a
\* cube of any colour pays for it.
UseScope ==
    /\ InMenu
    /\ \E p \in Offered \cap Scope :
          \E e \in {Does("payCard", q) : q \in cards \ {p}}
                   \cup {PaysCubes(One(c)) : c \in {d \in Colour : cubes[d] > 0}} :
             /\ cards' = cards \ {p}
             /\ effects' = <<e>>
             /\ foreseen' = After([cubes |-> cubes, cards |-> cards', loaded |-> loaded], e)
    /\ stack' = <<>>
    /\ UNCHANGED <<cubes, loaded, acts, hit>>

-----------------------------------------------------------------------------
(* resolveEffect *)

\* Slip: a weapon that was fired stays loaded.
MergeEffectUnfired ==
    /\ effects # <<>>
    /\ LET e == Head(effects) IN
       /\ cubes' = IF e.do = "payCubes" THEN Limit(Subtract(cubes, e.amount)) ELSE cubes
       /\ cards' = IF e.do = "payCard" THEN cards \ {e.on} ELSE cards
       /\ loaded' = IF e.do = "reload" THEN loaded \cup {e.on} ELSE loaded
    /\ effects' = Tail(effects)
    /\ UNCHANGED <<acts, hit, stack, foreseen>>

\* One effect's mergeInGameMap, with the Actor's method it calls.
MergeEffect ==
    /\ effects # <<>>
    /\ LET e == Head(effects) IN
       /\ cubes' = IF e.do = "payCubes" THEN Limit(Subtract(cubes, e.amount)) ELSE cubes
       /\ cards' = IF e.do = "payCard" THEN cards \ {e.on} ELSE cards
       /\ loaded' = CASE e.do = "reload" -> loaded \cup {e.on}
                      [] e.do = "fire" -> loaded \ {e.on}
                      [] OTHER -> loaded
    /\ effects' = Tail(effects)
    /\ UNCHANGED <<acts, hit, stack, foreseen>>

\* No effect is left: the next menu, from a new Sandbox.
NextMenu ==
    /\ effects = <<>> /\ stack = <<>> /\ acts >= 0
    /\ stack' = Menu([cubes |-> cubes, cards |-> cards, loaded |-> loaded], acts)
    /\ UNCHANGED <<owned, acts, hit, effects, foreseen>>

Next ==
    \/ \E i \in DOMAIN stack :
          \/ PickBundle(i) \/ PickReload(i) \/ PickPay(i) \/ PickWeapon(i)
          \/ PickMode(i) \/ Stop(i) \/ Confirm(i)
    \/ UsePowerup \/ UseScope
    \/ MergeEffect \/ NextMenu

Spec == Init /\ [][Next]_vars

-----------------------------------------------------------------------------
(* Properties *)

\* What the effects of a sequence cost, and what they pay.
CostOf(e) ==
    CASE e.do = "reload" -> ReloadCost[e.on]
      [] e.do = "mode" -> ModeCost[e.on]
      [] OTHER -> Zero
PaidBy(e) == IF e.do = "payCard" THEN Worth({e.on}) ELSE e.amount

Cost(es) == [c \in Colour |-> SumFunction([i \in DOMAIN es |-> CostOf(es[i])[c]])]
Paid(es) == [c \in Colour |-> SumFunction([i \in DOMAIN es |-> PaidBy(es[i])[c]])]

\* Whatever the player goes back to and changes, a plan pays for what it
\* contains, once, up to the debt it is being asked for.
PaidExactly ==
    \A i \in DOMAIN stack :
        LET m == stack[i]
        IN Cost(m.box.history) = Add(Paid(m.box.history), m.owed)

\* A debt that is asked for can be paid with what the plan has left: no card
\* or cube is promised twice.  Some card is of use, so that the question has a
\* choice, and PayTemplate.spawn does not call itself for ever on an empty one.
PaymentPossible ==
    \A i \in DOMAIN stack : LET m == stack[i] IN
        m.ask = "pay" => CanBuy(Total(m.box), m.owed) /\ Useful(m.box, m.owed) # {}

\* Each effect finds what it needs when it is merged: a weapon to reload is
\* unloaded, a weapon to fire is loaded, cards and cubes are still there.
\* Otherwise an exception ends the thread the game hangs on, or a card that is
\* gone pays for nothing.
MergesSucceed ==
    effects # <<>> =>
        LET e == Head(effects) IN
        /\ e.do = "reload" => e.on \notin loaded
        /\ e.do = "fire" => e.on \in loaded
        /\ e.do = "payCard" => e.on \in cards
        /\ e.do = "payCubes" => CanBuy(cubes, e.amount)

\* Neither composing nor merging a plan comes to a point where it cannot go on.
NeverStuck == PaymentPossible /\ MergesSucceed

\* When everything is merged the player has what the Sandbox showed him.
PlanKept ==
    effects = <<>> /\ stack = <<>> =>
        foreseen = [cubes |-> cubes, cards |-> cards, loaded |-> loaded]

\* "Add all effects except the first one to the list" (Action.iterate): a plan to
\* be confirmed has all the effects of the action that was chosen, the reload,
\* which may be declined, excepted.
EffectsComplete ==
    \A i \in DOMAIN stack : LET m == stack[i] IN
        m.ask = "confirm" =>
            ToSet(m.box.template) \ {"reload"}
                \subseteq {m.box.history[k].do : k \in DOMAIN m.box.history}
=============================================================================
