------------------------------- MODULE Spreads ------------------------------
(***************************************************************************)
(* Option spreads of a backtest (internal/backtest: options.go, context.go,*)
(* replayer.go, valuation_runtime.go).  Every bar the replayer runs the    *)
(* scheduled actions that are due, lets the strategy act, and then closes  *)
(* the legs that have expired, ranging over the tracker's list of open     *)
(* spreads while CloseLegFull takes spreads out of that list.              *)
(*                                                                         *)
(* Spreads are numbered as the tracker numbers them.  Every leg is of      *)
(* quantity and multiplier one; commission is flat and slippage part of    *)
(* the prices, which are drawn where the code looks a quote up.            *)
(***************************************************************************)
EXTENDS Integers, Sequences, FiniteSets, Functions

CONSTANTS
    Templates,    \* sequences of legs a strategy may open: side and expiry
    Quotes,
    LegCommission,
    LastBar,      \* number of bars of the run
    MaxSpreads,   \* bound: spreads opened
    MaxLegs,      \* bound: legs of a spread
    MaxScheduled  \* bound: actions scheduled in a run

LegSides == {1, -1}    \* Buy, Sell

ASSUME SpreadConstants ==
    /\ LastBar \in Nat \ {0} /\ MaxSpreads \in Nat /\ MaxLegs \in Nat /\ MaxScheduled \in Nat
    /\ Quotes \subseteq Nat /\ LegCommission \in Nat
    /\ Templates \subseteq Seq([side : LegSides, expiry : Nat]) \ {<<>>}

Legs == [side : LegSides, expiry : Nat, entry : Quotes, closed : BOOLEAN, exit : Quotes \cup {0}]

\* kind: a spread to open, a leg or a spread to close.  priced: not a market
\* action, it waits for its price.
Actions == [kind : {"open", "leg", "spread"}, bar : Nat, priced : BOOLEAN,
            legs : Templates \cup {<<>>}, id : Nat, leg : Nat]

VARIABLES
    barPhase,   \* scheduled actions, OnBar, closing of expired legs, end of the bar
    bar,
    spreads,    \* legs of every spread, by its ID: spreadMap
    array,      \* the array behind the list of open spreads: IDs
    size,       \* length of that list; what follows is stale
    archive,    \* closed spreads
    spreadCash, \* relative to the initial capital
    scheduled,  \* actions; while they are run, the remaining ones
    toRun,      \* actions the replayer has still to look at
    at,         \* index of the range over the open spreads
    visiting,   \* the spread it holds, 0 before the first
    count,      \* number of actions ever scheduled
    promised    \* history: market actions to close, as they were scheduled

lists == <<spreads, array, size, archive, spreadCash>>
schedule == <<scheduled, toRun, count, promised>>
range == <<at, visiting>>
spreadVars == <<barPhase, bar, lists, schedule, range>>

Open == SubSeq(array, 1, size)    \* st.open
Ids == 1..Len(spreads)
FullyClosed(legs) == \A l \in DOMAIN legs : legs[l].closed
OpenLegs(id) == {l \in DOMAIN spreads[id] : ~spreads[id][l].closed}
Expired(id) == {l \in OpenLegs(id) : spreads[id][l].expiry <= bar}

SpreadInit ==
    /\ barPhase = "done" /\ bar = 0
    /\ spreads = <<>> /\ array = <<>> /\ size = 0 /\ archive = <<>> /\ spreadCash = 0
    /\ scheduled = <<>> /\ toRun = <<>> /\ count = 0 /\ promised = {}
    /\ at = 0 /\ visiting = 0

(***************************************************************************)
(* The tracker                                                             *)
(***************************************************************************)

Bought(template, price) ==
    [l \in DOMAIN template |->
        [side |-> template[l].side, expiry |-> template[l].expiry, entry |-> price,
         closed |-> FALSE, exit |-> 0]]

\* What a leg moves in cash when it is opened, and when it is closed.
EntryFlow(leg) == -leg.side * leg.entry - LegCommission
ExitFlow(leg, price) == leg.side * price - LegCommission

EntryFlows(legs) == SumFunction([l \in DOMAIN legs |-> EntryFlow(legs[l])])
ExitFlows(legs, which, price) == SumFunction([l \in which |-> ExitFlow(legs[l], price)])

\* OpenSpread: the list grows, in place or in a new array.
Opens(template, price) ==
    /\ Len(spreads) < MaxSpreads
    /\ LET legs == Bought(template, price)
       IN  /\ spreads' = Append(spreads, legs)
           /\ array' = Append(Open, Len(spreads) + 1)
           /\ size' = size + 1
           /\ spreadCash' = spreadCash + EntryFlows(legs)
           /\ UNCHANGED archive

\* archiveIfClosed: append(open[:i], open[i+1:]...) moves the rest of the
\* list down in the same array; the last place keeps what it held.
Archived(id, legs) ==
    IF FullyClosed(legs) /\ \E k \in 1..size : array[k] = id
    THEN LET i == CHOOSE k \in 1..size : array[k] = id
         IN  /\ array' = [k \in DOMAIN array |-> IF k >= i /\ k < size THEN array[k + 1] ELSE array[k]]
             /\ size' = size - 1
             /\ archive' = Append(archive, id)
    ELSE UNCHANGED <<array, size, archive>>

\* CloseLegFull for each of a set of open legs.
Closes(id, which, price) ==
    LET legs == [l \in DOMAIN spreads[id] |->
                    IF l \in which THEN [spreads[id][l] EXCEPT !.closed = TRUE, !.exit = price]
                    ELSE spreads[id][l]]
    IN  /\ spreads' = [spreads EXCEPT ![id] = legs]
        /\ spreadCash' = spreadCash + ExitFlows(legs, which, price)
        /\ Archived(id, legs)

(***************************************************************************)
(* Scheduled actions                                                       *)
(***************************************************************************)

BarBegins ==
    /\ barPhase = "done" /\ bar < LastBar
    /\ barPhase' = "scheduled" /\ bar' = bar + 1
    /\ toRun' = scheduled /\ scheduled' = <<>>
    /\ array' = Open
    /\ at' = 0 /\ visiting' = 0
    /\ UNCHANGED <<spreads, size, archive, spreadCash, count, promised>>

CurrentAction == Head(toRun)
LookingAtAction == barPhase = "scheduled" /\ toRun # <<>> /\ toRun' = Tail(toRun)
Remains == scheduled' = Append(scheduled, CurrentAction)

\* Mutant: an action is due on the bar after its time.
DueLate == CurrentAction.bar < bar

Due == CurrentAction.bar <= bar

\* Not due, or due and its price is not reached.
ActionWaits ==
    /\ LookingAtAction /\ (~Due \/ CurrentAction.priced)
    /\ Remains
    /\ UNCHANGED <<barPhase, bar, lists, count, promised, range>>

\* A spread is opened, unless a leg of it has no price: then it is dropped.
OpenScheduled(price) ==
    /\ LookingAtAction /\ Due /\ CurrentAction.kind = "open"
    /\ Opens(CurrentAction.legs, price) \/ UNCHANGED lists
    /\ UNCHANGED <<barPhase, bar, scheduled, count, promised, range>>

\* Nothing is left of an action whose legs are closed already.
CloseScheduled(price) ==
    /\ LookingAtAction /\ Due /\ CurrentAction.kind \in {"leg", "spread"}
    /\ LET which == IF CurrentAction.kind = "leg" THEN OpenLegs(CurrentAction.id) \cap {CurrentAction.leg}
                    ELSE OpenLegs(CurrentAction.id)
       IN  IF which = {} THEN UNCHANGED lists ELSE Closes(CurrentAction.id, which, price)
    /\ UNCHANGED <<barPhase, bar, scheduled, count, promised, range>>

ScheduledDone ==
    /\ barPhase = "scheduled" /\ toRun = <<>>
    /\ barPhase' = "strategy"
    /\ UNCHANGED <<bar, lists, schedule, range>>

(***************************************************************************)
(* OnBar                                                                   *)
(***************************************************************************)

\* What the chain offers has not expired before this bar.
OpenSpread(template, price) ==
    /\ barPhase = "strategy" /\ \A l \in DOMAIN template : template[l].expiry >= bar
    /\ Opens(template, price)
    /\ UNCHANGED <<barPhase, bar, schedule, range>>

\* Mutant: legs are appended and not paid for.
AppendSpreadLegsFree(id, template, price) ==
    /\ barPhase = "strategy" /\ ~FullyClosed(spreads[id])
    /\ Len(spreads[id]) + Len(template) <= MaxLegs
    /\ spreads' = [spreads EXCEPT ![id] = @ \o Bought(template, price)]
    /\ UNCHANGED <<barPhase, bar, array, size, archive, spreadCash, schedule, range>>

\* Legs join a spread that has not been closed.
AppendSpreadLegs(id, template, price) ==
    /\ barPhase = "strategy" /\ ~FullyClosed(spreads[id])
    /\ Len(spreads[id]) + Len(template) <= MaxLegs
    /\ LET legs == Bought(template, price)
       IN  /\ spreads' = [spreads EXCEPT ![id] = @ \o legs]
           /\ spreadCash' = spreadCash + EntryFlows(legs)
    /\ UNCHANGED <<barPhase, bar, array, size, archive, schedule, range>>

CloseSpreadLeg(id, leg, price) ==
    /\ barPhase = "strategy" /\ leg \in OpenLegs(id)
    /\ Closes(id, {leg}, price)
    /\ UNCHANGED <<barPhase, bar, schedule, range>>

CloseSpread(id, price) ==
    /\ barPhase = "strategy" /\ OpenLegs(id) # {}
    /\ Closes(id, OpenLegs(id), price)
    /\ UNCHANGED <<barPhase, bar, schedule, range>>

Schedule(action) ==
    /\ barPhase = "strategy" /\ count < MaxScheduled
    /\ scheduled' = Append(scheduled, action)
    /\ count' = count + 1
    /\ promised' = IF action.priced \/ action.kind = "open" THEN promised
                   ELSE promised \cup {[action EXCEPT !.bar = IF @ > bar THEN @ ELSE bar + 1]}
    /\ UNCHANGED <<barPhase, bar, lists, toRun, range>>

ScheduleOpenSpread(template, when, priced) ==
    /\ \A l \in DOMAIN template : template[l].expiry >= when
    /\ Schedule([kind |-> "open", bar |-> when, priced |-> priced, legs |-> template, id |-> 0, leg |-> 0])

ScheduleCloseLeg(id, leg, when, priced) ==
    Schedule([kind |-> "leg", bar |-> when, priced |-> priced, legs |-> <<>>, id |-> id, leg |-> leg])

ScheduleCloseSpread(id, when, priced) ==
    Schedule([kind |-> "spread", bar |-> when, priced |-> priced, legs |-> <<>>, id |-> id, leg |-> 0])

StrategyDone ==
    /\ barPhase = "strategy"
    /\ barPhase' = "expiry" /\ array' = Open
    /\ UNCHANGED <<bar, spreads, size, archive, spreadCash, schedule, range>>

(***************************************************************************)
(* forceCloseExpiredOptionLegs.  The range looks at as many places as the  *)
(* list had at first, and reads each when it comes to it.                  *)
(***************************************************************************)

ToClose == IF visiting = 0 THEN {} ELSE Expired(visiting)
Done == ToClose = {}

Visit ==
    /\ barPhase = "expiry" /\ Done /\ at < Len(array)
    /\ visiting' = array[at + 1] /\ at' = at + 1
    /\ UNCHANGED <<barPhase, bar, lists, schedule>>

\* The legs of a spread are looked at in their order.
ForceClose(leg, price) ==
    /\ barPhase = "expiry" /\ leg \in ToClose /\ \A other \in ToClose : leg <= other
    /\ Closes(visiting, {leg}, price)
    /\ UNCHANGED <<barPhase, bar, schedule, range>>

\* Mutant: the function returns after the first spread it archived.
AllVisitedAfterFirst ==
    /\ barPhase = "expiry" /\ Done /\ (at = Len(array) \/ size < Len(array))
    /\ barPhase' = "done"
    /\ UNCHANGED <<bar, lists, schedule, range>>

AllVisited ==
    /\ barPhase = "expiry" /\ Done /\ at = Len(array)
    /\ barPhase' = "done"
    /\ UNCHANGED <<bar, lists, schedule, range>>

(***************************************************************************)

ScheduledStep ==
    \/ ActionWaits \/ ScheduledDone
    \/ \E price \in Quotes : OpenScheduled(price) \/ CloseScheduled(price)

StrategyStep ==
    \/ StrategyDone
    \/ \E template \in Templates, price \in Quotes : OpenSpread(template, price)
    \/ \E id \in Ids, template \in Templates, price \in Quotes : AppendSpreadLegs(id, template, price)
    \/ \E id \in Ids, price \in Quotes :
          \/ CloseSpread(id, price)
          \/ \E leg \in DOMAIN spreads[id] : CloseSpreadLeg(id, leg, price)
    \/ \E when \in 1..LastBar, priced \in BOOLEAN :
          \/ \E template \in Templates : ScheduleOpenSpread(template, when, priced)
          \/ \E id \in Ids :
                \/ ScheduleCloseSpread(id, when, priced)
                \/ \E leg \in DOMAIN spreads[id] : ScheduleCloseLeg(id, leg, when, priced)

ExpiryStep ==
    \/ Visit \/ AllVisited
    \/ \E leg \in ToClose, price \in Quotes \cup {0} : ForceClose(leg, price)

SpreadNext == BarBegins \/ ScheduledStep \/ StrategyStep \/ ExpiryStep

SpreadSpec == SpreadInit /\ [][SpreadNext]_spreadVars

(***************************************************************************)
(* Properties                                                              *)
(***************************************************************************)

\* Every variable keeps its type, and the list fits the array behind it (of
\* cash, CashIsLegs says more).
TypeLists ==
    /\ spreads \in Seq(Seq(Legs)) /\ Len(spreads) <= MaxSpreads
    /\ array \in Seq(Ids) /\ size \in 0..Len(array) /\ archive \in Seq(Ids)

SpreadTypeOK ==
    /\ barPhase \in {"scheduled", "strategy", "expiry", "done"} /\ bar \in 0..LastBar
    /\ TypeLists
    /\ scheduled \in Seq(Actions) /\ toRun \in Seq(Actions) /\ promised \subseteq Actions
    /\ count \in 0..MaxScheduled
    /\ at \in 0..Len(array) /\ visiting \in Ids \cup {0}

\* Every spread is in exactly one of the tracker's two lists, once: in the
\* open one as long as it has an open leg, also while it is ranged over.
ListedOnce ==
    /\ \A k, l \in 1..size : array[k] = array[l] => k = l
    /\ \A k, l \in DOMAIN archive : archive[k] = archive[l] => k = l
    /\ \A id \in Ids :
          /\ (\E k \in 1..size : array[k] = id) <=> ~FullyClosed(spreads[id])
          /\ (\E k \in DOMAIN archive : archive[k] = id) <=> FullyClosed(spreads[id])

\* What a leg has moved in cash by now, and what those of a spread have.
Moved(leg) == EntryFlow(leg) + (IF leg.closed THEN ExitFlow(leg, leg.exit) ELSE 0)
MovedBy(legs) == SumFunction([l \in DOMAIN legs |-> Moved(legs[l])])

\* Every leg was paid for once when it was opened, and once when it was
\* closed, by whichever of the strategy, the schedule and the expiry.
CashIsLegs == spreadCash = SumFunction([id \in DOMAIN spreads |-> MovedBy(spreads[id])])

\* What was scheduled as a market close has happened when the strategy sees
\* the bar it was scheduled for.
PromisesKept ==
    barPhase \in {"strategy", "expiry", "done"} =>
        \A a \in promised : a.bar <= bar =>
            IF a.kind = "leg" THEN spreads[a.id][a.leg].closed ELSE FullyClosed(spreads[a.id])

\* An expired leg outlives the closing of expired legs only in a spread that
\* another one, archived meanwhile, moved past the range; of those there are
\* no more than were archived.
SkippedAtMostArchived ==
    barPhase = "done" =>
        Cardinality({id \in Ids : Expired(id) # {}}) <= Len(array) - size

\* A closed leg keeps its price for ever.
ClosedStays ==
    [][\A id \in Ids : \A l \in DOMAIN spreads[id] :
            spreads[id][l].closed => spreads'[id][l] = spreads[id][l]]_spreadVars

\* What the test of forceCloseExpiredOptionLegs expects of it: an expired leg
\* is closed (fixes_test.go: "expired leg was not force-closed").
ExpiredAreClosed == barPhase = "done" => \A id \in Ids : Expired(id) = {}
=============================================================================
