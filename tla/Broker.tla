------------------------------- MODULE Broker -------------------------------
(***************************************************************************)
(* The simulated broker of a backtest (internal/backtest: broker.go and    *)
(* position.go) as the replayer drives it bar by bar: pending orders are   *)
(* filled at the open, then scheduled orders, then the strategy acts.      *)
(*                                                                         *)
(* One security in quote accounting.  A price is drawn for every bar; what *)
(* a limit or a stop order makes of the bar's range is whether it fills    *)
(* and at which price.  Commission is flat, slippage part of the price.    *)
(* Quantities and prices are whole numbers, chosen so that the divisions   *)
(* of the code come out even.                                              *)
(***************************************************************************)
EXTENDS Integers, Sequences, FiniteSets, Functions

CONSTANTS
    Entries,     \* entry IDs a strategy gives its orders
    NoEntry,     \* an order without one
    Prices,
    NoPrice,     \* a bar without a valid price
    Requests,    \* orders the strategy may build: entry, side, kind, reduce-only
                 \* or not, and quantity, zero for one sized when it fills
    Notional,    \* amount such an order is sized from
    Slices,      \* TWAPBars of a TWAP order
    Commission,
    MaxPending,  \* bound: orders queued at a time
    MaxTrades    \* bound: fills

Sides == {1, -1}    \* Buy, Sell
Kinds == {"market", "twap", "priced"}    \* priced: limit, stop and stop-limit

ASSUME BrokerConstants ==
    /\ IsFiniteSet(Entries) /\ NoEntry \notin Entries
    /\ Prices \subseteq Nat \ {0} /\ NoPrice \notin Prices
    /\ Requests \subseteq [entry : Entries \cup {NoEntry}, side : Sides, kind : Kinds, qty : Nat,
                           reduceOnly : BOOLEAN]
    /\ Notional \in Nat \ {0} /\ Slices \in Nat \ {0} /\ Commission \in Nat
    /\ MaxPending \in Nat /\ MaxTrades \in Nat

\* A quantity of zero is sized from the notional when the order fills.
Orders == [entry : Entries \cup {NoEntry}, side : Sides, kind : Kinds, qty : Nat,
           bars : Nat, reduceOnly : BOOLEAN]

Order(request) ==
    [entry |-> request.entry, side |-> request.side, kind |-> request.kind, qty |-> request.qty,
     bars |-> IF request.kind = "twap" THEN Slices ELSE 0, reduceOnly |-> request.reduceOnly]

MarketOrder(entry, side, qty) ==
    [entry |-> entry, side |-> side, kind |-> "market", qty |-> qty, bars |-> 0, reduceOnly |-> FALSE]

Close(entry, side, qty) == [MarketOrder(entry, side, qty) EXCEPT !.reduceOnly = TRUE]

VARIABLES
    phase,     \* filling pending orders, scheduled orders, OnBar
    open,      \* the bar's opening price, until OnBar
    pending,   \* the queue; while it is processed, what remains of it
    todo,      \* orders ProcessPending has still to look at
    position,  \* net position: quantity, cost basis and realized PnL
    entries,   \* quantity of each logical entry
    cash,      \* relative to the initial capital
    trades,    \* number of fills
    untagged   \* history: net quantity filled without an entry ID

account == <<position, entries, cash, trades, untagged>>
vars == <<phase, open, pending, todo, account>>

Init ==
    /\ phase = "bar" /\ open = NoPrice
    /\ pending = <<>> /\ todo = <<>>
    /\ position = [qty |-> 0, cost |-> 0, realized |-> 0]
    /\ entries = [e \in Entries |-> 0]
    /\ cash = 0 /\ trades = 0 /\ untagged = 0

(***************************************************************************)
(* Fills                                                                   *)
(***************************************************************************)

Abs(n) == IF n < 0 THEN -n ELSE n
SameSign(m, n) == (m > 0 /\ n > 0) \/ (m < 0 /\ n < 0)
Sign(n) == IF n < 0 THEN -1 ELSE 1

\* Mutant: what a reversal opens on the other side is lost.
UpdatedNoReversal(p, fill, price) ==
    IF p.qty = 0 \/ SameSign(p.qty, fill)
    THEN [p EXCEPT !.qty = @ + fill, !.cost = @ + price * Abs(fill)]
    ELSE LET closed == IF Abs(fill) > Abs(p.qty) THEN Abs(p.qty) ELSE Abs(fill)
             average == p.cost \div Abs(p.qty)
             left == Abs(p.qty) - closed
         IN  [qty |-> Sign(p.qty) * left, cost |-> average * left,
              realized |-> p.realized + Sign(p.qty) * closed * (price - average)]

\* Mutant: a reversal keeps the average price of the position it closed.
UpdatedStaleCost(p, fill, price) ==
    IF p.qty = 0 \/ SameSign(p.qty, fill)
    THEN [p EXCEPT !.qty = @ + fill, !.cost = @ + price * Abs(fill)]
    ELSE LET closed == IF Abs(fill) > Abs(p.qty) THEN Abs(p.qty) ELSE Abs(fill)
             average == p.cost \div Abs(p.qty)
             left == Abs(p.qty) - closed
             excess == Abs(fill) - closed
         IN  [qty |-> Sign(p.qty) * left + Sign(fill) * excess,
              cost |-> average * (left + excess),
              realized |-> p.realized + Sign(p.qty) * closed * (price - average)]

\* updatePosition: average cost; what exceeds the position opens the other
\* side at the price of the fill.
Updated(p, fill, price) ==
    IF p.qty = 0 \/ SameSign(p.qty, fill)
    THEN [p EXCEPT !.qty = @ + fill, !.cost = @ + price * Abs(fill)]
    ELSE LET closed == IF Abs(fill) > Abs(p.qty) THEN Abs(p.qty) ELSE Abs(fill)
             average == p.cost \div Abs(p.qty)
             left == Abs(p.qty) - closed
             excess == Abs(fill) - closed
         IN  [qty |-> Sign(p.qty) * left + Sign(fill) * excess,
              cost |-> average * left + price * excess,
              realized |-> p.realized + Sign(p.qty) * closed * (price - average)]

\* An entry is kept as a position of its own, of which the quantity matters.
UpdatedEntry(qty, fill, price) ==
    Updated([qty |-> qty, cost |-> Abs(qty), realized |-> 0], fill, price).qty

\* The trade is booked: cash, the net position, and its entry if it has one.
Book(order, qty, price) ==
    LET fill == order.side * qty
    IN  /\ trades < MaxTrades /\ trades' = trades + 1
        /\ cash' = cash - fill * price - Commission
        /\ position' = Updated(position, fill, price)
        /\ IF order.entry = NoEntry
           THEN untagged' = untagged + fill /\ UNCHANGED entries
           ELSE /\ entries' = [entries EXCEPT ![order.entry] = UpdatedEntry(@, fill, price)]
                /\ UNCHANGED untagged

\* resolveOrderQty
Sized(order, price) == IF order.qty > 0 THEN order.qty ELSE Notional \div price

\* reducibleEntryQuantity: the entry is open and the order is on the other side.
Reducible(order) == order.entry # NoEntry /\ SameSign(entries[order.entry], -order.side)

MayReduce(order) == order.reduceOnly => Reducible(order)

\* Mutant: a reduce-only order keeps the quantity it was submitted with.
AsSubmitted(order) == order

\* A reduce-only order has the quantity its entry holds by now.
AsHeld(order) == IF order.reduceOnly THEN [order EXCEPT !.qty = Abs(entries[order.entry])] ELSE order

\* What one bar fills: a TWAP order one of the slices left, any other all.
FillQty(order, price) == Sized(order, price) \div (IF order.kind = "twap" THEN order.bars ELSE 1)

\* executeOrderOnBar: a market or a TWAP order at the open, a limit or stop
\* order at the price it makes of the bar.
ExecuteOrderOnBar(order, price) ==
    /\ MayReduce(order) /\ open # NoPrice
    /\ order.kind # "priced" => price = open
    /\ Book(order, FillQty(AsHeld(order), price), price)

(***************************************************************************)
(* ProcessPending, one order after the other                               *)
(***************************************************************************)

NextBar ==
    /\ phase = "bar"
    /\ open' \in Prices \cup {NoPrice}
    /\ phase' = "fills"
    /\ todo' = pending /\ pending' = <<>>
    /\ UNCHANGED account

\* The order ProcessPending looks at.
Current == Head(todo)

Looking == phase = "fills" /\ todo # <<>> /\ todo' = Tail(todo)

\* A reduce-only order whose entry is gone, an order on a bar without a price,
\* a limit or stop order that is not reached: it stays.
Wait ==
    /\ Looking
    /\ ~MayReduce(Current) \/ open = NoPrice \/ Current.kind = "priced"
    /\ pending' = Append(pending, Current)
    /\ UNCHANGED <<phase, open, account>>

\* What a slice leaves of a TWAP order.  Of a reduce-only one it is counted
\* from the quantity submitted: nothing, if the entry has grown enough since.
Rest(order) ==
    [order EXCEPT !.qty = Sized(order, open) - FillQty(AsHeld(order), open), !.bars = @ - 1]

Fill(price) ==
    /\ Looking
    /\ ExecuteOrderOnBar(Current, price)
    /\ pending' = IF Current.kind = "twap" /\ Rest(Current).qty > 0 /\ Rest(Current).bars > 0
                  THEN Append(pending, Rest(Current)) ELSE pending
    /\ UNCHANGED <<phase, open>>

AllLookedAt ==
    /\ phase = "fills" /\ todo = <<>>
    /\ phase' = "open"
    /\ UNCHANGED <<open, pending, todo, account>>

(***************************************************************************)
(* Scheduled orders and the strategy                                       *)
(***************************************************************************)

\* ExecuteOrderNow for a scheduled order of any kind; what one bar does not
\* fill of it is gone.
ExecuteScheduled(request, price) ==
    /\ phase = "open"
    /\ ExecuteOrderOnBar(Order(request), price)
    /\ UNCHANGED <<phase, open, pending, todo>>

OnBar ==
    /\ phase = "open"
    /\ phase' = "bar" /\ open' = NoPrice
    /\ UNCHANGED <<pending, todo, account>>

Closing(queue, entry) == {i \in 1..Len(queue) : queue[i].reduceOnly /\ queue[i].entry = entry}

\* Mutant: only a reduce-only order of the same quantity counts as pending.
SubmitUnlessIdentical(order) ==
    /\ phase = "bar" /\ Len(pending) < MaxPending
    /\ order.reduceOnly =>
           /\ Reducible(order)
           /\ \A i \in Closing(pending, order.entry) : pending[i].qty # AsHeld(order).qty
    /\ pending' = Append(pending, AsHeld(order))
    /\ UNCHANGED <<phase, open, todo, account>>

\* A reduce-only order is refused without anything to reduce, and nothing
\* happens while another one for the entry is pending.
SubmitOrder(order) ==
    /\ phase = "bar" /\ Len(pending) < MaxPending
    /\ order.reduceOnly => Reducible(order) /\ Closing(pending, order.entry) = {}
    /\ pending' = Append(pending, AsHeld(order))
    /\ UNCHANGED <<phase, open, todo, account>>

Submit(request) == SubmitOrder(Order(request))

\* ClosePosition queues an untagged order for what the position is now.
ClosePosition ==
    /\ position.qty # 0
    /\ SubmitOrder(MarketOrder(NoEntry, -Sign(position.qty), Abs(position.qty)))

CloseEntry(entry) ==
    /\ entries[entry] # 0
    /\ SubmitOrder(Close(entry, -Sign(entries[entry]), Abs(entries[entry])))

\* ExecuteOrderAtCloseNow, at the close of the bar and whatever the kind.
ExecuteAtClose(request, price) ==
    /\ phase = "bar" /\ MayReduce(Order(request))
    /\ Book(Order(request), Sized(AsHeld(Order(request)), price), price)
    /\ UNCHANGED <<phase, open, pending, todo>>

\* ClosePositionStopNow flattens the net position; no entry hears of it.
StopNow(price) ==
    /\ phase = "bar" /\ position.qty # 0
    /\ Book(MarketOrder(NoEntry, -Sign(position.qty), 0), Abs(position.qty), price)
    /\ UNCHANGED <<phase, open, pending, todo>>

CancelOrders ==
    /\ phase = "bar" /\ pending # <<>>
    /\ pending' = <<>>
    /\ UNCHANGED <<phase, open, todo, account>>

Strategy ==
    \/ \E request \in Requests :
          \/ Submit(request)
          \/ \E price \in Prices : ExecuteAtClose(request, price)
    \/ \E entry \in Entries : CloseEntry(entry)
    \/ \E price \in Prices : StopNow(price)
    \/ ClosePosition \/ CancelOrders

Next ==
    \/ NextBar \/ Wait \/ AllLookedAt \/ OnBar \/ Strategy
    \/ \E price \in Prices : Fill(price) \/ \E request \in Requests : ExecuteScheduled(request, price)

Spec == Init /\ [][Next]_vars

(***************************************************************************)
(* Properties                                                              *)
(***************************************************************************)

TypeQueues == pending \in Seq(Orders) /\ todo \in Seq(Orders)

TypeAccount ==
    /\ position \in [qty : Int, cost : Nat, realized : Int]
    /\ entries \in [Entries -> Int]
    /\ cash \in Int /\ untagged \in Int /\ trades \in 0..MaxTrades
    /\ position.qty = 0 => position.cost = 0

\* Every variable keeps its type; a position without quantity has no cost.
TypeOK ==
    /\ phase \in {"fills", "open", "bar"}
    /\ open \in Prices \cup {NoPrice}
    /\ TypeQueues /\ TypeAccount

\* The net position is what the entries hold together and what was filled
\* without an entry ID, whichever of them fills, crosses zero or is reversed.
NetIsEntries == position.qty = untagged + SumFunction(entries)

\* Equity is initial capital plus realized and unrealized PnL less fees, at
\* every price: what the trades moved in cash is in the books of the position.
EquityAddsUp ==
    cash + Sign(position.qty) * position.cost = position.realized - Commission * trades

\* The average price is a whole number.  The code divides floats; a division
\* of whole numbers that leaves a rest would lose it from the books.
WholeAverage ==
    position.qty # 0 => Abs(position.qty) * (position.cost \div Abs(position.qty)) = position.cost

\* A close is idempotent: an entry never has two reduce-only orders in the
\* queue, wherever ProcessPending is in it.
OneClosePerEntry ==
    \A e \in Entries :
        /\ \A i, j \in Closing(pending, e) : i = j
        /\ \A i, j \in Closing(todo, e) : i = j
        /\ Closing(pending, e) = {} \/ Closing(todo, e) = {}

\* A reduce-only order that waited neither reverses its entry nor makes it
\* grow, whatever was filled since it was submitted, and unless more slices
\* of it were to come it leaves nothing of what the entry holds.
ReduceOnlyCloses ==
    [][(phase = "fills" /\ trades' # trades /\ Current.reduceOnly) =>
           LET held == entries[Current.entry]
               left == entries'[Current.entry]
           IN  /\ held # 0 /\ (left = 0 \/ SameSign(held, left)) /\ Abs(left) <= Abs(held)
               /\ Current.kind # "twap" \/ Current.bars = 1 => left = 0]_vars
=============================================================================
