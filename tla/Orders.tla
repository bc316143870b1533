-------------------------------- MODULE Orders --------------------------------
(***************************************************************************)
(* The order executors (src/orders.cpp): what one order obtains from one   *)
(* snapshot of the book.  The three classes share the shape                *)
(*    early returns ; a sweep over the levels, best first ; a final test   *)
(* and differ in the tests.  One step is one iteration of the sweep.       *)
(***************************************************************************)
EXTENDS Types

CONSTANTS
  OrderSet,  \* the orders a strategy can create
  Books      \* the snapshots of the data set

ASSUME OrdersAssumption == OrderSet \subseteq Order
ASSUME BooksAssumption  == Books \subseteq LOBData

VARIABLES
  exec,       \* "idle"; "sweep" inside an executor; "done" when it has returned
  order,      \* the parameters of execute_order: the order,
  levels,     \* and the side of the snapshot it trades against
  remaining,  \* remaining_amount
  fills       \* the result

ordersVars == <<exec, order, levels, remaining, fills>>

----------------------------------------------------------------------------
\* Mutants (here and below): faulty variants of the definition that follows
\* them, used only to see that the properties notice the fault.
LevelsSwapped(o, b) == IF o.side = "Buy" THEN b.bids ELSE b.asks

Levels(o, b) == IF o.side = "Buy" THEN b.asks ELSE b.bids

\* Mutant: the limit of a sell order is not looked at.
AcceptableSells(o, level) == o.side = "Buy" => o.order_type = "Market" \/ level.price <= o.price

\* Not beyond the limit price of the order; a market order has none.
Acceptable(o, level) ==
  \/ o.order_type = "Market"
  \/ o.side = "Buy"  /\ level.price <= o.price
  \/ o.side = "Sell" /\ level.price >= o.price

NothingToMatch(o, ls) ==
  \/ o.side = "Undefined"
  \/ ls = << >>
  \/ ~Acceptable(o, ls[1])

\* The pre-check of the FOK executors: the acceptable levels at the front of
\* the book add up to the order.
Available(o, ls) ==
  \E n \in 1..Len(ls) : /\ \A i \in 1..n : Acceptable(o, ls[i])
                        /\ TotalAmount(SubSeq(ls, 1, n)) >= o.amount

Rejected(o, ls) ==
  \/ NothingToMatch(o, ls)
  \/ o.order_type = "LimitFok" /\ ~Available(o, ls)

\* Mutant: a partial market buy is returned.
ReturnedAlways(o, left, got) == got

\* A market buy that the asks cannot fill completely returns nothing; a
\* market sell and the IOC orders keep what they got.
Returned(o, left, got) ==
  IF o.order_type = "Market" /\ o.side = "Buy" /\ left > 0 THEN << >> ELSE got

----------------------------------------------------------------------------
OrdersInit ==
  /\ exec = "idle"
  /\ order = DefaultOrder
  /\ levels = << >>
  /\ remaining = 0
  /\ fills = << >>

ExecuteOrder(o, b) ==
  /\ exec = "idle"
  /\ order' = o
  /\ levels' = Levels(o, b)
  /\ remaining' = o.amount
  /\ fills' = << >>
  /\ exec' = IF Rejected(o, Levels(o, b)) THEN "done" ELSE "sweep"

\* The level the sweep looks at next: it pushes one fill per level.
Cursor == Len(fills) + 1

\* Mutant: the loop does not stop when nothing remains.
SweepGoesOnForNothing == Cursor <= Len(levels) /\ Acceptable(order, levels[Cursor])

SweepGoesOn ==
  /\ Cursor <= Len(levels)
  /\ Acceptable(order, levels[Cursor])
  /\ remaining > 0

TakeLevel ==
  /\ exec = "sweep"
  /\ SweepGoesOn
  /\ LET take == Smaller(remaining, levels[Cursor].amount)
     IN  /\ fills' = Append(fills, [amount |-> take, price |-> levels[Cursor].price])
         /\ remaining' = remaining - take
  /\ UNCHANGED <<exec, order, levels>>

EndSweep ==
  /\ exec = "sweep"
  /\ ~SweepGoesOn
  /\ exec' = "done"
  /\ fills' = Returned(order, remaining, fills)
  /\ UNCHANGED <<order, levels, remaining>>

\* The caller has taken the result and the locals of the call are gone.
Return ==
  /\ exec = "done"
  /\ exec' = "idle"
  /\ order' = DefaultOrder
  /\ levels' = << >>
  /\ remaining' = 0
  /\ fills' = << >>

----------------------------------------------------------------------------
(* The executors on their own: any order against any snapshot.             *)

OrdersNext == \/ \E o \in OrderSet, b \in Books : ExecuteOrder(o, b)
              \/ TakeLevel
              \/ EndSweep
              \/ Return

OrdersSpec == OrdersInit /\ [][OrdersNext]_ordersVars

OrdersTypeOK ==
  /\ exec \in {"idle", "sweep", "done"}
  /\ order \in Order
  /\ levels \in Seq(OrderBookEntry)
  /\ remaining \in Int
  /\ fills \in Seq(ExecutionFill)

----------------------------------------------------------------------------
(* What an order is entitled to, stated without the sweep.                 *)

Wanted(o) == IF o.amount > 0 THEN o.amount ELSE 0

\* What a level holds for the order.
Offered(o, level) == IF Acceptable(o, level) THEN level.amount ELSE 0
Offers(o, ls)     == [k \in 1..Len(ls) |-> Offered(o, ls[k])]
Liquidity(o, ls)  == Total(Offers(o, ls))

AllOrNothing(o) == \/ o.order_type = "LimitFok"
                   \/ o.order_type = "Market" /\ o.side = "Buy"

Entitled(o, ls) ==
  IF o.side = "Undefined" THEN 0
  ELSE IF Wanted(o) <= Liquidity(o, ls) THEN Wanted(o)
  ELSE IF AllOrNothing(o) THEN 0 ELSE Liquidity(o, ls)

(* An executed order obtains exactly the quantity its type promises: FOK   *)
(* and market buy all or nothing, IOC and market sell whatever acceptable  *)
(* levels hold, an order of side Undefined or of amount <= 0 nothing.      *)
QuantityAsPromised == exec = "done" => TotalAmount(fills) = Entitled(order, levels)

\* Every way to split a quantity over the levels.
Splits(o, ls, q) == {a \in [1..Len(ls) -> 0..q] :
                       (\A k \in 1..Len(ls) : a[k] <= Offered(o, ls[k])) /\ Total(a) = q}
SplitCost(ls, a) == Total([k \in 1..Len(ls) |-> a[k] * ls[k].price])

(* No other way to split the same quantity over the acceptable levels is   *)
(* better for the trader, and the fills are one of these ways.             *)
BestExecution ==
  exec = "done" =>
    LET costs == {SplitCost(levels, a) : a \in Splits(order, levels, TotalAmount(fills))}
        mine  == TotalCost(fills)
    IN  /\ mine \in costs
        /\ \A c \in costs : IF order.side = "Buy" THEN mine <= c ELSE mine >= c

\* The snapshots as include/types.hpp:67-70 documents them, "sorted ascending"
\* and "sorted descending", which both properties need.
SortedBook(b) ==
  /\ \A k, l \in 1..Len(b.asks) : k < l => b.asks[k].price <= b.asks[l].price
  /\ \A k, l \in 1..Len(b.bids) : k < l => b.bids[k].price >= b.bids[l].price
SortedBooks == \A b \in Books : SortedBook(b)

(* The documentation of MarketOrderExecutor (include/execution/orders.hpp, *)
(* lines 94-95): the order is filled "until fully executed or liquidity    *)
(* exhausted".                                                             *)
MarketTakesWhatThereIs ==
  exec = "done" /\ order.order_type = "Market" /\ order.side # "Undefined" =>
    TotalAmount(fills) = Smaller(Wanted(order), Liquidity(order, levels))
=============================================================================
