----------------------------- MODULE MarketEngine -----------------------------
(***************************************************************************)
(* The market engine (src/market_engine.cpp): the pool of pending orders   *)
(* and the pass that tick() makes over it.  The pass is std::remove_if     *)
(* with a predicate that trades: `kept' is the part of the pool already    *)
(* compacted at its front, `cursor' the element the predicate is at.       *)
(* One pass runs the executor and the portfolio update of each order to    *)
(* their end before the next order, as the calls do.                       *)
(***************************************************************************)
EXTENDS Orders, PortfolioProperties

VARIABLES
  pending_orders,  \* the pool: orders, each with the number it was added under
  engine,          \* "idle", or where tick() is: "scan", "execute", "settle"
  snapshot,        \* the parameter data of tick()
  kept, cursor,    \* the state of remove_if
  submitted,       \* history variable: how many orders were added so far
  executed         \* history variable: the numbers of the executed orders, in order

engineVars == <<pending_orders, engine, snapshot, kept, cursor, submitted, executed>>

Ticket == [id : Positive, order : Order]

----------------------------------------------------------------------------
EngineInit ==
  /\ pending_orders = << >>
  /\ engine = "idle"
  /\ snapshot = EmptyBook
  /\ kept = << >>
  /\ cursor = 1
  /\ submitted = 0
  /\ executed = << >>

AddOrder(o) ==
  /\ engine = "idle"
  /\ submitted' = submitted + 1
  /\ pending_orders' = Append(pending_orders, [id |-> submitted + 1, order |-> o])
  /\ UNCHANGED <<engine, snapshot, kept, cursor, executed>>

BeginTick(b) ==
  /\ engine = "idle"
  /\ engine' = "scan"
  /\ snapshot' = b
  /\ UNCHANGED <<pending_orders, kept, cursor, submitted, executed>>

\* tick() has returned, or the exception has left it.
LeaveTick ==
  /\ engine' = "idle"
  /\ snapshot' = EmptyBook
  /\ kept' = << >>
  /\ cursor' = 1

Current == pending_orders[cursor]

\* orders_execution_policy_ has an executor for the type.
HasExecutor(o) == o.order_type \in OrderTypes

CallExecutor ==
  /\ engine = "scan"
  /\ cursor <= Len(pending_orders)
  /\ HasExecutor(Current.order)
  /\ ExecuteOrder(Current.order, snapshot)
  /\ engine' = "execute"
  /\ UNCHANGED <<pending_orders, snapshot, kept, cursor, submitted, executed>>
  /\ UNCHANGED portfolioVars

\* Mutant: the exception drops what the pass has not reached.
ThrowAndDrop ==
  /\ engine = "scan"
  /\ cursor <= Len(pending_orders)
  /\ ~HasExecutor(Current.order)
  /\ pending_orders' = kept
  /\ LeaveTick
  /\ UNCHANGED <<submitted, executed>>
  /\ UNCHANGED ordersVars
  /\ UNCHANGED portfolioVars

\* The exception leaves remove_if half way: its compaction has already
\* overwritten the front of the pool, and nothing erases the rest.
Throw ==
  /\ engine = "scan"
  /\ cursor <= Len(pending_orders)
  /\ ~HasExecutor(Current.order)
  /\ pending_orders' = kept \o SubSeq(pending_orders, Len(kept) + 1, Len(pending_orders))
  /\ LeaveTick
  /\ UNCHANGED <<submitted, executed>>
  /\ UNCHANGED ordersVars
  /\ UNCHANGED portfolioVars

\* execute() asks the portfolio: only when the executor found fills.
AsksPortfolio == engine = "execute" /\ exec = "done" /\ fills # << >>

Affordable == \/ order.side = "Buy"  /\ CanBuy(fills)
              \/ order.side = "Sell" /\ CanSell(fills)

\* No fills, or the portfolio cannot pay: the order stays in the pool.
Keep ==
  /\ engine = "execute"
  /\ exec = "done"
  /\ fills # << >> => ~Affordable
  /\ kept' = Append(kept, Current)
  /\ cursor' = cursor + 1
  /\ engine' = "scan"
  /\ Return
  /\ UNCHANGED <<pending_orders, snapshot, submitted, executed>>
  /\ UNCHANGED portfolioVars

Trade ==
  /\ AsksPortfolio
  /\ \/ order.side = "Buy"  /\ UpdateAfterBuy(fills)
     \/ order.side = "Sell" /\ UpdateAfterSell(fills)
  /\ engine' = "settle"
  /\ Return
  /\ UNCHANGED <<pending_orders, snapshot, kept, cursor, submitted, executed>>

\* The update has returned; the predicate is true and the order is dropped.
DropExecuted ==
  /\ engine = "settle"
  /\ ledger = "idle"
  /\ executed' = Append(executed, Current.id)
  /\ cursor' = cursor + 1
  /\ engine' = "scan"
  /\ UNCHANGED <<pending_orders, snapshot, kept, submitted>>
  /\ UNCHANGED ordersVars
  /\ UNCHANGED portfolioVars

\* Mutant: remove_if without the erase after it.
EraseForgotten ==
  /\ engine = "scan"
  /\ cursor > Len(pending_orders)
  /\ pending_orders' = kept \o SubSeq(pending_orders, Len(kept) + 1, Len(pending_orders))
  /\ LeaveTick
  /\ UNCHANGED <<submitted, executed>>
  /\ UNCHANGED ordersVars
  /\ UNCHANGED portfolioVars

EraseRemoved ==
  /\ engine = "scan"
  /\ cursor > Len(pending_orders)
  /\ pending_orders' = kept
  /\ LeaveTick
  /\ UNCHANGED <<submitted, executed>>
  /\ UNCHANGED ordersVars
  /\ UNCHANGED portfolioVars

RunExecutor == (TakeLevel \/ EndSweep) /\ UNCHANGED portfolioVars /\ UNCHANGED engineVars
RunPortfolio == PortfolioStep /\ UNCHANGED ordersVars /\ UNCHANGED engineVars
=============================================================================
