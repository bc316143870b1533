-------------------------- MODULE BacktestProperties --------------------------
(* What a backtest promises, over its engine, its pool and its portfolio.   *)
EXTENDS BacktestEngine, SequencesExt

EngineTypeOK ==
  /\ pending_orders \in Seq(Ticket)
  /\ engine \in {"idle", "scan", "execute", "settle"}
  /\ snapshot \in LOBData
  /\ kept \in Seq(Ticket)
  /\ cursor \in Positive
  /\ submitted \in Nat
  /\ executed \in Seq(Positive)

RunTypeOK ==
  /\ linked \in BOOLEAN
  /\ has_strategy \in BOOLEAN
  /\ data \in Seq(Books)
  /\ run \in {"idle", "tick", "trade", "value", "crashed"}
  /\ i \in Positive
  /\ result \in {"none", "true", "false", "exception"}
  /\ runs \in Nat

TypeOK == OrdersTypeOK /\ PortfolioTypeOK /\ EngineTypeOK /\ RunTypeOK

----------------------------------------------------------------------------
\* The orders that wait: the pool, and inside a pass the part already kept
\* and the part still to be looked at.
Undecided == SubSeq(pending_orders, IF engine = "settle" THEN cursor + 1 ELSE cursor,
                    Len(pending_orders))
Waiting == IF engine = "idle" THEN pending_orders ELSE kept \o Undecided

Ids(tickets) == {tickets[k].id : k \in 1..Len(tickets)}
Executed     == Range(executed)
Settling     == IF engine = "settle" THEN {Current.id} ELSE {}

(* tick() never loses an order: each one ever added is executed, is being  *)
(* executed, or still waits - also while remove_if moves the pool around   *)
(* and after an exception has left it half way.                            *)
NoOrderLost == 1..submitted \subseteq Ids(Waiting) \cup Settling \cup Executed

(* No order is executed twice, and those that wait keep the order in which *)
(* they were added, so an older order is always tried first.               *)
ExecutedAtMostOnce ==
  /\ IsInjective(executed)
  /\ Ids(Waiting) \cap (Executed \cup Settling) = {}
  /\ \A k, l \in 1..Len(Waiting) : k < l => Waiting[k].id < Waiting[l].id

(* A value is recorded after the last trade of its tick: whenever the loop *)
(* is back at its head, the last value recorded is what the portfolio is   *)
(* worth at the mid price of the tick before.                              *)
Worth(b) == 2 * cash + asset_amount * (b.bids[1].price + b.asks[1].price)
ValueIsCurrent ==
  run = "tick" /\ i > 1 => /\ portfolio_values # << >>
                           /\ Last(portfolio_values) = Worth(data[i-1])

(* Trading is never free: against a sorted, uncrossed book no step of a    *)
(* tick makes the portfolio worth more at the mid price of that book.      *)
TradingNeverGains ==
  [][engine # "idle" /\ ~OneSided(snapshot) =>
       LET mid2 == snapshot.bids[1].price + snapshot.asks[1].price
       IN  2 * cash' + asset_amount' * mid2 <= 2 * cash + asset_amount * mid2]_vars

(* Whatever the strategy creates and the portfolio can pay, run() returns  *)
(* to its caller: no loop of the engines, executors or portfolio runs for  *)
(* ever, and the process does not end in it, unless for want of a          *)
(* portfolio.                                                              *)
Busy == run \notin {"idle", "crashed"}
RunReturns == Busy ~> run = "idle" \/ (run = "crashed" /\ ~linked)

----------------------------------------------------------------------------
\* Balances as if the update that is running had been made in one step.
SettledCash ==
  CASE ledger = "buying"   -> cash - TotalCost(due)
    [] ledger = "matching" -> cash + TotalCost(due)
    [] OTHER               -> cash
SettledAssets ==
  CASE ledger = "buying"   -> asset_amount + TotalAmount(due)
    [] ledger = "matching" -> asset_amount - TotalAmount(due)
    [] OTHER               -> asset_amount

Abstract == INSTANCE Exchange WITH
  session  <- run # "idle",
  market   <- snapshot,
  waiting  <- Waiting,
  balance  <- SettledCash,
  holdings <- SettledAssets

(* The engines implement Exchange: seen through this mapping each order is *)
(* executed atomically, at most once, never beyond the balances, and for   *)
(* the best the snapshot of the tick holds within its limit, all or        *)
(* nothing where its type says so; also of several orders that trade in    *)
(* one tick each obtains what it would have obtained alone.                *)
ImplementsExchange == Abstract!ExchangeSpec

----------------------------------------------------------------------------
(* What the repository says of the program, and the code does not do.      *)

\* The pool at the head of the loop after a tick: what that tick left.
LeftByTick == IF run = "tick" /\ i > 1 THEN {pending_orders[k].order : k \in 1..Len(pending_orders)}
              ELSE {}

(* include/types.hpp:8-10: a FOK order is executed fully "or cancel", an   *)
(* IOC order executes what it can and "cancel remainder": after the tick   *)
(* that tried it, neither is waiting any more.                             *)
ImmediateOrCancelled ==
  \A o \in LeftByTick : o.side # "Undefined" => o.order_type = "Market"

(* include/execution/market_engine.hpp:70: the pool holds "orders waiting  *)
(* to be executed", so none that has been.                                 *)
PoolHoldsOnlyWaiting == engine = "idle" => Ids(pending_orders) \cap Executed = {}
=============================================================================
