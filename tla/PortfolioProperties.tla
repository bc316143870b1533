------------------------- MODULE PortfolioProperties -------------------------
(* What the portfolio's books promise, whoever books on them.              *)
EXTENDS Portfolio

PortfolioTypeOK ==
  /\ cash \in Int
  /\ asset_amount \in Int
  /\ trade_history \in Seq(PositionInfo)
  /\ positions \in Seq(Lot)
  /\ portfolio_values \in Seq(Int)
  /\ ledger \in {"idle", "buying", "matching"}
  /\ due \in Seq(ExecutionFill)
  /\ unmatched \in Nat
  /\ realised_pnl \in Int
  /\ opening \in [cash : Int, assets : Nat, taken : Nat]

\* The part of the fill being sold that has already left the lots.
Matched == IF ledger = "matching" THEN Head(due).amount - unmatched ELSE 0

LotCosts(lots) == [i \in 1..Len(lots) |-> lots[i].entry_price * lots[i].amount]

\* What the trades of a history moved and earned, and which opened a lot.
Moved(t)     == IF t.action_type = "Buy" THEN t.lot.amount ELSE 0 - t.lot.amount
Flows(h)     == [i \in 1..Len(h) |-> Moved(h[i])]
Spent(h)     == [i \in 1..Len(h) |-> Moved(h[i]) * h[i].lot.entry_price]
Profits(h)   == [i \in 1..Len(h) |-> h[i].realised_pnl]
Purchases(h) == [i \in 1..Len(h) |-> IF h[i].action_type = "Buy" THEN 1 ELSE 0]

(* No short selling and no borrowing: whatever is booked, in any state of  *)
(* an update, cash and holdings are never negative.  can_buy and can_sell  *)
(* are asked once, for all the fills; the loop then books them one by one. *)
Solvent == cash >= 0 /\ asset_amount >= 0

(* The history accounts for every unit: balances are what the portfolio    *)
(* was given, less what was taken, plus what the recorded trades moved.    *)
HistoryExplainsBalances ==
  /\ asset_amount = opening.assets - opening.taken + Total(Flows(trade_history))
  /\ cash = opening.cash - Total(Spent(trade_history))

(* Open lots exceed the holdings by no more than what was taken without a  *)
(* trade, and fall short of them by no more than what was given without    *)
(* one, which has no lot, and the dust that dropped lots left behind: at   *)
(* most Eps for each lot no longer open.                                   *)
Dropped == Total(Purchases(trade_history)) - Len(positions)
LotsAccountForHoldings ==
  LET lots == TotalAmount(positions) + Matched
  IN  lots - opening.taken <= asset_amount /\ asset_amount <= lots + opening.assets + Eps * Dropped

(* Realised profit is real: with exact lots and no holdings given, cash    *)
(* and the cost of the open lots differ from the cash given by exactly     *)
(* the profits the history claims (and the one being computed).            *)
ExactBooks == Eps = 0 /\ opening.assets = 0
InTransit == IF ledger = "matching" THEN Matched * Head(due).price ELSE 0
ProfitIsReal ==
  ExactBooks => cash + Total(LotCosts(positions)) + InTransit
                  = opening.cash + Total(Profits(trade_history)) + realised_pnl

\* First-in-first-out, without a queue: lay the units bought, and the units
\* sold, side by side in the order of the history; a unit sold matches the
\* unit bought at the same place.
Before(side, i) ==
  Total([j \in 1..i-1 |-> IF trade_history[j].action_type = side
                          THEN trade_history[j].lot.amount ELSE 0])
Bigger(a, b) == IF a < b THEN b ELSE a
Overlap(i, j) ==
  LET from == Bigger(Before("Sell", i), Before("Buy", j))
      to   == Smaller(Before("Sell", i) + trade_history[i].lot.amount,
                      Before("Buy", j) + trade_history[j].lot.amount)
  IN  Bigger(0, to - from)
FifoProfit(i) ==
  Total([j \in 1..Len(trade_history) |->
           IF trade_history[j].action_type = "Buy"
           THEN Overlap(i, j) * (trade_history[i].lot.entry_price - trade_history[j].lot.entry_price)
           ELSE 0])

(* Every sell of the history carries the profit first-in-first-out gives,  *)
(* however its amount is cut by fills and lots.                            *)
ProfitIsFifo ==
  ExactBooks =>
    \A i \in 1..Len(trade_history) :
      trade_history[i].action_type = "Sell" => trade_history[i].realised_pnl = FifoProfit(i)
=============================================================================
