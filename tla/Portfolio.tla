------------------------------ MODULE Portfolio ------------------------------
(***************************************************************************)
(* The portfolio (src/portfolio.cpp): cash, asset holdings, the queue of   *)
(* open lots that sells consume first-in-first-out, the trade history and  *)
(* the recorded portfolio values.  One step books one fill of an update,   *)
(* or matches one lot of calculate_realized_pnl.                           *)
(***************************************************************************)
EXTENDS Types

CONSTANTS
  Openings,  \* the balances a portfolio is created with
  Eps        \* EPS_D: a lot with no more than this left is dropped

ASSUME OpeningsAssumption == Openings \subseteq [cash : Nat, assets : Nat]
ASSUME EpsAssumption      == Eps \in Nat

VARIABLES
  cash, asset_amount, trade_history, positions, portfolio_values,  \* members
  ledger,        \* "idle", "buying" or "matching": the update that is running
  due,           \* the fills the update has not booked yet
  unmatched,     \* calculate_realized_pnl: its parameter amount
  realised_pnl,  \* and its result
  opening        \* history variable: the cash and assets the portfolio was given
                 \* other than by trades, and the assets taken from it

portfolioVars == <<cash, asset_amount, trade_history, positions, portfolio_values,
                   ledger, due, unmatched, realised_pnl, opening>>

----------------------------------------------------------------------------
\* Mutant of CanSell (mutants, here and below, are faulty variants of the
\* definition after them): the fills are checked one by one, not together.
CanSellEach(fs) == \A k \in 1..Len(fs) : asset_amount >= fs[k].amount

CanBuy(fs)  == cash >= TotalCost(fs)
CanSell(fs) == asset_amount >= TotalAmount(fs)

Given(balances) == [cash |-> balances.cash, assets |-> balances.assets, taken |-> 0]

\* A new portfolio, as its constructor leaves it.
Holds(balances) ==
  /\ cash = balances.cash
  /\ asset_amount = balances.assets
  /\ trade_history = << >>
  /\ positions = << >>
  /\ portfolio_values = << >>
  /\ ledger = "idle"
  /\ due = << >>
  /\ unmatched = 0
  /\ realised_pnl = 0
  /\ opening = Given(balances)

PortfolioInit == Holds([cash |-> 0, assets |-> 0])

Create(balances) ==
  /\ ledger = "idle"
  /\ cash' = balances.cash
  /\ asset_amount' = balances.assets
  /\ opening' = Given(balances)
  /\ trade_history' = << >>
  /\ positions' = << >>
  /\ portfolio_values' = << >>
  /\ UNCHANGED <<ledger, due, unmatched, realised_pnl>>

\* The setters, which any holder of the portfolio may call between updates.
SetCash(c) ==
  /\ ledger = "idle"
  /\ cash' = c
  /\ opening' = [opening EXCEPT !.cash = @ + (c - cash)]
  /\ UNCHANGED <<asset_amount, trade_history, positions, portfolio_values, ledger, due,
                 unmatched, realised_pnl>>

\* Mutant: the lots are dropped with the holdings.
SetAmountAndLots(a) ==
  /\ ledger = "idle"
  /\ asset_amount' = a
  /\ positions' = << >>
  /\ opening' = IF a >= asset_amount
                THEN [opening EXCEPT !.assets = @ + (a - asset_amount)]
                ELSE [opening EXCEPT !.taken = @ + (asset_amount - a)]
  /\ UNCHANGED <<cash, trade_history, portfolio_values, ledger, due, unmatched, realised_pnl>>

\* Holdings given this way have no lot, and lots stay when holdings are taken.
SetAmount(a) ==
  /\ ledger = "idle"
  /\ asset_amount' = a
  /\ opening' = IF a >= asset_amount
                THEN [opening EXCEPT !.assets = @ + (a - asset_amount)]
                ELSE [opening EXCEPT !.taken = @ + (asset_amount - a)]
  /\ UNCHANGED <<cash, trade_history, positions, portfolio_values, ledger, due,
                 unmatched, realised_pnl>>

\* The fills still due after one is booked, and what that leaves to do.
Settle(working) ==
  /\ due' = Tail(due)
  /\ ledger' = IF Len(due) = 1 THEN "idle" ELSE working

\* Mutant: only the last fill of an update reaches the history.
RecordLast(side, fill, pnl) ==
  trade_history' = IF Len(due) > 1 THEN trade_history
                   ELSE Append(trade_history,
                          [action_type  |-> side,
                           lot          |-> [entry_price |-> fill.price, amount |-> fill.amount],
                           realised_pnl |-> pnl])

Record(side, fill, pnl) ==
  trade_history' = Append(trade_history,
    [action_type  |-> side,
     lot          |-> [entry_price |-> fill.price, amount |-> fill.amount],
     realised_pnl |-> pnl])

----------------------------------------------------------------------------
UpdateAfterBuy(fs) ==
  /\ ledger = "idle"
  /\ fs # << >>
  /\ CanBuy(fs)
  /\ ledger' = "buying"
  /\ due' = fs
  /\ UNCHANGED <<cash, asset_amount, trade_history, positions, portfolio_values,
                 unmatched, realised_pnl, opening>>

\* Mutant: the new lot is queued at the front, so sells match last-in-first-out.
BookBuyInFront ==
  /\ ledger = "buying"
  /\ LET f == Head(due)
     IN  /\ positions' = <<[entry_price |-> f.price, amount |-> f.amount]>> \o positions
         /\ cash' = cash - Cost(f)
         /\ asset_amount' = asset_amount + f.amount
         /\ Record("Buy", f, 0)
  /\ Settle("buying")
  /\ UNCHANGED <<portfolio_values, unmatched, realised_pnl, opening>>

BookBuy ==
  /\ ledger = "buying"
  /\ LET f == Head(due)
     IN  /\ positions' = Append(positions, [entry_price |-> f.price, amount |-> f.amount])
         /\ cash' = cash - Cost(f)
         /\ asset_amount' = asset_amount + f.amount
         /\ Record("Buy", f, 0)
  /\ Settle("buying")
  /\ UNCHANGED <<portfolio_values, unmatched, realised_pnl, opening>>

\* Mutant: the profit of the previous fill is not reset.
StartMatchingOn(fs) ==
  /\ unmatched' = IF fs = << >> THEN 0 ELSE Head(fs).amount
  /\ UNCHANGED realised_pnl

\* The call calculate_realized_pnl(f.amount, f.price) for the next fill.
StartMatching(fs) ==
  /\ unmatched' = IF fs = << >> THEN 0 ELSE Head(fs).amount
  /\ realised_pnl' = 0

UpdateAfterSell(fs) ==
  /\ ledger = "idle"
  /\ fs # << >>
  /\ CanSell(fs)
  /\ ledger' = "matching"
  /\ due' = fs
  /\ StartMatching(fs)
  /\ UNCHANGED <<cash, asset_amount, trade_history, positions, portfolio_values, opening>>

LotsLeft == unmatched > 0 /\ positions # << >>

\* Mutants: the first lot is always popped; it is never popped.
ReducedWhole(lots, sold) == Tail(lots)
ReducedNever(lots, sold) ==
  [lots EXCEPT ![1] = [entry_price |-> Head(lots).entry_price,
                       amount      |-> Head(lots).amount - sold]]

\* The front of the queue after sold units left its first lot.
Reduced(lots, sold) ==
  IF Head(lots).amount - sold <= Eps
  THEN Tail(lots)
  ELSE [lots EXCEPT ![1] = [entry_price |-> Head(lots).entry_price,
                            amount      |-> Head(lots).amount - sold]]

MatchLot ==
  /\ ledger = "matching"
  /\ LotsLeft
  /\ LET lot  == Head(positions)
         sold == Smaller(unmatched, lot.amount)
     IN  /\ realised_pnl' = realised_pnl + (Head(due).price - lot.entry_price) * sold
         /\ unmatched' = unmatched - sold
         /\ positions' = Reduced(positions, sold)
  /\ UNCHANGED <<cash, asset_amount, trade_history, portfolio_values, ledger, due, opening>>

BookSell ==
  /\ ledger = "matching"
  /\ ~LotsLeft
  /\ LET f == Head(due)
     IN  /\ cash' = cash + Cost(f)
         /\ asset_amount' = asset_amount - f.amount
         /\ Record("Sell", f, realised_pnl)
  /\ Settle("matching")
  /\ StartMatching(Tail(due))
  /\ UNCHANGED <<positions, portfolio_values, opening>>

\* Mutant: the holdings are valued at the bid.
UpdateValueAtBid(bid, ask) ==
  /\ ledger = "idle"
  /\ portfolio_values' = Append(portfolio_values, 2 * (cash + asset_amount * bid))
  /\ UNCHANGED <<cash, asset_amount, trade_history, positions, ledger, due,
                 unmatched, realised_pnl, opening>>

\* Values are kept in halves of the price unit: the mid price is (bid+ask)/2.
UpdatePortfolioValue(bid, ask) ==
  /\ ledger = "idle"
  /\ portfolio_values' = Append(portfolio_values, 2 * cash + asset_amount * (bid + ask))
  /\ UNCHANGED <<cash, asset_amount, trade_history, positions, ledger, due,
                 unmatched, realised_pnl, opening>>

PortfolioStep == BookBuy \/ MatchLot \/ BookSell
=============================================================================
