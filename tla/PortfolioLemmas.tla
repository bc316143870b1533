--------------------------- MODULE PortfolioLemmas ---------------------------
(***************************************************************************)
(* What a step of the portfolio does to its books, for every Eps, all      *)
(* balances and all lists of fills, whoever the caller is.                 *)
(***************************************************************************)
EXTENDS PortfolioProperties, SumTheorems

(* A list has no tail when it has one element.                             *)
LEMMA TailEmpty ==
  ASSUME NEW S, NEW s \in Seq(S), s # << >>
  PROVE  Tail(s) = << >> <=> Len(s) = 1
<1>1. Len(s) \in Nat \ {0} /\ Tail(s) \in Seq(S) /\ Len(Tail(s)) = Len(s) - 1
  OBVIOUS
<1>2. Tail(s) = << >> <=> Len(Tail(s)) = 0
  BY <1>1, EmptySeq
<1> QED BY <1>1, <1>2

(* The total amount and cost of a list of fills are naturals.              *)
LEMMA FillTotals ==
  ASSUME NEW fs \in Seq(ExecutionFill)
  PROVE  /\ Amounts(fs) \in Seq(Int) /\ Len(Amounts(fs)) = Len(fs)
         /\ Costs(fs) \in Seq(Int) /\ Len(Costs(fs)) = Len(fs)
         /\ TotalAmount(fs) \in Nat
         /\ TotalCost(fs) \in Nat
<1>1. \A n \in 1..Len(fs) : Amount(fs[n]) \in Nat /\ Cost(fs[n]) \in Nat
  <2>1. TAKE n \in 1..Len(fs)
  <2>2. fs[n] \in ExecutionFill
    OBVIOUS
  <2>3. fs[n].amount \in Nat /\ fs[n].price \in Nat
    BY <2>2 DEF ExecutionFill, Positive
  <2> QED BY <2>3, ProductNat DEF Amount, Cost
<1>2. Amounts(fs) \in Seq(Nat) /\ Len(Amounts(fs)) = Len(fs)
  BY <1>1 DEF Amounts
<1>3. Costs(fs) \in Seq(Nat) /\ Len(Costs(fs)) = Len(fs)
  BY <1>1 DEF Costs
<1>4. Amounts(fs) \in Seq(Int) /\ Costs(fs) \in Seq(Int)
  BY <1>1 DEF Amounts, Costs
<1> QED BY <1>2, <1>3, <1>4, TotalNat DEF TotalAmount, TotalCost

(* Booking the first fill leaves the total of the others to book.          *)
LEMMA FillTail ==
  ASSUME NEW fs \in Seq(ExecutionFill), fs # << >>
  PROVE  /\ Head(fs) \in ExecutionFill /\ Tail(fs) \in Seq(ExecutionFill)
         /\ Head(fs).amount \in Positive /\ Head(fs).price \in Positive
         /\ Cost(Head(fs)) \in Nat
         /\ TotalAmount(fs) = Head(fs).amount + TotalAmount(Tail(fs))
         /\ TotalCost(fs) = Cost(Head(fs)) + TotalCost(Tail(fs))
<1>1. Head(fs) \in ExecutionFill /\ Tail(fs) \in Seq(ExecutionFill) /\ Head(fs) = fs[1]
      /\ Len(fs) = Len(Tail(fs)) + 1 /\ 1 \in 1..Len(fs)
      /\ \A n \in 1..Len(Tail(fs)) : Tail(fs)[n] = fs[n+1] /\ n+1 \in 1..Len(fs)
  OBVIOUS
<1>2. Head(fs).amount \in Positive /\ Head(fs).price \in Positive
  BY <1>1 DEF ExecutionFill
<1>3. Cost(Head(fs)) \in Nat
  BY <1>2, ProductNat DEF Cost, Positive
<1>4. Total(Amounts(Tail(fs))) = Total(Amounts(fs)) - Amounts(fs)[1]
  <2>1. Amounts(fs) \in Seq(Int) /\ Amounts(Tail(fs)) \in Seq(Int)
        /\ Len(Amounts(fs)) = Len(Amounts(Tail(fs))) + 1
    BY <1>1, FillTotals
  <2>2. \A n \in 1..Len(Amounts(Tail(fs))) : Amounts(Tail(fs))[n] = Amounts(fs)[n+1]
    BY <1>1, FillTotals DEF Amounts
  <2> QED BY <2>1, <2>2, TotalShrinks
<1>5. Total(Costs(Tail(fs))) = Total(Costs(fs)) - Costs(fs)[1]
  <2>1. Costs(fs) \in Seq(Int) /\ Costs(Tail(fs)) \in Seq(Int)
        /\ Len(Costs(fs)) = Len(Costs(Tail(fs))) + 1
    BY <1>1, FillTotals
  <2>2. \A n \in 1..Len(Costs(Tail(fs))) : Costs(Tail(fs))[n] = Costs(fs)[n+1]
    BY <1>1, FillTotals DEF Costs
  <2> QED BY <2>1, <2>2, TotalShrinks
<1>6. Amounts(fs)[1] = Head(fs).amount /\ Costs(fs)[1] = Cost(Head(fs))
  BY <1>1 DEF Amounts, Costs, Amount
<1>7. /\ TotalAmount(fs) \in Nat /\ TotalCost(fs) \in Nat
      /\ TotalAmount(Tail(fs)) \in Nat /\ TotalCost(Tail(fs)) \in Nat
  BY <1>1, FillTotals
<1>8. TotalAmount(fs) = Head(fs).amount + TotalAmount(Tail(fs))
  BY <1>2, <1>4, <1>6, <1>7 DEF TotalAmount, Positive
<1>9. TotalCost(fs) = Cost(Head(fs)) + TotalCost(Tail(fs))
  BY <1>3, <1>5, <1>6, <1>7 DEF TotalCost
<1> QED BY <1>1, <1>2, <1>3, <1>8, <1>9

----------------------------------------------------------------------------
(* The total amount and cost of a queue of lots.                           *)
LEMMA LotTotals ==
  ASSUME NEW lots \in Seq(Lot)
  PROVE  /\ Amounts(lots) \in Seq(Int) /\ Len(Amounts(lots)) = Len(lots)
         /\ LotCosts(lots) \in Seq(Int) /\ Len(LotCosts(lots)) = Len(lots)
         /\ TotalAmount(lots) \in Nat
         /\ Total(LotCosts(lots)) \in Int
<1>1. \A n \in 1..Len(lots) : /\ Amount(lots[n]) \in Nat
                             /\ lots[n].entry_price * lots[n].amount \in Nat
  <2>1. TAKE n \in 1..Len(lots)
  <2>2. lots[n] \in Lot
    OBVIOUS
  <2>3. lots[n].amount \in Nat /\ lots[n].entry_price \in Nat
    BY <2>2 DEF Lot, Positive
  <2> QED BY <2>3, ProductNat DEF Amount
<1>2. Amounts(lots) \in Seq(Nat) /\ Amounts(lots) \in Seq(Int) /\ Len(Amounts(lots)) = Len(lots)
  BY <1>1 DEF Amounts
<1>3. LotCosts(lots) \in Seq(Int) /\ Len(LotCosts(lots)) = Len(lots)
  BY <1>1 DEF LotCosts
<1> QED BY <1>2, <1>3, TotalNat, TotalInt DEF TotalAmount

(* A purchase adds its lot at the back of the queue.                       *)
LEMMA LotAppended ==
  ASSUME NEW lots \in Seq(Lot), NEW lot \in Lot
  PROVE  /\ Append(lots, lot) \in Seq(Lot) /\ Len(Append(lots, lot)) = Len(lots) + 1
         /\ TotalAmount(Append(lots, lot)) = TotalAmount(lots) + lot.amount
         /\ Total(LotCosts(Append(lots, lot))) = Total(LotCosts(lots)) + lot.entry_price * lot.amount
<1> DEFINE more == Append(lots, lot)
<1>1. /\ more \in Seq(Lot) /\ Len(more) = Len(lots) + 1 /\ Len(more) \in 1..Len(more)
      /\ more[Len(more)] = lot
      /\ \A n \in 1..Len(lots) : more[n] = lots[n] /\ n \in 1..Len(more)
  OBVIOUS
<1> HIDE DEF more
<1>2. Total(Amounts(more)) = Total(Amounts(lots)) + Amounts(more)[Len(Amounts(more))]
  <2>1. /\ Amounts(lots) \in Seq(Int) /\ Amounts(more) \in Seq(Int)
        /\ Len(Amounts(more)) = Len(Amounts(lots)) + 1
    BY <1>1, LotTotals
  <2>2. \A n \in 1..Len(Amounts(lots)) : Amounts(more)[n] = Amounts(lots)[n]
    BY <1>1, LotTotals DEF Amounts
  <2> QED BY <2>1, <2>2, TotalGrows
<1>3. Total(LotCosts(more)) = Total(LotCosts(lots)) + LotCosts(more)[Len(LotCosts(more))]
  <2>1. /\ LotCosts(lots) \in Seq(Int) /\ LotCosts(more) \in Seq(Int)
        /\ Len(LotCosts(more)) = Len(LotCosts(lots)) + 1
    BY <1>1, LotTotals
  <2>2. \A n \in 1..Len(LotCosts(lots)) : LotCosts(more)[n] = LotCosts(lots)[n]
    BY <1>1, LotTotals DEF LotCosts
  <2> QED BY <2>1, <2>2, TotalGrows
<1>4. /\ Amounts(more)[Len(Amounts(more))] = lot.amount
      /\ LotCosts(more)[Len(LotCosts(more))] = lot.entry_price * lot.amount
  BY <1>1, LotTotals DEF Amounts, LotCosts, Amount
<1> QED BY <1>1, <1>2, <1>3, <1>4 DEF TotalAmount, more

(* A sale takes its units from the first lot, or drops the lot with them.  *)
LEMMA LotReduced ==
  ASSUME NEW lots \in Seq(Lot), lots # << >>,
         NEW sold \in Nat, sold <= Head(lots).amount,
         NEW left, left = Reduced(lots, sold),
         NEW first, first = Head(lots),
         NEW rest, rest = first.amount - sold
  PROVE  /\ left \in Seq(Lot)
         /\ first \in Lot
         /\ rest \in Nat
         /\ rest <= Eps =>
              /\ Len(left) = Len(lots) - 1
              /\ TotalAmount(left) = TotalAmount(lots) - first.amount
              /\ Total(LotCosts(left)) = Total(LotCosts(lots)) - first.entry_price * first.amount
         /\ rest > Eps =>
              /\ Len(left) = Len(lots)
              /\ TotalAmount(left) = TotalAmount(lots) - sold
              /\ Total(LotCosts(left)) = Total(LotCosts(lots)) - first.entry_price * first.amount
                                                              + first.entry_price * rest
<1>1. first \in Lot /\ first = lots[1] /\ 1 \in 1..Len(lots) /\ Len(lots) \in Nat \ {0}
  OBVIOUS
<1>2. first.amount \in Nat /\ first.entry_price \in Positive /\ rest \in Nat
  BY <1>1 DEF Lot
<1>3. Amounts(lots)[1] = first.amount /\ LotCosts(lots)[1] = first.entry_price * first.amount
  BY <1>1 DEF Amounts, LotCosts, Amount
<1>4. /\ Amounts(lots) \in Seq(Int) /\ LotCosts(lots) \in Seq(Int)
      /\ Len(Amounts(lots)) = Len(lots) /\ Len(LotCosts(lots)) = Len(lots)
      /\ TotalAmount(lots) \in Nat /\ Total(LotCosts(lots)) \in Int
  BY LotTotals
<1>5. CASE rest <= Eps
  <2>1. left = Tail(lots)
    BY <1>5 DEF Reduced
  <2>2. /\ left \in Seq(Lot) /\ Len(lots) = Len(left) + 1
        /\ \A n \in 1..Len(left) : left[n] = lots[n+1] /\ n+1 \in 1..Len(lots)
    BY <2>1
  <2>3. /\ Amounts(left) \in Seq(Int) /\ LotCosts(left) \in Seq(Int)
        /\ Len(Amounts(left)) = Len(left) /\ Len(LotCosts(left)) = Len(left)
    BY <2>2, LotTotals
  <2>4. \A n \in 1..Len(left) : /\ Amounts(left)[n] = Amounts(lots)[n+1]
                               /\ LotCosts(left)[n] = LotCosts(lots)[n+1]
    BY <2>2 DEF Amounts, LotCosts
  <2>5. Total(Amounts(left)) = Total(Amounts(lots)) - Amounts(lots)[1]
    BY <1>4, <2>2, <2>3, <2>4, TotalShrinks
  <2>6. Total(LotCosts(left)) = Total(LotCosts(lots)) - LotCosts(lots)[1]
    BY <1>4, <2>2, <2>3, <2>4, TotalShrinks
  <2>7. ~(rest > Eps) /\ Len(left) = Len(lots) - 1
    BY <1>2, <1>5, <2>2, EpsAssumption
  <2> QED BY <1>1, <1>2, <1>3, <1>5, <2>2, <2>5, <2>6, <2>7 DEF TotalAmount
<1>6. CASE rest > Eps
  <2> DEFINE part == [entry_price |-> first.entry_price, amount |-> rest]
  <2>1. part \in Lot /\ part.amount = rest /\ part.entry_price = first.entry_price
    BY <1>2 DEF Lot
  <2>2. left = [lots EXCEPT ![1] = part]
    BY <1>2, <1>6, EpsAssumption DEF Reduced
  <2> HIDE DEF part
  <2>3. /\ left \in Seq(Lot) /\ Len(left) = Len(lots) /\ left[1] = part
        /\ \A n \in 2..Len(left) : left[n] = lots[n] /\ n \in 1..Len(lots)
    BY <1>1, <2>1, <2>2
  <2>4. /\ Amounts(left) \in Seq(Int) /\ LotCosts(left) \in Seq(Int)
        /\ Len(Amounts(left)) = Len(left) /\ Len(LotCosts(left)) = Len(left)
    BY <2>3, LotTotals
  <2>5. \A n \in 2..Len(left) : /\ Amounts(left)[n] = Amounts(lots)[n]
                               /\ LotCosts(left)[n] = LotCosts(lots)[n]
    BY <2>3 DEF Amounts, LotCosts
  <2>6. Amounts(left)[1] = rest /\ LotCosts(left)[1] = first.entry_price * rest
    BY <1>1, <2>1, <2>3 DEF Amounts, LotCosts, Amount
  <2>7. Amounts(lots) # << >> /\ LotCosts(lots) # << >>
    BY <1>1, <1>4
  <2>8. Total(Amounts(left)) = Total(Amounts(lots)) - Amounts(lots)[1] + Amounts(left)[1]
    <3>1. /\ Amounts(lots) \in Seq(Int) /\ Amounts(left) \in Seq(Int) /\ Amounts(lots) # << >>
          /\ Len(Amounts(lots)) = Len(Amounts(left))
      BY <1>4, <2>3, <2>4, <2>7
    <3>2. \A n \in 2..Len(Amounts(left)) : Amounts(left)[n] = Amounts(lots)[n]
      BY <2>4, <2>5
    <3> QED BY <3>1, <3>2, TotalHeadChanges
  <2>9. Total(LotCosts(left)) = Total(LotCosts(lots)) - LotCosts(lots)[1] + LotCosts(left)[1]
    <3>1. /\ LotCosts(lots) \in Seq(Int) /\ LotCosts(left) \in Seq(Int) /\ LotCosts(lots) # << >>
          /\ Len(LotCosts(lots)) = Len(LotCosts(left))
      BY <1>4, <2>3, <2>4, <2>7
    <3>2. \A n \in 2..Len(LotCosts(left)) : LotCosts(left)[n] = LotCosts(lots)[n]
      BY <2>4, <2>5
    <3> QED BY <3>1, <3>2, TotalHeadChanges
  <2>10. TotalAmount(left) = TotalAmount(lots) - sold
    BY <1>2, <1>3, <1>4, <2>6, <2>8 DEF TotalAmount
  <2>11. ~(rest <= Eps)
    BY <1>2, <1>6, EpsAssumption
  <2> QED BY <1>1, <1>2, <1>3, <2>3, <2>6, <2>9, <2>10, <2>11
<1> QED BY <1>2, <1>5, <1>6, EpsAssumption

----------------------------------------------------------------------------
(* The sums over a history are integers.                                   *)
LEMMA HistoryTotals ==
  ASSUME NEW h \in Seq(PositionInfo)
  PROVE  /\ Flows(h) \in Seq(Int) /\ Len(Flows(h)) = Len(h)
         /\ Spent(h) \in Seq(Int) /\ Len(Spent(h)) = Len(h)
         /\ Profits(h) \in Seq(Int) /\ Len(Profits(h)) = Len(h)
         /\ Purchases(h) \in Seq(Int) /\ Len(Purchases(h)) = Len(h)
         /\ Total(Flows(h)) \in Int /\ Total(Spent(h)) \in Int
         /\ Total(Profits(h)) \in Int /\ Total(Purchases(h)) \in Int
<1>1. \A n \in 1..Len(h) : /\ Moved(h[n]) \in Int
                          /\ Moved(h[n]) * h[n].lot.entry_price \in Int
                          /\ h[n].realised_pnl \in Int
  <2>1. TAKE n \in 1..Len(h)
  <2>2. h[n] \in PositionInfo
    OBVIOUS
  <2>3. h[n].lot \in Lot /\ h[n].realised_pnl \in Int
    BY <2>2 DEF PositionInfo
  <2>4. h[n].lot.amount \in Int /\ h[n].lot.entry_price \in Int
    BY <2>3 DEF Lot, Positive
  <2>5. Moved(h[n]) \in Int
    BY <2>4 DEF Moved
  <2> QED BY <2>3, <2>4, <2>5
<1>2. /\ Flows(h) \in Seq(Int) /\ Len(Flows(h)) = Len(h)
      /\ Spent(h) \in Seq(Int) /\ Len(Spent(h)) = Len(h)
  BY <1>1 DEF Flows, Spent
<1>3. /\ Profits(h) \in Seq(Int) /\ Len(Profits(h)) = Len(h)
      /\ Purchases(h) \in Seq(Int) /\ Len(Purchases(h)) = Len(h)
  BY <1>1 DEF Profits, Purchases
<1> QED BY <1>2, <1>3, TotalInt

(* Recording a trade adds what it moved and earned to the sums.            *)
LEMMA HistoryGrows ==
  ASSUME NEW h \in Seq(PositionInfo), NEW t \in PositionInfo
  PROVE  /\ Append(h, t) \in Seq(PositionInfo)
         /\ Total(Flows(Append(h, t))) = Total(Flows(h)) + Moved(t)
         /\ Total(Spent(Append(h, t))) = Total(Spent(h)) + Moved(t) * t.lot.entry_price
         /\ Total(Profits(Append(h, t))) = Total(Profits(h)) + t.realised_pnl
         /\ Total(Purchases(Append(h, t))) =
               Total(Purchases(h)) + (IF t.action_type = "Buy" THEN 1 ELSE 0)
<1> DEFINE g == Append(h, t)
<1>1. /\ g \in Seq(PositionInfo) /\ Len(g) = Len(h) + 1 /\ Len(g) \in 1..Len(g) /\ g[Len(g)] = t
      /\ \A n \in 1..Len(h) : g[n] = h[n] /\ n \in 1..Len(g)
  OBVIOUS
<1> HIDE DEF g
<1>2. \A n \in 1..Len(h) : /\ Flows(g)[n] = Flows(h)[n] /\ Spent(g)[n] = Spent(h)[n]
                          /\ Profits(g)[n] = Profits(h)[n] /\ Purchases(g)[n] = Purchases(h)[n]
  BY <1>1 DEF Flows, Spent, Profits, Purchases
<1>3. /\ Flows(g)[Len(g)] = Moved(t) /\ Spent(g)[Len(g)] = Moved(t) * t.lot.entry_price
      /\ Profits(g)[Len(g)] = t.realised_pnl
      /\ Purchases(g)[Len(g)] = IF t.action_type = "Buy" THEN 1 ELSE 0
  BY <1>1 DEF Flows, Spent, Profits, Purchases
<1>4. Total(Flows(g)) = Total(Flows(h)) + Moved(t)
  <2>1. /\ Flows(h) \in Seq(Int) /\ Flows(g) \in Seq(Int) /\ Len(Flows(g)) = Len(g)
        /\ Len(Flows(h)) = Len(h) /\ Len(Flows(g)) = Len(Flows(h)) + 1
    BY <1>1, HistoryTotals
  <2>2. \A n \in 1..Len(Flows(h)) : Flows(g)[n] = Flows(h)[n]
    BY <1>2, <2>1
  <2>3. Total(Flows(g)) = Total(Flows(h)) + Flows(g)[Len(Flows(g))]
    BY <2>1, <2>2, TotalGrows
  <2> QED BY <1>3, <2>1, <2>3
<1>5. Total(Spent(g)) = Total(Spent(h)) + Moved(t) * t.lot.entry_price
  <2>1. /\ Spent(h) \in Seq(Int) /\ Spent(g) \in Seq(Int) /\ Len(Spent(g)) = Len(g)
        /\ Len(Spent(h)) = Len(h) /\ Len(Spent(g)) = Len(Spent(h)) + 1
    BY <1>1, HistoryTotals
  <2>2. \A n \in 1..Len(Spent(h)) : Spent(g)[n] = Spent(h)[n]
    BY <1>2, <2>1
  <2>3. Total(Spent(g)) = Total(Spent(h)) + Spent(g)[Len(Spent(g))]
    BY <2>1, <2>2, TotalGrows
  <2> QED BY <1>3, <2>1, <2>3
<1>6. Total(Profits(g)) = Total(Profits(h)) + t.realised_pnl
  <2>1. /\ Profits(h) \in Seq(Int) /\ Profits(g) \in Seq(Int) /\ Len(Profits(g)) = Len(g)
        /\ Len(Profits(h)) = Len(h) /\ Len(Profits(g)) = Len(Profits(h)) + 1
    BY <1>1, HistoryTotals
  <2>2. \A n \in 1..Len(Profits(h)) : Profits(g)[n] = Profits(h)[n]
    BY <1>2, <2>1
  <2>3. Total(Profits(g)) = Total(Profits(h)) + Profits(g)[Len(Profits(g))]
    BY <2>1, <2>2, TotalGrows
  <2> QED BY <1>3, <2>1, <2>3
<1>7. Total(Purchases(g)) = Total(Purchases(h)) + (IF t.action_type = "Buy" THEN 1 ELSE 0)
  <2>1. /\ Purchases(h) \in Seq(Int) /\ Purchases(g) \in Seq(Int) /\ Len(Purchases(g)) = Len(g)
        /\ Len(Purchases(h)) = Len(h) /\ Len(Purchases(g)) = Len(Purchases(h)) + 1
    BY <1>1, HistoryTotals
  <2>2. \A n \in 1..Len(Purchases(h)) : Purchases(g)[n] = Purchases(h)[n]
    BY <1>2, <2>1
  <2>3. Total(Purchases(g)) = Total(Purchases(h)) + Purchases(g)[Len(Purchases(g))]
    BY <2>1, <2>2, TotalGrows
  <2> QED BY <1>3, <2>1, <2>3
<1> QED BY <1>1, <1>4, <1>5, <1>6, <1>7 DEF g

----------------------------------------------------------------------------
(* The inductive invariant.  The loops of an update are covered by what    *)
(* is still due: the cash for all of it, the holdings for all of it.       *)

InLoop ==
  /\ ledger = "idle" <=> due = << >>
  /\ ledger # "matching" => unmatched = 0 /\ realised_pnl = 0
  /\ ledger = "matching" => unmatched <= Head(due).amount

Covered ==
  /\ ledger = "buying" => cash >= TotalCost(due)
  /\ ledger = "matching" => asset_amount >= TotalAmount(due)

PortfolioInv ==
  /\ PortfolioTypeOK
  /\ InLoop
  /\ Solvent
  /\ Covered
  /\ HistoryExplainsBalances
  /\ LotsAccountForHoldings
  /\ ProfitIsReal

(* The numbers of the invariant are integers, and the first due fill is a  *)
(* fill.                                                                   *)
LEMMA Numbers ==
  ASSUME PortfolioInv
  PROVE  /\ TotalAmount(positions) \in Nat /\ Total(LotCosts(positions)) \in Int
         /\ Total(Flows(trade_history)) \in Int /\ Total(Spent(trade_history)) \in Int
         /\ Total(Profits(trade_history)) \in Int /\ Total(Purchases(trade_history)) \in Int
         /\ Dropped \in Int /\ Eps * Dropped \in Int
         /\ opening.cash \in Int /\ opening.assets \in Nat /\ opening.taken \in Nat
         /\ Matched \in Nat /\ InTransit \in Int
<1>1. /\ TotalAmount(positions) \in Nat /\ Total(LotCosts(positions)) \in Int
      /\ Total(Flows(trade_history)) \in Int /\ Total(Spent(trade_history)) \in Int
      /\ Total(Profits(trade_history)) \in Int /\ Total(Purchases(trade_history)) \in Int
  BY LotTotals, HistoryTotals DEF PortfolioInv, PortfolioTypeOK
<1>2. Dropped \in Int
  BY <1>1 DEF Dropped, PortfolioInv, PortfolioTypeOK
<1>3. Eps * Dropped \in Int
  BY <1>2, EpsAssumption
<1>4. opening.cash \in Int /\ opening.assets \in Nat /\ opening.taken \in Nat
  BY DEF PortfolioInv, PortfolioTypeOK
<1>5. CASE ledger # "matching"
  BY <1>1, <1>2, <1>3, <1>4, <1>5 DEF Matched, InTransit
<1>6. CASE ledger = "matching"
  <2>1. due \in Seq(ExecutionFill) /\ due # << >> /\ unmatched \in Nat
        /\ unmatched <= Head(due).amount
    BY <1>6 DEF PortfolioInv, PortfolioTypeOK, InLoop
  <2>2. Head(due).amount \in Nat /\ Head(due).price \in Nat
    BY <2>1, FillTail DEF Positive
  <2>3. Matched \in Nat
    BY <1>6, <2>1, <2>2 DEF Matched
  <2>4. InTransit \in Int
    BY <1>6, <2>2, <2>3, ProductNat DEF InTransit
  <2> QED BY <1>1, <1>2, <1>3, <1>4, <2>3, <2>4
<1> QED BY <1>5, <1>6

(* Booking a purchase keeps the books in order.                            *)
LEMMA BookBuyKeeps == ASSUME PortfolioInv, BookBuy PROVE PortfolioInv'
<1> DEFINE f   == Head(due)
           lot == [entry_price |-> f.price, amount |-> f.amount]
           t   == [action_type |-> "Buy", lot |-> lot, realised_pnl |-> 0]
<1>1. /\ due \in Seq(ExecutionFill) /\ due # << >> /\ ledger = "buying"
      /\ unmatched = 0 /\ realised_pnl = 0 /\ cash \in Int /\ asset_amount \in Int
      /\ positions \in Seq(Lot) /\ trade_history \in Seq(PositionInfo)
  BY DEF PortfolioInv, PortfolioTypeOK, InLoop, BookBuy
<1>2. /\ f \in ExecutionFill /\ f.amount \in Positive /\ f.price \in Positive
      /\ Cost(f) \in Nat /\ Cost(f) = f.amount * f.price
      /\ TotalCost(due) = Cost(f) + TotalCost(Tail(due))
      /\ TotalCost(Tail(due)) \in Nat
  BY <1>1, FillTail, FillTotals DEF Cost
<1>3. /\ lot \in Lot /\ lot.amount = f.amount /\ lot.entry_price = f.price
      /\ t \in PositionInfo /\ t.realised_pnl = 0 /\ t.action_type = "Buy"
      /\ Moved(t) = f.amount /\ t.lot.entry_price = f.price
  BY <1>2 DEF Lot, PositionInfo, Moved, Positive
<1>4. /\ positions' = Append(positions, lot)
      /\ cash' = cash - Cost(f) /\ asset_amount' = asset_amount + f.amount
      /\ trade_history' = Append(trade_history, t)
      /\ due' = Tail(due)
      /\ UNCHANGED <<portfolio_values, unmatched, realised_pnl, opening>>
  BY DEF BookBuy, Record, Settle
<1>5. ledger' \in {"idle", "buying"} /\ (ledger' = "idle" <=> due' = << >>)
  <2>1. Tail(due) = << >> <=> Len(due) = 1
    BY <1>1, TailEmpty
  <2>2. ledger' = IF Len(due) = 1 THEN "idle" ELSE "buying"
    BY DEF BookBuy, Settle
  <2> QED BY <1>4, <2>1, <2>2
<1>0. /\ TotalAmount(positions) \in Nat /\ Total(LotCosts(positions)) \in Int
      /\ Total(Flows(trade_history)) \in Int /\ Total(Spent(trade_history)) \in Int
      /\ Total(Profits(trade_history)) \in Int /\ Total(Purchases(trade_history)) \in Int
      /\ Dropped \in Int
      /\ opening.cash \in Int /\ opening.assets \in Nat /\ opening.taken \in Nat
      /\ f.amount \in Nat /\ Cost(f) \in Nat
  BY <1>2, Numbers DEF Positive
<1> HIDE DEF lot, t
<1>6. PortfolioTypeOK'
  <2>1. positions' \in Seq(Lot) /\ trade_history' \in Seq(PositionInfo) /\ due' \in Seq(ExecutionFill)
    BY <1>1, <1>3, <1>4
  <2>2. cash' \in Int /\ asset_amount' \in Int
    <3>1. cash' = cash - Cost(f) /\ asset_amount' = asset_amount + f.amount
      BY <1>4
    <3>2. Cost(f) \in Nat /\ f.amount \in Nat /\ cash \in Int /\ asset_amount \in Int
      BY <1>0, <1>1
    <3> HIDE DEF f
    <3> QED BY <3>1, <3>2
  <2> QED BY <1>4, <1>5, <2>1, <2>2 DEF PortfolioInv, PortfolioTypeOK
<1>7. InLoop'
  BY <1>1, <1>4, <1>5 DEF InLoop
<1>8. Solvent' /\ Covered'
  <2>1. cash >= TotalCost(due) /\ asset_amount >= 0
    BY <1>1 DEF PortfolioInv, Covered, Solvent
  <2>2. cash' >= TotalCost(due') /\ cash' >= 0 /\ asset_amount' >= 0
    <3>1. /\ cash' = cash - Cost(f) /\ asset_amount' = asset_amount + f.amount
          /\ TotalCost(due') = TotalCost(Tail(due))
      BY <1>4
    <3>2. /\ Cost(f) \in Nat /\ f.amount \in Nat /\ TotalCost(Tail(due)) \in Nat
          /\ TotalCost(due) = Cost(f) + TotalCost(Tail(due))
      BY <1>0, <1>2
    <3> HIDE DEF f
    <3> QED BY <1>1, <2>1, <3>1, <3>2
  <2> QED BY <1>5, <2>2 DEF Solvent, Covered
<1>9. HistoryExplainsBalances'
  <2>1. /\ Total(Flows(trade_history')) = Total(Flows(trade_history)) + f.amount
        /\ Total(Spent(trade_history')) = Total(Spent(trade_history)) + Cost(f)
    BY <1>1, <1>2, <1>3, <1>4, HistoryGrows
  <2>2. asset_amount = opening.assets - opening.taken + Total(Flows(trade_history))
        /\ cash = opening.cash - Total(Spent(trade_history))
    BY DEF PortfolioInv, HistoryExplainsBalances
  <2>3. /\ asset_amount' = opening.assets - opening.taken + Total(Flows(trade_history'))
        /\ cash' = opening.cash - Total(Spent(trade_history'))
    <3>1. cash' = cash - Cost(f) /\ asset_amount' = asset_amount + f.amount
      BY <1>4
    <3> QED BY <1>0, <2>1, <2>2, <3>1
  <2> QED BY <1>4, <2>3 DEF HistoryExplainsBalances
<1>10. Matched = 0 /\ Matched' = 0 /\ InTransit = 0 /\ InTransit' = 0
  BY <1>1, <1>5 DEF Matched, InTransit
<1>11. LotsAccountForHoldings'
  <2>1. /\ TotalAmount(positions') = TotalAmount(positions) + f.amount
        /\ Len(positions') = Len(positions) + 1
        /\ Total(Purchases(trade_history')) = Total(Purchases(trade_history)) + 1
    BY <1>1, <1>3, <1>4, LotAppended, HistoryGrows
  <2>2. Dropped' = Dropped
    BY <1>1, <2>1, Numbers DEF Dropped
  <2> DEFINE dust == Eps * Dropped
  <2>3. /\ TotalAmount(positions) - opening.taken <= asset_amount
        /\ asset_amount <= TotalAmount(positions) + opening.assets + dust
        /\ dust \in Int
    <3>1. /\ (TotalAmount(positions) + Matched) - opening.taken <= asset_amount
          /\ asset_amount <= TotalAmount(positions) + Matched + opening.assets + dust
      BY DEF PortfolioInv, LotsAccountForHoldings
    <3>2. dust \in Int
      BY Numbers
    <3> HIDE DEF dust
    <3> QED BY <1>0, <1>1, <1>10, <3>1, <3>2
  <2>4. dust' = dust /\ opening' = opening
    BY <1>4, <2>2
  <2>5. asset_amount' = asset_amount + f.amount /\ asset_amount \in Int
    BY <1>1, <1>4
  <2> HIDE DEF dust
  <2>6. /\ (TotalAmount(positions') + 0) - opening.taken <= asset_amount'
        /\ asset_amount' <= TotalAmount(positions') + 0 + opening.assets + dust
    <3>1. TotalAmount(positions') = TotalAmount(positions) + f.amount
      BY <2>1
    <3>2. TotalAmount(positions) \in Int /\ f.amount \in Int /\ opening.assets \in Int /\ opening.taken \in Int
      BY <1>0
    <3> HIDE DEF f
    <3> QED BY <2>3, <2>5, <3>1, <3>2
  <2>7. /\ (TotalAmount(positions') + Matched') - opening'.taken <= asset_amount'
        /\ asset_amount' <= TotalAmount(positions') + Matched' + opening'.assets + dust'
    BY <1>10, <2>4, <2>6
  <2> QED BY <2>7 DEF LotsAccountForHoldings, dust
<1>12. ProfitIsReal'
  <2>1. /\ Total(LotCosts(positions')) = Total(LotCosts(positions)) + f.price * f.amount
        /\ Total(Profits(trade_history')) = Total(Profits(trade_history)) + 0
    BY <1>1, <1>3, <1>4, LotAppended, HistoryGrows
  <2>2. f.price * f.amount = Cost(f)
    BY <1>2 DEF Positive
  <2>3. ASSUME ExactBooks
        PROVE  cash' + Total(LotCosts(positions')) + 0
                 = opening.cash + Total(Profits(trade_history')) + 0
    <3>1. cash + Total(LotCosts(positions)) + 0 = opening.cash + Total(Profits(trade_history)) + 0
      BY <1>1, <1>10, <2>3 DEF PortfolioInv, ProfitIsReal
    <3>2. /\ Total(LotCosts(positions')) = Total(LotCosts(positions)) + Cost(f)
          /\ cash' = cash - Cost(f)
      BY <1>4, <2>1, <2>2
    <3> QED BY <1>0, <1>1, <2>1, <3>1, <3>2
  <2>4. ExactBooks' = ExactBooks
    BY <1>4 DEF ExactBooks
  <2> QED BY <1>1, <1>4, <1>10, <2>3, <2>4 DEF ProfitIsReal
<1> QED BY <1>6, <1>7, <1>8, <1>9, <1>11, <1>12 DEF PortfolioInv

(* What the books say does not change while nothing is booked or matched.  *)
LEMMA NothingBooked ==
  ASSUME PortfolioInv, Matched' = Matched, InTransit' = InTransit,
         UNCHANGED <<cash, asset_amount, trade_history, positions, realised_pnl, opening>>
  PROVE  HistoryExplainsBalances' /\ LotsAccountForHoldings' /\ ProfitIsReal'
<1>1. HistoryExplainsBalances'
  BY DEF PortfolioInv, HistoryExplainsBalances
<1>2. LotsAccountForHoldings'
  <2>1. Dropped' = Dropped
    BY DEF Dropped
  <2> QED BY <2>1 DEF PortfolioInv, LotsAccountForHoldings
<1>3. ProfitIsReal'
  <2>1. ExactBooks' = ExactBooks
    BY DEF ExactBooks
  <2> QED BY <2>1 DEF PortfolioInv, ProfitIsReal
<1> QED BY <1>1, <1>2, <1>3

(* Starting a purchase that can_buy allowed.                               *)
LEMMA UpdateAfterBuyKeeps ==
  ASSUME PortfolioInv, NEW fs \in Seq(ExecutionFill), UpdateAfterBuy(fs)
  PROVE  PortfolioInv'
<1>1. /\ ledger = "idle" /\ fs # << >> /\ cash >= TotalCost(fs) /\ ledger' = "buying" /\ due' = fs
      /\ UNCHANGED <<cash, asset_amount, trade_history, positions, portfolio_values,
                     unmatched, realised_pnl, opening>>
  BY DEF UpdateAfterBuy, CanBuy
<1>2. PortfolioTypeOK'
  BY <1>1 DEF PortfolioInv, PortfolioTypeOK
<1>3. InLoop'
  BY <1>1 DEF PortfolioInv, InLoop
<1>4. Solvent' /\ Covered'
  BY <1>1 DEF PortfolioInv, Solvent, Covered
<1>5. Matched' = Matched /\ InTransit' = InTransit
  BY <1>1 DEF Matched, InTransit
<1> QED BY <1>1, <1>2, <1>3, <1>4, <1>5, NothingBooked DEF PortfolioInv

(* Starting a sale that can_sell allowed.                                  *)
LEMMA UpdateAfterSellKeeps ==
  ASSUME PortfolioInv, NEW fs \in Seq(ExecutionFill), UpdateAfterSell(fs)
  PROVE  PortfolioInv'
<1>1. /\ ledger = "idle" /\ fs # << >> /\ asset_amount >= TotalAmount(fs)
      /\ ledger' = "matching" /\ due' = fs
      /\ unmatched' = Head(fs).amount /\ realised_pnl' = 0
      /\ UNCHANGED <<cash, asset_amount, trade_history, positions, portfolio_values, opening>>
  BY DEF UpdateAfterSell, CanSell, StartMatching
<1>2. Head(fs).amount \in Nat /\ Head(fs).price \in Nat
  BY <1>1, FillTail DEF Positive
<1>3. PortfolioTypeOK'
  BY <1>1, <1>2 DEF PortfolioInv, PortfolioTypeOK
<1>4. InLoop'
  BY <1>1, <1>2 DEF InLoop
<1>5. Solvent' /\ Covered'
  BY <1>1 DEF PortfolioInv, Solvent, Covered
<1>6. Matched = 0 /\ InTransit = 0 /\ realised_pnl = 0
  BY <1>1 DEF Matched, InTransit, PortfolioInv, InLoop
<1>7. Matched' = 0
  BY <1>1, <1>2 DEF Matched
<1>8. InTransit' = 0
  BY <1>1, <1>2, <1>7 DEF InTransit
<1> QED BY <1>1, <1>3, <1>4, <1>5, <1>6, <1>7, <1>8, NothingBooked DEF PortfolioInv

(* Recording a value, which must be an integer, touches nothing else.      *)
LEMMA UpdatePortfolioValueKeeps ==
  ASSUME PortfolioInv, NEW bid \in Positive, NEW ask \in Positive, UpdatePortfolioValue(bid, ask)
  PROVE  PortfolioInv'
<1>1. /\ portfolio_values' = Append(portfolio_values, 2 * cash + asset_amount * (bid + ask))
      /\ UNCHANGED <<cash, asset_amount, trade_history, positions, ledger, due,
                     unmatched, realised_pnl, opening>>
  BY DEF UpdatePortfolioValue
<1>2. 2 * cash + asset_amount * (bid + ask) \in Int
  BY DEF PortfolioInv, PortfolioTypeOK, Positive
<1>3. portfolio_values' \in Seq(Int)
  BY <1>1, <1>2 DEF PortfolioInv, PortfolioTypeOK
<1>4. PortfolioTypeOK'
  BY <1>1, <1>3 DEF PortfolioInv, PortfolioTypeOK
<1>5. InLoop' /\ Solvent' /\ Covered'
  BY <1>1 DEF PortfolioInv, InLoop, Solvent, Covered
<1>6. Matched' = Matched /\ InTransit' = InTransit
  BY <1>1 DEF Matched, InTransit
<1> QED BY <1>1, <1>4, <1>5, <1>6, NothingBooked DEF PortfolioInv

(* The sums over empty books are zero.                                     *)
LEMMA EmptyBooks ==
  /\ TotalAmount(<< >>) = 0 /\ Total(LotCosts(<< >>)) = 0
  /\ Total(Flows(<< >>)) = 0 /\ Total(Spent(<< >>)) = 0
  /\ Total(Profits(<< >>)) = 0 /\ Total(Purchases(<< >>)) = 0
<1>1. /\ Amounts(<< >>) = << >> /\ LotCosts(<< >>) = << >> /\ Flows(<< >>) = << >>
      /\ Spent(<< >>) = << >> /\ Profits(<< >>) = << >> /\ Purchases(<< >>) = << >>
  BY DEF Amounts, LotCosts, Flows, Spent, Profits, Purchases
<1> QED BY <1>1, TotalEmpty DEF TotalAmount

(* The books of a new portfolio are in order.                              *)
LEMMA HoldsInv ==
  \A balances \in [cash : Nat, assets : Nat] : Holds(balances) => PortfolioInv
<1> SUFFICES ASSUME NEW balances \in [cash : Nat, assets : Nat], Holds(balances)
             PROVE  PortfolioInv
  OBVIOUS
<1>1. /\ cash = balances.cash /\ asset_amount = balances.assets /\ opening = Given(balances)
      /\ Given(balances) = [cash |-> balances.cash, assets |-> balances.assets, taken |-> 0]
      /\ balances.cash \in Nat /\ balances.assets \in Nat
      /\ trade_history = << >> /\ positions = << >> /\ portfolio_values = << >>
      /\ ledger = "idle" /\ due = << >> /\ unmatched = 0 /\ realised_pnl = 0
  BY DEF Holds, Given
<1>2. PortfolioTypeOK
  BY <1>1 DEF PortfolioTypeOK
<1>3. InLoop /\ Solvent /\ Covered
  BY <1>1 DEF InLoop, Solvent, Covered
<1>4. Matched = 0 /\ InTransit = 0
  BY <1>1 DEF Matched, InTransit
<1>5. HistoryExplainsBalances
  BY <1>1, EmptyBooks DEF HistoryExplainsBalances
<1>6. LotsAccountForHoldings
  <2>1. Dropped = 0
    BY <1>1, EmptyBooks DEF Dropped
  <2>2. Eps * Dropped = 0
    BY <2>1, EpsAssumption
  <2>3. TotalAmount(positions) + Matched = 0
    BY <1>1, <1>4, EmptyBooks
  <2> QED BY <1>1, <2>2, <2>3 DEF LotsAccountForHoldings
<1>7. ProfitIsReal
  BY <1>1, <1>4, EmptyBooks DEF ProfitIsReal
<1> QED BY <1>2, <1>3, <1>5, <1>6, <1>7 DEF PortfolioInv

(* The same, of the state after a step.                                    *)
LEMMA HoldsInvNext ==
  (\A balances \in [cash : Nat, assets : Nat] : Holds(balances) => PortfolioInv)'
BY HoldsInv, PTL

(* So are those of the portfolio that Create replaces an idle one with.    *)
LEMMA CreateKeeps ==
  ASSUME PortfolioInv, NEW balances \in [cash : Nat, assets : Nat], Create(balances)
  PROVE  PortfolioInv'
<1>1. Holds(balances)'
  BY DEF Create, Holds, PortfolioInv, InLoop
<1> QED BY <1>1, HoldsInvNext

(* Setting the cash is as if the difference had been given or taken.       *)
LEMMA SetCashKeeps ==
  ASSUME PortfolioInv, NEW c \in Nat, SetCash(c)
  PROVE  PortfolioInv'
<1>1. /\ ledger = "idle" /\ cash' = c /\ opening \in [cash : Int, assets : Nat, taken : Nat]
      /\ opening' = [opening EXCEPT !.cash = opening.cash + (c - cash)]
      /\ UNCHANGED <<asset_amount, trade_history, positions, portfolio_values, ledger, due,
                     unmatched, realised_pnl>>
  BY DEF SetCash, PortfolioInv, PortfolioTypeOK
<1>2. /\ cash \in Int /\ opening.cash \in Int
      /\ opening'.cash = opening.cash + (c - cash)
      /\ opening'.assets = opening.assets /\ opening'.taken = opening.taken
      /\ opening' \in [cash : Int, assets : Nat, taken : Nat]
  <2>1. cash \in Int /\ opening.cash \in Int
    BY <1>1 DEF PortfolioInv, PortfolioTypeOK
  <2>2. opening.cash + (c - cash) \in Int
    BY <2>1
  <2> QED BY <1>1, <2>1, <2>2
<1>3. PortfolioTypeOK'
  BY <1>1, <1>2 DEF PortfolioInv, PortfolioTypeOK
<1>4. InLoop' /\ Solvent' /\ Covered'
  BY <1>1 DEF PortfolioInv, InLoop, Solvent, Covered
<1>5. Matched' = 0 /\ InTransit' = 0 /\ Matched = 0 /\ InTransit = 0 /\ Dropped' = Dropped
  BY <1>1 DEF Matched, InTransit, Dropped
<1>6. HistoryExplainsBalances'
  <2>1. /\ asset_amount = opening.assets - opening.taken + Total(Flows(trade_history))
        /\ cash = opening.cash - Total(Spent(trade_history))
        /\ Total(Spent(trade_history)) \in Int
    BY Numbers DEF PortfolioInv, HistoryExplainsBalances
  <2>2. cash' = opening'.cash - Total(Spent(trade_history))
    BY <1>1, <1>2, <2>1
  <2> QED BY <1>1, <1>2, <2>1, <2>2 DEF HistoryExplainsBalances
<1>7. LotsAccountForHoldings'
  BY <1>1, <1>2, <1>5 DEF PortfolioInv, LotsAccountForHoldings
<1>8. ProfitIsReal'
  <2>1. ExactBooks' = ExactBooks
    BY <1>2 DEF ExactBooks
  <2>2. ASSUME ExactBooks
        PROVE  cash' + Total(LotCosts(positions)) + 0
                 = opening'.cash + Total(Profits(trade_history)) + realised_pnl
    <3>1. /\ cash + Total(LotCosts(positions)) + 0
               = opening.cash + Total(Profits(trade_history)) + realised_pnl
          /\ Total(LotCosts(positions)) \in Int /\ Total(Profits(trade_history)) \in Int
          /\ realised_pnl \in Int
      BY <1>5, <2>2, Numbers DEF PortfolioInv, PortfolioTypeOK, ProfitIsReal
    <3> QED BY <1>1, <1>2, <3>1
  <2> QED BY <1>1, <1>5, <2>1, <2>2 DEF ProfitIsReal
<1> QED BY <1>3, <1>4, <1>6, <1>7, <1>8 DEF PortfolioInv

(* Setting the holdings gives units without a lot, or takes units and      *)
(* leaves their lots.                                                      *)
LEMMA SetAmountKeeps ==
  ASSUME PortfolioInv, NEW a \in Nat, SetAmount(a)
  PROVE  PortfolioInv'
<1>1. /\ ledger = "idle" /\ asset_amount' = a
      /\ opening' = IF a >= asset_amount
                    THEN [opening EXCEPT !.assets = opening.assets + (a - asset_amount)]
                    ELSE [opening EXCEPT !.taken = opening.taken + (asset_amount - a)]
      /\ UNCHANGED <<cash, trade_history, positions, portfolio_values, ledger, due,
                     unmatched, realised_pnl>>
  BY DEF SetAmount
<1>2. /\ asset_amount \in Int /\ opening \in [cash : Int, assets : Nat, taken : Nat]
      /\ opening.assets \in Nat /\ opening.taken \in Nat
  BY DEF PortfolioInv, PortfolioTypeOK
<1>3. /\ opening' \in [cash : Int, assets : Nat, taken : Nat] /\ opening'.cash = opening.cash
      /\ opening'.assets \in Nat /\ opening'.taken \in Nat
      /\ opening'.assets >= opening.assets /\ opening'.taken >= opening.taken
      /\ opening'.assets - opening'.taken = opening.assets - opening.taken + (a - asset_amount)
      /\ a >= asset_amount => opening'.assets = opening.assets + (a - asset_amount)
      /\ a < asset_amount => opening'.taken = opening.taken + (asset_amount - a)
  <2>1. CASE a >= asset_amount
    BY <1>1, <1>2, <2>1
  <2>2. CASE a < asset_amount
    BY <1>1, <1>2, <2>2
  <2> QED BY <1>2, <2>1, <2>2
<1>4. PortfolioTypeOK'
  BY <1>1, <1>3 DEF PortfolioInv, PortfolioTypeOK
<1>5. InLoop' /\ Solvent' /\ Covered'
  BY <1>1 DEF PortfolioInv, InLoop, Solvent, Covered
<1>6. Matched' = 0 /\ InTransit' = 0 /\ Matched = 0 /\ InTransit = 0 /\ Dropped' = Dropped
  BY <1>1 DEF Matched, InTransit, Dropped
<1>7. HistoryExplainsBalances'
  <2>1. /\ asset_amount = opening.assets - opening.taken + Total(Flows(trade_history))
        /\ cash = opening.cash - Total(Spent(trade_history))
        /\ Total(Flows(trade_history)) \in Int
    BY Numbers DEF PortfolioInv, HistoryExplainsBalances
  <2>2. asset_amount' = opening'.assets - opening'.taken + Total(Flows(trade_history))
    BY <1>1, <1>2, <1>3, <2>1
  <2> QED BY <1>1, <1>3, <2>1, <2>2 DEF HistoryExplainsBalances
<1>8. LotsAccountForHoldings'
  <2> DEFINE dust == Eps * Dropped
             lots == TotalAmount(positions)
  <2>1. /\ (lots + 0) - opening.taken <= asset_amount
        /\ asset_amount <= lots + 0 + opening.assets + dust
    BY <1>6 DEF PortfolioInv, LotsAccountForHoldings
  <2>2. lots \in Nat /\ dust \in Int
    BY Numbers
  <2>3. lots' = lots /\ dust' = dust
    BY <1>1, <1>6
  <2> HIDE DEF dust, lots
  <2>4. /\ (lots + 0) - opening'.taken <= a
        /\ a <= lots + 0 + opening'.assets + dust
    BY <1>2, <1>3, <2>1, <2>2
  <2>5. /\ (lots' + Matched') - opening'.taken <= asset_amount'
        /\ asset_amount' <= lots' + Matched' + opening'.assets + dust'
    BY <1>1, <1>6, <2>3, <2>4
  <2> QED BY <2>5 DEF LotsAccountForHoldings, lots, dust
<1>9. ProfitIsReal'
  <2>1. ExactBooks' => ExactBooks
    BY <1>2, <1>3 DEF ExactBooks
  <2> QED BY <1>1, <1>3, <1>6, <2>1 DEF PortfolioInv, ProfitIsReal
<1> QED BY <1>4, <1>5, <1>7, <1>8, <1>9 DEF PortfolioInv

(* What the invariant says of a state inside a sale.                       *)
LEMMA InSale ==
  ASSUME PortfolioInv, ledger = "matching"
  PROVE  /\ due \in Seq(ExecutionFill) /\ due # << >>
         /\ Head(due).amount \in Nat /\ Head(due).price \in Nat
         /\ TotalAmount(due) = Head(due).amount + TotalAmount(Tail(due))
         /\ TotalAmount(Tail(due)) \in Nat
         /\ unmatched \in Nat /\ unmatched <= Head(due).amount
         /\ Matched = Head(due).amount - unmatched
         /\ InTransit = Matched * Head(due).price
         /\ asset_amount >= TotalAmount(due)
<1>1. /\ due \in Seq(ExecutionFill) /\ due # << >> /\ unmatched \in Nat
      /\ unmatched <= Head(due).amount /\ asset_amount >= TotalAmount(due)
  BY DEF PortfolioInv, PortfolioTypeOK, InLoop, Covered
<1>2. Tail(due) \in Seq(ExecutionFill)
  BY <1>1
<1> QED BY <1>1, <1>2, FillTail, FillTotals DEF Matched, InTransit, Positive

(* Matching a lot moves units from the lots to the fill and their profit   *)
(* to the result, and loses at most Eps when it drops the lot.             *)
LEMMA MatchLotKeeps == ASSUME PortfolioInv, MatchLot PROVE PortfolioInv'
<1> DEFINE lot   == Head(positions)
           sold  == Smaller(unmatched, lot.amount)
           rest  == lot.amount - sold
           price == Head(due).price
<1>1. /\ ledger = "matching" /\ unmatched > 0 /\ positions # << >>
      /\ realised_pnl' = realised_pnl + (price - lot.entry_price) * sold
      /\ unmatched' = unmatched - sold
      /\ positions' = Reduced(positions, sold)
      /\ UNCHANGED <<cash, asset_amount, trade_history, portfolio_values, ledger, due, opening>>
  BY DEF MatchLot, LotsLeft
<1>2. /\ positions \in Seq(Lot) /\ cash \in Int /\ asset_amount \in Int /\ realised_pnl \in Int
      /\ unmatched \in Nat /\ unmatched <= Head(due).amount /\ Head(due).amount \in Nat
      /\ price \in Nat /\ Matched = Head(due).amount - unmatched /\ InTransit = Matched * price
  BY <1>1, InSale DEF PortfolioInv, PortfolioTypeOK
<1>3. lot \in Lot /\ lot.amount \in Nat /\ lot.entry_price \in Nat
  <2>1. lot \in Lot
    BY <1>1, <1>2
  <2> QED BY <2>1 DEF Lot, Positive
<1>4. sold \in Nat /\ sold <= unmatched /\ sold <= lot.amount
  BY <1>2, <1>3 DEF Smaller
<1> HIDE DEF sold
<1>5. /\ positions' \in Seq(Lot) /\ rest \in Nat
      /\ rest <= Eps =>
           /\ Len(positions') = Len(positions) - 1
           /\ TotalAmount(positions') = TotalAmount(positions) - lot.amount
           /\ Total(LotCosts(positions')) = Total(LotCosts(positions)) - lot.entry_price * lot.amount
      /\ rest > Eps =>
           /\ Len(positions') = Len(positions)
           /\ TotalAmount(positions') = TotalAmount(positions) - sold
           /\ Total(LotCosts(positions')) = Total(LotCosts(positions)) - lot.entry_price * lot.amount
                                                                     + lot.entry_price * rest
  BY <1>1, <1>2, <1>4, LotReduced
<1>6. Matched' = Matched + sold
  <2>1. Matched' = Head(due).amount - unmatched'
    BY <1>1 DEF Matched
  <2> HIDE DEF lot
  <2> QED BY <1>1, <1>2, <1>4, <2>1
<1>7. InTransit' = (Matched + sold) * price
  BY <1>1, <1>6 DEF InTransit
<1>8. PortfolioTypeOK'
  <2>1. unmatched' \in Nat
    BY <1>1, <1>2, <1>4
  <2>2. (price - lot.entry_price) * sold \in Int
    <3>1. price - lot.entry_price \in Int
      BY <1>2, <1>3
    <3> HIDE DEF price, lot
    <3> QED BY <1>4, <3>1
  <2>3. realised_pnl' \in Int
    BY <1>1, <1>2, <2>2
  <2> QED BY <1>1, <1>5, <2>1, <2>3 DEF PortfolioInv, PortfolioTypeOK
<1>9. InLoop'
  <2>1. unmatched' <= Head(due).amount
    BY <1>1, <1>2, <1>4
  <2> QED BY <1>1, <2>1 DEF PortfolioInv, InLoop
<1>10. Solvent' /\ Covered'
  BY <1>1 DEF PortfolioInv, Solvent, Covered
<1>11. HistoryExplainsBalances'
  BY <1>1 DEF PortfolioInv, HistoryExplainsBalances
<1>12. LotsAccountForHoldings'
  <2> DEFINE dust == Eps * Dropped
  <2>1. /\ (TotalAmount(positions) + Matched) - opening.taken <= asset_amount
        /\ asset_amount <= TotalAmount(positions) + Matched + opening.assets + dust
    BY DEF PortfolioInv, LotsAccountForHoldings
  <2>2. /\ TotalAmount(positions) \in Nat /\ Matched \in Nat /\ opening.assets \in Nat /\ opening.taken \in Nat
        /\ dust \in Int /\ Dropped \in Int
    BY Numbers
  <2>3. CASE rest > Eps
    <3>1. TotalAmount(positions') + Matched' = TotalAmount(positions) + Matched
      BY <1>4, <1>5, <1>6, <2>2, <2>3
    <3>2. Dropped' = Dropped
      BY <1>1, <1>5, <2>3 DEF Dropped
    <3> QED BY <1>1, <2>1, <3>1, <3>2 DEF LotsAccountForHoldings
  <2>4. CASE rest <= Eps
    <3>1. /\ TotalAmount(positions') = TotalAmount(positions) - lot.amount
          /\ Len(positions') = Len(positions) - 1
      BY <1>5, <2>4
    <3>2. TotalAmount(positions') + Matched' = (TotalAmount(positions) + Matched) - rest
      BY <1>3, <1>4, <1>6, <2>2, <3>1
    <3>3. Dropped' = Dropped + 1
      <4>1. Total(Purchases(trade_history)) \in Int /\ Len(positions) \in Int
        BY <1>2, Numbers
      <4> QED BY <1>1, <3>1, <4>1 DEF Dropped
    <3>4. Eps * Dropped' = dust + Eps
      <4>1. (Dropped + 1) * Eps = Dropped * Eps + 1 * Eps /\ Dropped * Eps = Eps * Dropped
            /\ (Dropped + 1) * Eps = Eps * (Dropped + 1)
        BY <2>2, EpsAssumption, Distributes
      <4> QED BY <3>3, <4>1, EpsAssumption
    <3> DEFINE before == TotalAmount(positions) + Matched
    <3>5. /\ before \in Nat /\ rest \in Nat /\ Eps \in Nat /\ rest <= Eps
          /\ asset_amount \in Int /\ opening.assets \in Nat /\ opening.taken \in Nat /\ dust \in Int
      <4>1. before \in Nat /\ opening.assets \in Nat /\ opening.taken \in Nat /\ dust \in Int
        BY <2>2
      <4>2. rest \in Nat /\ asset_amount \in Int
        BY <1>2, <1>5
      <4> QED BY <2>4, <4>1, <4>2, EpsAssumption
    <3>6. before - opening.taken <= asset_amount /\ asset_amount <= before + opening.assets + dust
      BY <2>1
    <3>8. TotalAmount(positions') + Matched' = before - rest
      BY <3>2
    <3> HIDE DEF dust, before, rest
    <3>7. before - rest - opening.taken <= asset_amount /\ asset_amount <= before - rest + opening.assets + (dust + Eps)
      BY <3>5, <3>6
    <3>9. opening' = opening /\ asset_amount' = asset_amount
      BY <1>1
    <3>10. /\ (TotalAmount(positions') + Matched') - opening'.taken <= asset_amount'
           /\ asset_amount' <= TotalAmount(positions') + Matched' + opening'.assets + Eps * Dropped'
      BY <3>4, <3>7, <3>8, <3>9
    <3> QED BY <3>10 DEF LotsAccountForHoldings
  <2> QED BY <1>5, <2>3, <2>4, EpsAssumption
<1>13. ProfitIsReal'
  <2>1. ExactBooks' = ExactBooks
    BY <1>1 DEF ExactBooks
  <2>2. ASSUME ExactBooks
        PROVE  cash + Total(LotCosts(positions')) + (Matched + sold) * price
                 = opening.cash + Total(Profits(trade_history)) + realised_pnl'
    <3> DEFINE entry == lot.entry_price
    <3>1. Total(LotCosts(positions')) = Total(LotCosts(positions)) - entry * sold
      <4>1. CASE rest <= Eps
        <5>1. rest = 0
          BY <1>5, <2>2, <4>1 DEF ExactBooks
        <5>2. lot.amount = sold
          BY <1>3, <1>4, <5>1
        <5> QED BY <1>5, <4>1, <5>2
      <4>2. CASE rest > Eps
        <5>1. Total(LotCosts(positions')) = Total(LotCosts(positions)) - entry * lot.amount + entry * rest
          BY <1>5, <4>2
        <5>2. entry * rest = entry * lot.amount - entry * sold
          <6>1. (lot.amount - sold) * entry = lot.amount * entry - sold * entry
            BY <1>3, <1>4, Distributes
          <6>2. lot.amount * entry = entry * lot.amount /\ sold * entry = entry * sold
            BY <1>3, <1>4, Distributes
          <6>3. rest * entry = entry * rest
            BY <1>3, <1>5, Distributes
          <6> QED BY <6>1, <6>2, <6>3
        <5>3. entry * lot.amount \in Int /\ entry * sold \in Int /\ Total(LotCosts(positions)) \in Int
          BY <1>3, <1>4, ProductNat, Numbers
        <5> QED BY <5>1, <5>2, <5>3
      <4> QED BY <1>5, <4>1, <4>2, EpsAssumption
    <3>2. (Matched + sold) * price = InTransit + price * sold
      <4>1. Matched \in Int /\ sold \in Int /\ price \in Int
        BY <1>2, <1>4, Numbers, SMTT(20)
      <4>2. (Matched + sold) * price = Matched * price + sold * price /\ sold * price = price * sold
        BY <4>1, Distributes
      <4> QED BY <1>2, <4>2
    <3>3. (price - entry) * sold = price * sold - entry * sold
      BY <1>2, <1>3, <1>4, Distributes
    <3> DEFINE gain == price * sold
               basis == entry * sold
    <3>4. gain \in Int /\ basis \in Int
      BY <1>2, <1>3, <1>4, ProductNat
    <3>5. cash + Total(LotCosts(positions)) + InTransit = opening.cash + Total(Profits(trade_history)) + realised_pnl
      BY <2>2 DEF PortfolioInv, ProfitIsReal
    <3>6. /\ Total(LotCosts(positions)) \in Int /\ InTransit \in Int /\ opening.cash \in Int
          /\ Total(Profits(trade_history)) \in Int
      BY Numbers
    <3>7. realised_pnl' = realised_pnl + (gain - basis) /\ cash \in Int /\ realised_pnl \in Int
      BY <1>1, <1>2, <3>3
    <3>8. Total(LotCosts(positions')) = Total(LotCosts(positions)) - basis
          /\ (Matched + sold) * price = InTransit + gain
      BY <3>1, <3>2
    <3> HIDE DEF gain, basis, price
    <3> QED BY <3>4, <3>5, <3>6, <3>7, <3>8
  <2> QED BY <1>1, <1>7, <2>1, <2>2 DEF ProfitIsReal
<1> QED BY <1>8, <1>9, <1>10, <1>11, <1>12, <1>13 DEF PortfolioInv

(* Exact lots do not run out before a sale is matched: they hold what the  *)
(* portfolio holds.                                                        *)
LEMMA LotsSuffice == ASSUME PortfolioInv, BookSell, ExactBooks PROVE unmatched = 0
<1> DEFINE lots == TotalAmount(positions)
           dust == Eps * Dropped
<1>1. /\ ledger = "matching" /\ ~(unmatched > 0 /\ positions # << >>)
  BY DEF BookSell, LotsLeft
<1>2. /\ Head(due).amount \in Nat /\ unmatched \in Nat /\ Matched = Head(due).amount - unmatched
      /\ asset_amount >= TotalAmount(due)
      /\ TotalAmount(due) = Head(due).amount + TotalAmount(Tail(due)) /\ TotalAmount(Tail(due)) \in Nat
  BY <1>1, InSale
<1>3. asset_amount \in Int /\ opening.assets = 0
  BY DEF PortfolioInv, PortfolioTypeOK, ExactBooks
<1>4. dust = 0
  <2>1. Eps = 0 /\ Dropped \in Int
    BY Numbers DEF ExactBooks
  <2> QED BY <2>1
<1>5. asset_amount <= lots + Matched + 0 + 0
  <2>1. asset_amount <= lots + Matched + opening.assets + dust
    BY DEF PortfolioInv, LotsAccountForHoldings
  <2> QED BY <1>3, <1>4, <2>1
<1>6. unmatched = 0 \/ lots = 0
  <2>1. unmatched = 0 \/ positions = << >>
    BY <1>1, <1>2
  <2> QED BY <2>1, EmptyBooks
<1>7. lots \in Nat
  BY Numbers
<1> HIDE DEF lots, dust
<1> QED BY <1>2, <1>3, <1>5, <1>6, <1>7

(* Booking a sale: its units have left the lots, or the lots have run out, *)
(* which exact books exclude.                                              *)
LEMMA BookSellKeeps == ASSUME PortfolioInv, BookSell PROVE PortfolioInv'
<1> DEFINE f == Head(due)
           lot == [entry_price |-> f.price, amount |-> f.amount]
           t == [action_type |-> "Sell", lot |-> lot, realised_pnl |-> realised_pnl]
<1>1. /\ ledger = "matching" /\ ~LotsLeft
      /\ cash' = cash + Cost(f) /\ asset_amount' = asset_amount - f.amount
      /\ trade_history' = Append(trade_history, t)
      /\ due' = Tail(due) /\ realised_pnl' = 0
      /\ unmatched' = IF Tail(due) = << >> THEN 0 ELSE Head(Tail(due)).amount
      /\ ledger' = IF Len(due) = 1 THEN "idle" ELSE "matching"
      /\ UNCHANGED <<positions, portfolio_values, opening>>
  BY DEF BookSell, Record, Settle, StartMatching
<1>2. /\ due \in Seq(ExecutionFill) /\ due # << >>
      /\ f.amount \in Nat
      /\ TotalAmount(due) = f.amount + TotalAmount(Tail(due)) /\ TotalAmount(Tail(due)) \in Nat
      /\ unmatched \in Nat /\ unmatched <= f.amount /\ Matched = f.amount - unmatched
      /\ InTransit = Matched * f.price /\ asset_amount >= TotalAmount(due)
  BY <1>1, InSale
<1>3. /\ f \in ExecutionFill /\ f.price \in Positive /\ f.amount \in Positive
      /\ Cost(f) \in Nat /\ Cost(f) = f.amount * f.price /\ Tail(due) \in Seq(ExecutionFill)
  BY <1>2, FillTail DEF Cost
<1>4. /\ positions \in Seq(Lot) /\ cash \in Int /\ asset_amount \in Int /\ realised_pnl \in Int
      /\ trade_history \in Seq(PositionInfo)
  BY DEF PortfolioInv, PortfolioTypeOK
<1>5. /\ lot \in Lot /\ t \in PositionInfo /\ t.realised_pnl = realised_pnl
      /\ t.action_type = "Sell" /\ Moved(t) = 0 - f.amount /\ t.lot.entry_price = f.price
  BY <1>3, <1>4 DEF Lot, PositionInfo, Moved, Positive
<1> HIDE DEF lot, t
<1>6. ledger' \in {"idle", "matching"} /\ (ledger' = "idle" <=> due' = << >>)
  BY <1>1, <1>2, TailEmpty
<1>7. /\ Total(Flows(trade_history')) = Total(Flows(trade_history)) + (0 - f.amount)
      /\ Total(Spent(trade_history')) = Total(Spent(trade_history)) + (0 - f.amount) * f.price
      /\ Total(Profits(trade_history')) = Total(Profits(trade_history)) + realised_pnl
      /\ Total(Purchases(trade_history')) = Total(Purchases(trade_history)) + 0
      /\ trade_history' \in Seq(PositionInfo)
  BY <1>1, <1>4, <1>5, HistoryGrows
<1>8. due' # << >> => Head(due').amount \in Nat /\ Head(due').price \in Nat
  BY <1>1, <1>3, FillTail DEF Positive
<1>9. unmatched' \in Nat /\ (due' # << >> => unmatched' = Head(due').amount)
      /\ (due' = << >> => unmatched' = 0)
  BY <1>1, <1>8
<1>20. /\ cash' = cash + Cost(f) /\ asset_amount' = asset_amount - f.amount
      /\ due' = Tail(due) /\ realised_pnl' = 0
      /\ positions' = positions /\ portfolio_values' = portfolio_values /\ opening' = opening
  BY <1>1
<1>10. PortfolioTypeOK'
  <2>1. cash' \in Int /\ asset_amount' \in Int
    <3>1. Cost(f) \in Nat /\ f.amount \in Nat
      BY <1>2, <1>3
    <3> HIDE DEF f
    <3> QED BY <1>20, <1>4, <3>1
  <2>2. positions' \in Seq(Lot) /\ portfolio_values' \in Seq(Int) /\ opening' \in [cash : Int, assets : Nat, taken : Nat]
    BY <1>20 DEF PortfolioInv, PortfolioTypeOK
  <2>3. due' \in Seq(ExecutionFill) /\ realised_pnl' \in Int
    <3>1. Tail(due) \in Seq(ExecutionFill)
      BY <1>3
    <3> QED BY <1>20, <3>1
  <2>4. ledger' \in {"idle", "buying", "matching"} /\ unmatched' \in Nat
    BY <1>6, <1>9
  <2> QED BY <1>7, <2>1, <2>2, <2>3, <2>4 DEF PortfolioTypeOK
<1>11. InLoop'
  BY <1>1, <1>6, <1>8, <1>9 DEF InLoop
<1>12. Solvent' /\ Covered'
  <2>1. cash >= 0
    BY DEF PortfolioInv, Solvent
  <2>2. cash' >= 0
    BY <1>1, <1>3, <1>4, <2>1
  <2>3. asset_amount' >= TotalAmount(due') /\ asset_amount' >= 0
    <3>1. /\ asset_amount >= TotalAmount(due) /\ TotalAmount(due) = f.amount + TotalAmount(Tail(due))
          /\ TotalAmount(Tail(due)) \in Nat /\ f.amount \in Nat
      BY <1>2
    <3>2. TotalAmount(due') = TotalAmount(Tail(due))
      BY <1>20
    <3> HIDE DEF f
    <3> QED BY <1>20, <1>4, <3>1, <3>2
  <2> QED BY <1>6, <2>2, <2>3 DEF Solvent, Covered
<1>13. HistoryExplainsBalances'
  <2>1. asset_amount = opening.assets - opening.taken + Total(Flows(trade_history))
        /\ cash = opening.cash - Total(Spent(trade_history))
    BY DEF PortfolioInv, HistoryExplainsBalances
  <2>2. (0 - f.amount) * f.price = 0 - Cost(f)
    <3>1. (0 - f.amount) * f.price = 0 * f.price - f.amount * f.price
      BY <1>2, <1>3, Distributes DEF Positive
    <3> QED BY <1>3, <3>1 DEF Positive
  <2>3. /\ Total(Flows(trade_history)) \in Int /\ Total(Spent(trade_history)) \in Int
        /\ opening.cash \in Int /\ opening.assets \in Nat /\ opening.taken \in Nat /\ Cost(f) \in Nat /\ f.amount \in Nat
    BY <1>2, <1>3, Numbers
  <2>4. /\ Total(Flows(trade_history')) = Total(Flows(trade_history)) + (0 - f.amount)
        /\ Total(Spent(trade_history')) = Total(Spent(trade_history)) + (0 - Cost(f))
        /\ cash' = cash + Cost(f) /\ asset_amount' = asset_amount - f.amount /\ opening' = opening
    BY <1>1, <1>7, <2>2
  <2> HIDE DEF f
  <2>5. /\ asset_amount' = opening.assets - opening.taken + Total(Flows(trade_history'))
        /\ cash' = opening.cash - Total(Spent(trade_history'))
    BY <2>1, <2>3, <2>4
  <2> QED BY <2>4, <2>5 DEF HistoryExplainsBalances
<1>14. Matched' = 0 /\ InTransit' = 0
  <2>1. Matched' = 0
    BY <1>6, <1>8, <1>9 DEF Matched
  <2> QED BY <1>6, <1>8, <2>1 DEF InTransit
<1> DEFINE lots == TotalAmount(positions)
           dust == Eps * Dropped
<1>15. /\ (lots + Matched) - opening.taken <= asset_amount
       /\ asset_amount <= lots + Matched + opening.assets + dust
  BY DEF PortfolioInv, LotsAccountForHoldings
<1>16. /\ lots \in Nat /\ Matched \in Nat /\ dust \in Int /\ opening.assets \in Nat /\ opening.taken \in Nat
  BY Numbers
<1>17. unmatched = 0 \/ lots = 0
  <2>1. unmatched = 0 \/ positions = << >>
    BY <1>1, <1>2 DEF LotsLeft
  <2> QED BY <2>1, EmptyBooks
<1>18. LotsAccountForHoldings'
  <2>1. Dropped' = Dropped
    <3>1. Total(Purchases(trade_history)) \in Int
      BY Numbers
    <3>2. Total(Purchases(trade_history')) = Total(Purchases(trade_history))
      BY <1>7, <3>1
    <3> QED BY <1>1, <3>2 DEF Dropped
  <2>2. asset_amount' = asset_amount - f.amount /\ asset_amount \in Int /\ f.amount \in Nat
        /\ f.amount <= asset_amount /\ Matched <= f.amount /\ (unmatched = 0 => Matched = f.amount)
    <3>1. /\ asset_amount >= TotalAmount(due) /\ TotalAmount(due) = f.amount + TotalAmount(Tail(due))
          /\ TotalAmount(Tail(due)) \in Nat /\ f.amount \in Nat
          /\ unmatched \in Nat /\ Matched = f.amount - unmatched
      BY <1>2
    <3> HIDE DEF f
    <3> QED BY <1>20, <1>4, <3>1
  <2>3. dust' = dust /\ opening' = opening /\ lots' = lots
    BY <1>1, <2>1
  <2> HIDE DEF f, dust, lots
  <2>4. /\ (lots + 0) - opening.taken <= asset_amount'
        /\ asset_amount' <= lots + 0 + opening.assets + dust
    BY <1>15, <1>16, <1>17, <2>2
  <2>5. /\ (lots' + Matched') - opening'.taken <= asset_amount'
        /\ asset_amount' <= lots' + Matched' + opening'.assets + dust'
    BY <1>14, <2>3, <2>4
  <2> QED BY <2>5 DEF LotsAccountForHoldings, lots, dust
<1>19. ProfitIsReal'
  <2>1. ExactBooks' = ExactBooks
    BY <1>1 DEF ExactBooks
  <2>2. ASSUME ExactBooks
        PROVE  cash' + Total(LotCosts(positions)) + 0 = opening.cash + Total(Profits(trade_history')) + 0
    <3>1. dust = 0 /\ opening.assets = 0
      <4>1. Eps = 0 /\ opening.assets = 0 /\ Dropped \in Int
        BY <2>2, Numbers DEF ExactBooks
      <4> QED BY <4>1
    <3>2. unmatched = 0
      BY <2>2, LotsSuffice
    <3>3. InTransit = Cost(f)
      BY <1>2, <1>3, <3>2
    <3>4. cash + Total(LotCosts(positions)) + InTransit
            = opening.cash + Total(Profits(trade_history)) + realised_pnl
      BY <2>2 DEF PortfolioInv, ProfitIsReal
    <3>5. /\ Total(LotCosts(positions)) \in Int /\ opening.cash \in Int
          /\ Total(Profits(trade_history)) \in Int /\ Cost(f) \in Nat
          /\ cash \in Int /\ realised_pnl \in Int
      BY <1>3, <1>4, Numbers
    <3>6. cash' = cash + Cost(f)
          /\ Total(Profits(trade_history')) = Total(Profits(trade_history)) + realised_pnl
      BY <1>1, <1>7
    <3> HIDE DEF f
    <3> QED BY <3>3, <3>4, <3>5, <3>6
  <2>3. realised_pnl' = 0 /\ positions' = positions /\ opening' = opening
    BY <1>1
  <2> QED BY <1>14, <2>1, <2>2, <2>3 DEF ProfitIsReal
<1> QED BY <1>10, <1>11, <1>12, <1>13, <1>18, <1>19 DEF PortfolioInv

----------------------------------------------------------------------------
(* The invariant needs no more of a caller than that it asks before it     *)
(* books: the steps it may take.                                           *)
PortfolioChange ==
  \/ \E fs \in Seq(ExecutionFill) : UpdateAfterBuy(fs) \/ UpdateAfterSell(fs)
  \/ BookBuy
  \/ MatchLot
  \/ BookSell
  \/ \E bid, ask \in Positive : UpdatePortfolioValue(bid, ask)
  \/ \E c \in Nat : SetCash(c) \/ SetAmount(c)
  \/ \E balances \in [cash : Nat, assets : Nat] : Create(balances)
  \/ UNCHANGED portfolioVars

(* Every step any caller can make the portfolio take keeps its invariant.  *)
THEOREM PortfolioInvInductive == PortfolioInv /\ PortfolioChange => PortfolioInv'
<1> SUFFICES ASSUME PortfolioInv, PortfolioChange PROVE PortfolioInv'
  OBVIOUS
<1>1. CASE \E fs \in Seq(ExecutionFill) : UpdateAfterBuy(fs) \/ UpdateAfterSell(fs)
  BY <1>1, UpdateAfterBuyKeeps, UpdateAfterSellKeeps
<1>2. CASE BookBuy
  BY <1>2, BookBuyKeeps
<1>3. CASE MatchLot
  BY <1>3, MatchLotKeeps
<1>4. CASE BookSell
  BY <1>4, BookSellKeeps
<1>5. CASE \E bid, ask \in Positive : UpdatePortfolioValue(bid, ask)
  BY <1>5, UpdatePortfolioValueKeeps
<1>6. CASE \E balances \in [cash : Nat, assets : Nat] : Create(balances)
  BY <1>6, CreateKeeps
<1>7. CASE UNCHANGED portfolioVars
  <2>1. PortfolioTypeOK' /\ InLoop' /\ Solvent' /\ Covered'
    BY <1>7 DEF portfolioVars, PortfolioInv, PortfolioTypeOK, InLoop, Solvent, Covered
  <2>2. Matched' = Matched /\ InTransit' = InTransit
    BY <1>7 DEF portfolioVars, Matched, InTransit
  <2> QED BY <1>7, <2>1, <2>2, NothingBooked DEF portfolioVars, PortfolioInv
<1>8. CASE \E c \in Nat : SetCash(c) \/ SetAmount(c)
  BY <1>8, SetCashKeeps, SetAmountKeeps
<1> QED BY <1>1, <1>2, <1>3, <1>4, <1>5, <1>6, <1>7, <1>8 DEF PortfolioChange

----------------------------------------------------------------------------
(* First-in-first-out.  The profit of a sale is defined on the history     *)
(* alone; the queue of lots computes it, because it always holds, in their *)
(* order, the units that were bought and not sold.                         *)

\* What one side has traded in a history before its i-th trade.
Traded(h, side, i) ==
  Total([j \in 1..i-1 |-> IF h[j].action_type = side THEN h[j].lot.amount ELSE 0])

\* How many of the units from..to of those sold the j-th trade has bought.
Shared(h, from, to, j) ==
  LET first == Bigger(from, Traded(h, "Buy", j))
      last  == Smaller(to, Traded(h, "Buy", j) + h[j].lot.amount)
  IN  Bigger(0, last - first)

\* What these units earn at a price.
FifoGain(h, from, to, price) ==
  Total([j \in 1..Len(h) |-> IF h[j].action_type = "Buy"
                             THEN Shared(h, from, to, j) * (price - h[j].lot.entry_price) ELSE 0])

(* The trades of a history.                                                *)
LEMMA TradeFields ==
  ASSUME NEW h \in Seq(PositionInfo), NEW j \in 1..Len(h)
  PROVE  /\ h[j].lot \in Lot /\ h[j].lot.amount \in Nat /\ h[j].lot.entry_price \in Nat
         /\ h[j].action_type \in {"Buy", "Sell"} /\ h[j].realised_pnl \in Int
<1>1. h[j] \in PositionInfo
  OBVIOUS
<1>2. h[j].lot \in Lot
  BY <1>1 DEF PositionInfo
<1> QED BY <1>1, <1>2 DEF PositionInfo, Lot, Positive

(* What was traded before a trade is a sum of naturals, and each trade     *)
(* adds its amount to what its side traded.                                *)
LEMMA TradedStep ==
  ASSUME NEW h \in Seq(PositionInfo), NEW side
  PROVE  /\ Traded(h, side, 1) = 0
         /\ \A k \in 1..Len(h) + 1 : Traded(h, side, k) \in Nat
         /\ \A k \in 1..Len(h) :
              Traded(h, side, k + 1) = Traded(h, side, k)
                                       + (IF h[k].action_type = side THEN h[k].lot.amount ELSE 0)
<1> DEFINE u(j) == IF h[j].action_type = side THEN h[j].lot.amount ELSE 0
           us(k) == [j \in 1..k-1 |-> u(j)]
<1>0. Len(h) \in Nat
  OBVIOUS
<1>1. \A j \in 1..Len(h) : u(j) \in Nat
  BY TradeFields
<1>2. \A k : Traded(h, side, k) = Total(us(k))
  BY DEF Traded
<1> HIDE DEF u
<1>3. ASSUME NEW k \in 1..Len(h) + 1
      PROVE  us(k) \in Seq(Nat) /\ us(k) \in Seq(Int) /\ Len(us(k)) = k - 1
  <2>1. k - 1 \in Nat /\ \A j \in 1..k-1 : u(j) \in Nat
    BY <1>0, <1>1
  <2> QED BY <2>1
<1>4. us(1) = << >>
  OBVIOUS
<1>5. ASSUME NEW k \in 1..Len(h) PROVE Total(us(k + 1)) = Total(us(k)) + u(k)
  <2>1. us(k) \in Seq(Int) /\ Len(us(k)) = k - 1 /\ us(k+1) \in Seq(Int) /\ Len(us(k+1)) = k
    BY <1>0, <1>3
  <2>2. (\A j \in 1..k-1 : us(k+1)[j] = us(k)[j]) /\ us(k+1)[k] = u(k)
    BY <1>0
  <2> HIDE DEF us
  <2> QED BY <1>0, <2>1, <2>2, TotalGrows
<1> HIDE DEF us
<1>6. \A k \in 1..Len(h) + 1 : Total(us(k)) \in Nat
  BY <1>3, TotalNat
<1>7. Traded(h, side, 1) = 0
  BY <1>2, <1>4, TotalEmpty
<1>8. \A k \in 1..Len(h) : Traded(h, side, k + 1) = Traded(h, side, k) + u(k)
  BY <1>2, <1>5
<1> QED BY <1>2, <1>6, <1>7, <1>8 DEF u

(* A side never trades less.                                               *)
LEMMA TradedGrows ==
  ASSUME NEW h \in Seq(PositionInfo), NEW side, NEW k \in 1..Len(h) + 1, NEW l \in 1..k
  PROVE  Traded(h, side, l) <= Traded(h, side, k)
<1> DEFINE T(n) == Traded(h, side, n)
           S == {d \in Nat : l + d <= Len(h) + 1 => T(l) <= T(l + d)}
<1>1. Len(h) \in Nat /\ k \in Nat /\ l \in Nat /\ l >= 1 /\ l <= k /\ k <= Len(h) + 1
  OBVIOUS
<1>2. /\ \A n \in 1..Len(h) + 1 : T(n) \in Nat
      /\ \A n \in 1..Len(h) : T(n + 1) >= T(n)
  <2>1. \A n \in 1..Len(h) : h[n].lot.amount \in Nat
    BY TradeFields
  <2>2. \A n \in 1..Len(h) + 1 : T(n) \in Nat
    BY TradedStep
  <2>3. \A n \in 1..Len(h) : T(n + 1) = T(n) + (IF h[n].action_type = side THEN h[n].lot.amount ELSE 0)
    BY TradedStep
  <2> HIDE DEF T
  <2>4. ASSUME NEW n \in 1..Len(h) PROVE T(n + 1) >= T(n)
    <3>1. n \in 1..Len(h) + 1
      BY <1>1
    <3>2. T(n) \in Nat /\ h[n].lot.amount \in Nat
      BY <2>1, <2>2, <3>1
    <3> QED BY <2>3, <3>2
  <2> QED BY <2>2, <2>4
<1> HIDE DEF T
<1>3. 0 \in S
  BY <1>1, <1>2
<1>4. ASSUME NEW d \in S PROVE d + 1 \in S
  <2>1. d \in Nat
    OBVIOUS
  <2>2. CASE l + d + 1 <= Len(h) + 1
    <3>1. l + d \in 1..Len(h) /\ l + d \in 1..Len(h) + 1 /\ l \in 1..Len(h) + 1
          /\ l + (d + 1) = (l + d) + 1 /\ (l + d) + 1 \in 1..Len(h) + 1
      BY <1>1, <2>1, <2>2
    <3>2. T(l) <= T(l + d) /\ T(l + d) <= T((l + d) + 1)
      BY <1>2, <1>4, <3>1
    <3> QED BY <1>2, <2>1, <3>1, <3>2
  <2> QED BY <1>1, <2>1, <2>2
<1>5. S = Nat
  <2> HIDE DEF S
  <2> QED BY <1>3, <1>4, NatSetInduction, S \subseteq Nat DEF S
<1>6. k - l \in S /\ l + (k - l) = k
  <2> HIDE DEF S
  <2> QED BY <1>1, <1>5
<1> QED BY <1>1, <1>6 DEF T

(* A later trade does not change what was traded before.                   *)
LEMMA TradedKept ==
  ASSUME NEW h \in Seq(PositionInfo), NEW t \in PositionInfo, NEW side, NEW k \in 1..Len(h) + 1
  PROVE  Traded(Append(h, t), side, k) = Traded(h, side, k)
<1>1. \A j \in 1..k-1 : Append(h, t)[j] = h[j]
  OBVIOUS
<1> HIDE DEF PositionInfo
<1>2. [j \in 1..k-1 |-> IF Append(h, t)[j].action_type = side THEN Append(h, t)[j].lot.amount ELSE 0]
      = [j \in 1..k-1 |-> IF h[j].action_type = side THEN h[j].lot.amount ELSE 0]
  BY <1>1
<1> QED BY <1>2 DEF Traded

----------------------------------------------------------------------------
(* What the lots before one hold.                                          *)
LotsBefore(lots, q) == Total([r \in 1..q-1 |-> lots[r].amount])

LEMMA LotAmounts ==
  ASSUME NEW lots \in Seq(Lot)
  PROVE  \A q \in 1..Len(lots) : /\ lots[q].amount \in Nat
                                 /\ lots[q].entry_price \in Nat
<1>1. TAKE q \in 1..Len(lots)
<1>2. lots[q] \in Lot
  OBVIOUS
<1> QED BY <1>2 DEF Lot, Positive

LEMMA LotsBeforeNat ==
  ASSUME NEW lots \in Seq(Lot)
  PROVE  /\ LotsBefore(lots, 1) = 0
         /\ LotsBefore(lots, Len(lots) + 1) = TotalAmount(lots)
         /\ \A q \in 1..Len(lots) + 1 : LotsBefore(lots, q) \in Nat
<1>1. [r \in 1..1-1 |-> lots[r].amount] = << >>
  OBVIOUS
<1>2. LotsBefore(lots, 1) = 0
  BY <1>1, TotalEmpty DEF LotsBefore
<1>3. LotsBefore(lots, Len(lots) + 1) = TotalAmount(lots)
  <2>1. (Len(lots) + 1) - 1 = Len(lots)
    OBVIOUS
  <2> QED BY <2>1 DEF LotsBefore, TotalAmount, Amounts, Amount
<1>4. ASSUME NEW q \in 1..Len(lots) + 1 PROVE LotsBefore(lots, q) \in Nat
  <2>1. q - 1 \in Nat /\ \A r \in 1..q-1 : lots[r].amount \in Nat
    <3>1. \A r \in 1..q-1 : r \in 1..Len(lots)
      OBVIOUS
    <3> QED BY <3>1, LotAmounts
  <2>2. [r \in 1..q-1 |-> lots[r].amount] \in Seq(Nat)
    BY <2>1
  <2> QED BY <2>2, TotalNat DEF LotsBefore
<1> QED BY <1>2, <1>3, <1>4

----------------------------------------------------------------------------
(* The profit of units sold, matched with what the trades bought.          *)

Earned(h, from, to, price, j) ==
  IF h[j].action_type = "Buy" THEN Shared(h, from, to, j) * (price - h[j].lot.entry_price) ELSE 0

EarnedFrom(h, from, to, price) == [j \in 1..Len(h) |-> Earned(h, from, to, price, j)]

LEMMA GainIsTotal ==
  ASSUME NEW h, NEW from, NEW to, NEW price
  PROVE  FifoGain(h, from, to, price) = Total(EarnedFrom(h, from, to, price))
BY DEF FifoGain, EarnedFrom, Earned

LEMMA EarnedInt ==
  ASSUME NEW h \in Seq(PositionInfo), NEW from \in Int, NEW to \in Int, NEW price \in Int
  PROVE  /\ \A j \in 1..Len(h) : Shared(h, from, to, j) \in Nat /\ Earned(h, from, to, price, j) \in Int
         /\ EarnedFrom(h, from, to, price) \in Seq(Int)
         /\ Len(EarnedFrom(h, from, to, price)) = Len(h)
         /\ \A j \in 1..Len(h) : EarnedFrom(h, from, to, price)[j] = Earned(h, from, to, price, j)
         /\ FifoGain(h, from, to, price) \in Int
<1>1. ASSUME NEW j \in 1..Len(h)
      PROVE  Shared(h, from, to, j) \in Nat /\ Earned(h, from, to, price, j) \in Int
  <2>1. Traded(h, "Buy", j) \in Nat
    <3>1. j \in 1..Len(h) + 1
      OBVIOUS
    <3> QED BY <3>1, TradedStep
  <2>2. h[j].lot.amount \in Nat /\ h[j].lot.entry_price \in Nat
    BY TradeFields
  <2>3. Shared(h, from, to, j) \in Nat
    BY <2>1, <2>2 DEF Shared, Bigger, Smaller
  <2>4. Shared(h, from, to, j) * (price - h[j].lot.entry_price) \in Int
    BY <2>2, <2>3, Distributes
  <2> QED BY <2>3, <2>4 DEF Earned
<1>2. Len(h) \in Nat
  OBVIOUS
<1>3. /\ EarnedFrom(h, from, to, price) \in Seq(Int)
      /\ Len(EarnedFrom(h, from, to, price)) = Len(h)
      /\ \A j \in 1..Len(h) : EarnedFrom(h, from, to, price)[j] = Earned(h, from, to, price, j)
  BY <1>1, <1>2 DEF EarnedFrom
<1> QED BY <1>1, <1>3, GainIsTotal, TotalInt

(* No units earn nothing.                                                  *)
LEMMA GainOfNone ==
  ASSUME NEW h \in Seq(PositionInfo), NEW from \in Int, NEW price \in Int
  PROVE  FifoGain(h, from, from, price) = 0
<1>1. ASSUME NEW j \in 1..Len(h) PROVE Earned(h, from, from, price, j) = 0
  <2>1. Traded(h, "Buy", j) \in Nat
    <3>1. j \in 1..Len(h) + 1
      OBVIOUS
    <3> QED BY <3>1, TradedStep
  <2>2. h[j].lot.amount \in Nat /\ h[j].lot.entry_price \in Nat
    BY TradeFields
  <2>3. Shared(h, from, from, j) = 0
    BY <2>1, <2>2 DEF Shared, Bigger, Smaller
  <2> QED BY <2>2, <2>3 DEF Earned
<1> QED BY <1>1, EarnedInt, GainIsTotal, TotalZeros

\* The units of a lot, counted from where it begins, are units that the
\* j-th trade bought, at the price of the lot.
BoughtIn(h, lot, begin, j) ==
  /\ h[j].action_type = "Buy"
  /\ h[j].lot.entry_price = lot.entry_price
  /\ Traded(h, "Buy", j) <= begin
  /\ begin + lot.amount <= Traded(h, "Buy", j) + h[j].lot.amount

(* The next units sold, when one trade bought them, add their profit.      *)
LEMMA GainOfMore ==
  ASSUME NEW h \in Seq(PositionInfo), NEW from \in Int, NEW to \in Int, NEW price \in Int,
         from <= to, NEW lot \in Lot, NEW k \in 1..Len(h), BoughtIn(h, lot, to, k)
  PROVE  FifoGain(h, from, to + lot.amount, price)
           = FifoGain(h, from, to, price) + (price - lot.entry_price) * lot.amount
<1> DEFINE n == lot.amount
           T(j) == Traded(h, "Buy", j)
           A(j) == h[j].lot.amount
           s == EarnedFrom(h, from, to, price)
           t == EarnedFrom(h, from, to + n, price)
<1>1. n \in Nat /\ lot.entry_price \in Nat /\ to + n \in Int
  <2>1. n \in Nat /\ lot.entry_price \in Nat
    BY DEF Lot, Positive
  <2> QED BY <2>1
<1>2. \A j \in 1..Len(h) : T(j) \in Nat /\ A(j) \in Nat /\ h[j].lot.entry_price \in Nat
  <2>1. TAKE j \in 1..Len(h)
  <2>2. j \in 1..Len(h) + 1
    OBVIOUS
  <2> QED BY <2>2, TradeFields, TradedStep
<1>3. T(k) <= to /\ to + n <= T(k) + A(k) /\ h[k].lot.entry_price = lot.entry_price
      /\ h[k].action_type = "Buy"
  BY DEF BoughtIn
<1>4. ASSUME NEW j \in 1..Len(h), j # k, h[j].action_type = "Buy"
      PROVE  Shared(h, from, to + n, j) = Shared(h, from, to, j)
  <2>1. CASE j < k
    <3>1. T(j) + A(j) <= T(k)
      <4>1. T(j + 1) = T(j) + A(j)
        BY <1>4, TradedStep
      <4>2. k \in 1..Len(h) + 1 /\ j + 1 \in 1..k
        BY <2>1
      <4>3. T(j + 1) <= T(k)
        BY <4>2, TradedGrows
      <4> QED BY <4>1, <4>3
    <3> HIDE DEF T, A, n
    <3>2. Bigger(0, Smaller(to + n, T(j) + A(j)) - Bigger(from, T(j)))
          = Bigger(0, Smaller(to, T(j) + A(j)) - Bigger(from, T(j)))
      BY <1>1, <1>2, <1>3, <3>1 DEF Bigger, Smaller
    <3> QED BY <3>2 DEF Shared, T, A
  <2>2. CASE j > k
    <3>1. T(k) + A(k) <= T(j)
      <4>1. T(k + 1) = T(k) + A(k)
        BY <1>3, TradedStep
      <4>2. j \in 1..Len(h) + 1 /\ k + 1 \in 1..j
        BY <2>2
      <4>3. T(k + 1) <= T(j)
        BY <4>2, TradedGrows
      <4> QED BY <4>1, <4>3
    <3> HIDE DEF T, A, n
    <3>2. Bigger(0, Smaller(to + n, T(j) + A(j)) - Bigger(from, T(j)))
          = Bigger(0, Smaller(to, T(j) + A(j)) - Bigger(from, T(j)))
      BY <1>1, <1>2, <1>3, <3>1 DEF Bigger, Smaller
    <3> QED BY <3>2 DEF Shared, T, A
  <2> QED BY <1>4, <2>1, <2>2
<1>5. Shared(h, from, to + n, k) = Shared(h, from, to, k) + n
  <2>1. Shared(h, from, to + n, k) = Bigger(0, Smaller(to + n, T(k) + A(k)) - Bigger(from, T(k)))
        /\ Shared(h, from, to, k) = Bigger(0, Smaller(to, T(k) + A(k)) - Bigger(from, T(k)))
    BY DEF Shared
  <2>2. T(k) \in Nat /\ A(k) \in Nat
    BY <1>2
  <2> HIDE DEF T, A, n
  <2> QED BY <1>1, <1>3, <2>1, <2>2 DEF Bigger, Smaller
<1>6. /\ s \in Seq(Int) /\ t \in Seq(Int) /\ Len(s) = Len(h) /\ Len(t) = Len(h)
      /\ \A j \in 1..Len(h) : s[j] = Earned(h, from, to, price, j) /\ t[j] = Earned(h, from, to + n, price, j)
      /\ Shared(h, from, to, k) \in Nat
  <2>1. /\ s \in Seq(Int) /\ Len(s) = Len(h) /\ Shared(h, from, to, k) \in Nat
        /\ \A j \in 1..Len(h) : s[j] = Earned(h, from, to, price, j)
    BY EarnedInt
  <2>2. /\ t \in Seq(Int) /\ Len(t) = Len(h)
        /\ \A j \in 1..Len(h) : t[j] = Earned(h, from, to + n, price, j)
    <3> HIDE DEF n
    <3> QED BY <1>1, EarnedInt
  <2> HIDE DEF s, t, n
  <2> QED BY <2>1, <2>2
<1>7. \A j \in 1..Len(t) : j # k => t[j] = s[j]
  BY <1>4, <1>6 DEF Earned
<1>8. t[k] - s[k] = (price - lot.entry_price) * n
  <2> DEFINE m == Shared(h, from, to, k)
             d == price - lot.entry_price
  <2>1. m \in Int /\ d \in Int /\ n \in Int
    BY <1>1, <1>6
  <2>2. s[k] = m * d /\ t[k] = (m + n) * d
    BY <1>3, <1>5, <1>6 DEF Earned
  <2> HIDE DEF m, d, n, s, t
  <2>3. (m + n) * d = m * d + n * d /\ n * d = d * n /\ m * d \in Int /\ n * d \in Int
    BY <2>1, Distributes
  <2>4. t[k] - s[k] = d * n
    BY <2>2, <2>3
  <2> QED BY <2>4 DEF d
<1> HIDE DEF s, t
<1>9. Total(t) = Total(s) + (t[k] - s[k])
  BY <1>6, <1>7, TotalOneChanges
<1> QED BY <1>8, <1>9, GainIsTotal DEF s, t, n

(* A later trade does not change the profit of units bought before it.     *)
LEMMA GainKept ==
  ASSUME NEW h \in Seq(PositionInfo), NEW t \in PositionInfo,
         NEW from \in Int, NEW to \in Int, NEW price \in Int,
         to <= Traded(h, "Buy", Len(h) + 1)
  PROVE  FifoGain(Append(h, t), from, to, price) = FifoGain(h, from, to, price)
<1> DEFINE g == Append(h, t)
           n == Len(h)
<1>1. /\ g \in Seq(PositionInfo) /\ Len(g) = n + 1 /\ g[n + 1] = t /\ n \in Nat
      /\ \A j \in 1..n : g[j] = h[j] /\ j \in 1..n + 1
      /\ \A k \in 1..n + 1 : Traded(g, "Buy", k) = Traded(h, "Buy", k)
  <2>1. \A k \in 1..n + 1 : Traded(g, "Buy", k) = Traded(h, "Buy", k)
    BY TradedKept
  <2> QED BY <2>1
<1> HIDE DEF g
<1>2. \A j \in 1..n : Earned(g, from, to, price, j) = Earned(h, from, to, price, j)
  BY <1>1 DEF Earned, Shared
<1>3. Earned(g, from, to, price, n + 1) = 0
  <2>1. /\ Traded(g, "Buy", n + 1) = Traded(h, "Buy", n + 1) /\ Traded(h, "Buy", n + 1) \in Nat
        /\ g[n+1].lot.amount \in Nat /\ g[n+1].lot.entry_price \in Nat
    BY <1>1, TradeFields, TradedStep
  <2>2. Shared(g, from, to, n + 1) = 0
    BY <2>1 DEF Shared, Bigger, Smaller, n
  <2>3. 0 * (price - g[n+1].lot.entry_price) = 0
    BY <2>1
  <2> QED BY <2>2, <2>3 DEF Earned
<1> DEFINE s == EarnedFrom(h, from, to, price)
           r == EarnedFrom(g, from, to, price)
<1>4. /\ s \in Seq(Int) /\ r \in Seq(Int) /\ Len(s) = n /\ Len(r) = n + 1
      /\ \A j \in 1..n : s[j] = Earned(h, from, to, price, j) /\ r[j] = Earned(g, from, to, price, j)
      /\ r[n + 1] = Earned(g, from, to, price, n + 1)
  <2>1. /\ s \in Seq(Int) /\ Len(s) = n
        /\ \A j \in 1..n : s[j] = Earned(h, from, to, price, j)
    BY EarnedInt
  <2>2. /\ r \in Seq(Int) /\ Len(r) = n + 1
        /\ \A j \in 1..n + 1 : r[j] = Earned(g, from, to, price, j)
    BY <1>1, EarnedInt
  <2> HIDE DEF s, r
  <2> QED BY <1>1, <2>1, <2>2
<1> HIDE DEF s, r, n
<1>5. Total(r) = Total(s) + r[Len(r)]
  BY <1>1, <1>2, <1>4, TotalGrows, SMTT(20)
<1>6. Total(s) \in Int
  BY <1>4, TotalInt
<1>7. Total(r) = Total(s)
  BY <1>3, <1>4, <1>5, <1>6
<1> QED BY <1>7, GainIsTotal DEF g, s, r

----------------------------------------------------------------------------
BoughtOf(h) == Traded(h, "Buy", Len(h) + 1)
SoldOf(h)   == Traded(h, "Sell", Len(h) + 1)

FromTrade(h, lot, begin) == \E j \in 1..Len(h) : BoughtIn(h, lot, begin, j)

\* The queue of lots, of which m units beyond the sales recorded are gone:
\* it holds all that was bought and not sold, in the order of the purchases.
InOrder(h, lots, m) ==
  /\ SoldOf(h) + m + TotalAmount(lots) = BoughtOf(h)
  /\ \A q \in 1..Len(lots) : FromTrade(h, lots[q], SoldOf(h) + m + LotsBefore(lots, q))

SalesAreFifo(h) ==
  \A k \in 1..Len(h) :
    h[k].action_type = "Sell" =>
      h[k].realised_pnl = FifoGain(h, Traded(h, "Sell", k), Traded(h, "Sell", k) + h[k].lot.amount,
                               h[k].lot.entry_price)

LEMMA TradedNat ==
  ASSUME NEW h \in Seq(PositionInfo)
  PROVE  /\ BoughtOf(h) \in Nat /\ SoldOf(h) \in Nat /\ Len(h) \in Nat
         /\ \A side : \A k \in 1..Len(h) + 1 : Traded(h, side, k) \in Nat
         /\ \A side : \A k \in 1..Len(h) + 1 : Traded(h, side, k) <= Traded(h, side, Len(h) + 1)
<1>1. Len(h) \in Nat /\ Len(h) + 1 \in 1..Len(h) + 1
  OBVIOUS
<1>2. \A side : \A k \in 1..Len(h) + 1 : Traded(h, side, k) \in Nat
  BY TradedStep
<1>3. \A side : \A k \in 1..Len(h) + 1 : Traded(h, side, k) <= Traded(h, side, Len(h) + 1)
  <2>1. TAKE side
  <2>2. TAKE k \in 1..Len(h) + 1
  <2>3. k \in 1..(Len(h) + 1) /\ Len(h) + 1 \in 1..(Len(h) + 1)
    BY <1>1
  <2> QED BY <2>3, TradedGrows
<1>4. BoughtOf(h) \in Nat /\ SoldOf(h) \in Nat
  BY <1>1, <1>2 DEF BoughtOf, SoldOf
<1> QED BY <1>1, <1>2, <1>3, <1>4

LEMMA TotalsGrow ==
  ASSUME NEW h \in Seq(PositionInfo), NEW t \in PositionInfo
  PROVE  /\ BoughtOf(Append(h, t)) = BoughtOf(h) + (IF t.action_type = "Buy" THEN t.lot.amount ELSE 0)
         /\ SoldOf(Append(h, t)) = SoldOf(h) + (IF t.action_type = "Sell" THEN t.lot.amount ELSE 0)
<1> DEFINE g == Append(h, t)
           n == Len(h)
<1>1. g \in Seq(PositionInfo) /\ Len(g) = n + 1 /\ g[n+1] = t /\ n \in Nat /\ n + 1 \in 1..n + 1
  OBVIOUS
<1>2. \A side : Traded(g, side, n + 1) = Traded(h, side, n + 1)
  BY <1>1, TradedKept
<1> HIDE DEF g
<1>3. \A side : Traded(g, side, (n + 1) + 1)
                  = Traded(g, side, n + 1) + (IF g[n+1].action_type = side THEN g[n+1].lot.amount ELSE 0)
  <2>1. TAKE side
  <2>2. n + 1 \in 1..Len(g)
    BY <1>1
  <2> HIDE DEF n
  <2> QED BY <1>1, <2>2, TradedStep
<1> QED BY <1>1, <1>2, <1>3 DEF BoughtOf, SoldOf, g

LEMMA FromTradeKept ==
  ASSUME NEW h \in Seq(PositionInfo), NEW t \in PositionInfo, NEW lot, NEW begin,
         FromTrade(h, lot, begin)
  PROVE  FromTrade(Append(h, t), lot, begin)
<1>1. PICK j \in 1..Len(h) : BoughtIn(h, lot, begin, j)
  BY DEF FromTrade
<1>2. Append(h, t)[j] = h[j] /\ j \in 1..Len(h) + 1 /\ Len(Append(h, t)) = Len(h) + 1
  OBVIOUS
<1>3. Traded(Append(h, t), "Buy", j) = Traded(h, "Buy", j)
  BY <1>2, TradedKept
<1>4. BoughtIn(Append(h, t), lot, begin, j)
  BY <1>1, <1>2, <1>3 DEF BoughtIn
<1> QED BY <1>2, <1>4 DEF FromTrade

(* A purchase and its lot go to the ends of the history and the queue.     *)
LEMMA PurchaseInOrder ==
  ASSUME NEW h \in Seq(PositionInfo), NEW lots \in Seq(Lot), NEW t \in PositionInfo,
         t.action_type = "Buy", InOrder(h, lots, 0)
  PROVE  InOrder(Append(h, t), Append(lots, t.lot), 0)
<1> DEFINE g == Append(h, t)
           more == Append(lots, t.lot)
           n == Len(lots)
<1>1. t.lot \in Lot /\ t.lot.amount \in Nat
  BY DEF PositionInfo, Lot
<1>2. /\ TotalAmount(more) = TotalAmount(lots) + t.lot.amount
      /\ TotalAmount(lots) \in Nat
  BY <1>1, LotAppended, LotTotals
<1>3. SoldOf(g) = SoldOf(h) /\ BoughtOf(g) = BoughtOf(h) + t.lot.amount
      /\ SoldOf(h) \in Nat /\ BoughtOf(h) \in Nat
  BY TradedNat, TotalsGrow
<1>4. SoldOf(h) + 0 + TotalAmount(lots) = BoughtOf(h)
      /\ \A q \in 1..n : FromTrade(h, lots[q], SoldOf(h) + 0 + LotsBefore(lots, q))
  BY DEF InOrder
<1>5. /\ n \in Nat /\ Len(more) = n + 1 /\ more[n + 1] = t.lot
      /\ \A q \in 1..n : more[q] = lots[q]
  BY <1>1
<1> HIDE DEF more
<1>6. \A q \in 1..n + 1 : LotsBefore(more, q) = LotsBefore(lots, q)
  <2>1. TAKE q \in 1..n + 1
  <2>2. [r \in 1..q-1 |-> more[r].amount] = [r \in 1..q-1 |-> lots[r].amount]
    BY <1>5
  <2> QED BY <2>2 DEF LotsBefore
<1>7. SoldOf(g) + 0 + TotalAmount(more) = BoughtOf(g)
  BY <1>1, <1>2, <1>3, <1>4
<1>8. ASSUME NEW q \in 1..Len(more)
      PROVE  FromTrade(g, more[q], SoldOf(g) + 0 + LotsBefore(more, q))
  <2>1. CASE q \in 1..n
    <3>1. more[q] = lots[q] /\ LotsBefore(more, q) = LotsBefore(lots, q)
      BY <1>5, <1>6, <2>1
    <3> QED BY <1>3, <1>4, <2>1, <3>1, FromTradeKept
  <2>2. CASE q = n + 1
    <3>1. LotsBefore(more, q) = TotalAmount(lots)
      BY <1>5, <1>6, <2>2, LotsBeforeNat
    <3>2. SoldOf(g) + 0 + LotsBefore(more, q) = BoughtOf(h)
      BY <1>3, <1>4, <3>1
    <3>3. /\ Len(g) = Len(h) + 1 /\ Len(h) + 1 \in 1..Len(g) /\ g[Len(h) + 1] = t
          /\ Traded(g, "Buy", Len(h) + 1) = BoughtOf(h)
      BY TradedKept DEF BoughtOf
    <3>4. BoughtIn(g, t.lot, BoughtOf(h), Len(h) + 1)
      BY <1>1, <1>3, <3>3 DEF BoughtIn
    <3> HIDE DEF g
    <3> QED BY <1>5, <2>2, <3>2, <3>3, <3>4 DEF FromTrade
  <2> QED BY <1>5, <2>1, <2>2
<1> QED BY <1>7, <1>8 DEF InOrder, more

(* A recorded sale has left the lots before.                               *)
LEMMA SaleInOrder ==
  ASSUME NEW h \in Seq(PositionInfo), NEW lots \in Seq(Lot), NEW t \in PositionInfo,
         t.action_type = "Sell", InOrder(h, lots, t.lot.amount)
  PROVE  InOrder(Append(h, t), lots, 0)
<1> DEFINE g == Append(h, t)
<1>1. t.lot.amount \in Nat
  BY DEF PositionInfo, Lot
<1>2. SoldOf(g) = SoldOf(h) + t.lot.amount /\ BoughtOf(g) = BoughtOf(h) + 0
      /\ SoldOf(h) \in Nat /\ BoughtOf(h) \in Nat
  BY TradedNat, TotalsGrow
<1>3. TotalAmount(lots) \in Nat /\ \A q \in 1..Len(lots) : LotsBefore(lots, q) \in Nat
  <2>1. \A q \in 1..Len(lots) : q \in 1..Len(lots) + 1
    OBVIOUS
  <2> QED BY <2>1, LotTotals, LotsBeforeNat
<1>4. SoldOf(g) + 0 + TotalAmount(lots) = BoughtOf(g)
  BY <1>1, <1>2, <1>3 DEF InOrder
<1>5. ASSUME NEW q \in 1..Len(lots) PROVE FromTrade(g, lots[q], SoldOf(g) + 0 + LotsBefore(lots, q))
  <2>1. SoldOf(g) + 0 + LotsBefore(lots, q) = SoldOf(h) + t.lot.amount + LotsBefore(lots, q)
    BY <1>1, <1>2, <1>3
  <2>2. FromTrade(h, lots[q], SoldOf(h) + t.lot.amount + LotsBefore(lots, q))
    BY DEF InOrder
  <2> QED BY <2>1, <2>2, FromTradeKept
<1> QED BY <1>4, <1>5 DEF InOrder

(* Units taken from the first lot are the ones bought first.               *)
LEMMA MatchInOrder ==
  ASSUME NEW h \in Seq(PositionInfo), NEW lots \in Seq(Lot), lots # << >>, NEW m \in Nat,
         NEW sold \in Nat, sold <= Head(lots).amount, Eps = 0, InOrder(h, lots, m)
  PROVE  /\ InOrder(h, Reduced(lots, sold), m + sold)
         /\ FromTrade(h, [entry_price |-> Head(lots).entry_price, amount |-> sold], SoldOf(h) + m)
<1> DEFINE first == Head(lots)
           left == Reduced(lots, sold)
           rest == first.amount - sold
           begin(q) == SoldOf(h) + m + LotsBefore(lots, q)
<1>1. /\ first = lots[1] /\ Len(lots) \in Nat \ {0} /\ first \in Lot /\ first.amount \in Nat
      /\ first.entry_price \in Positive
  <2>1. first = lots[1] /\ Len(lots) \in Nat \ {0} /\ first \in Lot
    OBVIOUS
  <2> QED BY <2>1 DEF Lot
<1>2. /\ SoldOf(h) \in Nat /\ BoughtOf(h) \in Nat /\ TotalAmount(lots) \in Nat
      /\ LotsBefore(lots, 1) = 0
  BY TradedNat, LotTotals, LotsBeforeNat
<1>3. /\ SoldOf(h) + m + TotalAmount(lots) = BoughtOf(h)
      /\ \A q \in 1..Len(lots) : FromTrade(h, lots[q], begin(q))
  BY DEF InOrder
<1>4. PICK j \in 1..Len(h) : BoughtIn(h, first, SoldOf(h) + m, j)
  <2>1. begin(1) = SoldOf(h) + m
    BY <1>2
  <2>2. FromTrade(h, first, SoldOf(h) + m)
    BY <1>1, <1>3, <2>1
  <2> QED BY <2>2 DEF FromTrade
<1>5. /\ h[j].action_type = "Buy" /\ h[j].lot.entry_price = first.entry_price
      /\ Traded(h, "Buy", j) <= SoldOf(h) + m
      /\ SoldOf(h) + m + first.amount <= Traded(h, "Buy", j) + h[j].lot.amount
      /\ Traded(h, "Buy", j) \in Nat /\ h[j].lot.amount \in Nat
  <2>1. j \in 1..Len(h) + 1
    OBVIOUS
  <2> QED BY <1>4, <2>1, TradeFields, TradedStep DEF BoughtIn
<1> HIDE DEF first, left, begin
<1>11. sold <= first.amount
  BY DEF first
<1>6. FromTrade(h, [entry_price |-> first.entry_price, amount |-> sold], SoldOf(h) + m)
  <2>2. SoldOf(h) + m + sold <= Traded(h, "Buy", j) + h[j].lot.amount
    BY <1>1, <1>2, <1>5, <1>11, SMTT(20)
  <2>1. BoughtIn(h, [entry_price |-> first.entry_price, amount |-> sold], SoldOf(h) + m, j)
    BY <1>5, <2>2 DEF BoughtIn
  <2> QED BY <2>1 DEF FromTrade
<1>7. rest \in Nat
  BY <1>1 DEF first
<1>8. CASE rest = 0
  <2>1. left = Tail(lots) /\ sold = first.amount
    BY <1>1, <1>7, <1>8 DEF Reduced, left, first
  <2>2. /\ left \in Seq(Lot) /\ Len(lots) = Len(left) + 1
        /\ \A q \in 1..Len(left) : left[q] = lots[q+1] /\ q + 1 \in 1..Len(lots)
    BY <1>1, <2>1
  <2>3. TotalAmount(left) = TotalAmount(lots) - first.amount
    <3>1. rest <= Eps
      BY <1>8
    <3> QED BY <1>1, <3>1, LotReduced DEF left, first
  <2>4. ASSUME NEW q \in 1..Len(left)
        PROVE  SoldOf(h) + (m + sold) + LotsBefore(left, q) = begin(q + 1)
    <3> DEFINE s == [r \in 1..q |-> lots[r].amount]
               t == [r \in 1..q-1 |-> left[r].amount]
    <3>1. q \in Nat /\ q >= 1 /\ q <= Len(left) /\ Len(left) \in Nat
      BY <2>2
    <3>2. s \in Seq(Int) /\ Len(s) = q /\ s[1] = first.amount
      <4>1. \A r \in 1..q : lots[r].amount \in Int
        <5>1. \A r \in 1..q : r \in 1..Len(lots)
          BY <1>1, <2>2, <3>1
        <5> QED BY <5>1, LotAmounts
      <4> QED BY <1>1, <3>1, <4>1
    <3>3. t \in Seq(Int) /\ Len(t) = q - 1 /\ \A r \in 1..q-1 : t[r] = s[r+1]
      <4>1. \A r \in 1..q-1 : left[r].amount \in Int /\ left[r] = lots[r+1]
        BY <2>2, <3>1, LotAmounts
      <4> QED BY <3>1, <4>1
    <3>4. Total(t) = Total(s) - s[1]
      <4>1. Len(s) = Len(t) + 1 /\ \A r \in 1..Len(t) : t[r] = s[r+1]
        <5> HIDE DEF s, t
        <5> QED BY <3>1, <3>2, <3>3
      <4> HIDE DEF s, t
      <4> QED BY <3>2, <3>3, <4>1, TotalShrinks
    <3>5. LotsBefore(left, q) = Total(t) /\ LotsBefore(lots, q + 1) = Total(s)
      <4>1. (q + 1) - 1 = q
        BY <3>1
      <4> QED BY <4>1 DEF LotsBefore
    <3>6. Total(s) \in Int
      BY <3>2, TotalInt
    <3> HIDE DEF s, t, rest
    <3>7. LotsBefore(left, q) = LotsBefore(lots, q + 1) - sold /\ LotsBefore(lots, q + 1) \in Int
      BY <2>1, <3>2, <3>4, <3>5, <3>6
    <3>8. SoldOf(h) \in Int /\ m \in Int /\ sold \in Int
      BY <1>2
    <3> QED BY <3>7, <3>8 DEF begin
  <2>5. SoldOf(h) + (m + sold) + TotalAmount(left) = BoughtOf(h)
    BY <1>1, <1>2, <1>3, <2>1, <2>3
  <2>6. \A q \in 1..Len(left) : FromTrade(h, left[q], SoldOf(h) + (m + sold) + LotsBefore(left, q))
    BY <1>3, <2>2, <2>4
  <2> QED BY <1>6, <2>5, <2>6 DEF InOrder, left, first
<1>9. CASE rest > 0
  <2> DEFINE part == [entry_price |-> first.entry_price, amount |-> rest]
  <2>1. left = [lots EXCEPT ![1] = part]
    BY <1>1, <1>7, <1>9 DEF Reduced, left, first
  <2>2. part \in Lot /\ part.amount = rest /\ part.entry_price = first.entry_price
    BY <1>1, <1>7 DEF Lot
  <2> HIDE DEF part
  <2>3. /\ left \in Seq(Lot) /\ Len(left) = Len(lots) /\ left[1] = part
        /\ \A q \in 2..Len(left) : left[q] = lots[q]
    BY <1>1, <2>1, <2>2
  <2>4. TotalAmount(left) = TotalAmount(lots) - sold
    <3>1. rest > Eps
      BY <1>9
    <3> QED BY <1>1, <3>1, LotReduced DEF left, first
  <2>5. ASSUME NEW q \in 2..Len(left)
        PROVE  SoldOf(h) + (m + sold) + LotsBefore(left, q) = begin(q)
    <3> DEFINE s == [r \in 1..q-1 |-> lots[r].amount]
               t == [r \in 1..q-1 |-> left[r].amount]
    <3>1. q \in Nat /\ q >= 2 /\ q <= Len(lots) /\ q \in 1..Len(lots) + 1
      BY <1>1, <2>3
    <3>2. s \in Seq(Int) /\ Len(s) = q - 1 /\ s[1] = first.amount
      <4>1. \A r \in 1..q-1 : lots[r].amount \in Int
        BY <3>1, LotAmounts
      <4> QED BY <1>1, <3>1, <4>1
    <3>3. t \in Seq(Int) /\ Len(t) = q - 1 /\ t[1] = rest /\ \A r \in 2..Len(t) : t[r] = s[r]
      <4>1. \A r \in 1..q-1 : left[r].amount \in Int
        BY <2>3, <3>1, LotAmounts
      <4> QED BY <2>2, <2>3, <3>1, <4>1
    <3>4. Total(t) = Total(s) - s[1] + t[1]
      <4>1. s # << >>
        BY <3>1, <3>2
      <4> HIDE DEF s, t
      <4> QED BY <3>2, <3>3, <4>1, TotalHeadChanges
    <3>5. LotsBefore(left, q) = Total(t) /\ LotsBefore(lots, q) = Total(s)
      BY DEF LotsBefore
    <3>6. Total(s) \in Int
      BY <3>2, TotalInt
    <3>7. rest = first.amount - sold
      BY DEF first
    <3> HIDE DEF s, t, rest
    <3>8. LotsBefore(left, q) = LotsBefore(lots, q) - sold /\ LotsBefore(lots, q) \in Int
      <4>1. s[1] \in Int /\ s[1] = first.amount /\ t[1] = rest /\ first.amount \in Int /\ sold \in Int
        BY <1>1, <1>2, <3>2, <3>3
      <4>2. Total(t) = Total(s) - sold
        BY <3>4, <3>6, <3>7, <4>1
      <4> QED BY <3>5, <3>6, <4>2
    <3>9. SoldOf(h) \in Int /\ m \in Int /\ sold \in Int
      BY <1>2
    <3> QED BY <3>8, <3>9 DEF begin
  <2>6. SoldOf(h) + (m + sold) + TotalAmount(left) = BoughtOf(h)
    BY <1>2, <1>3, <2>4
  <2>7. ASSUME NEW q \in 1..Len(left)
        PROVE  FromTrade(h, left[q], SoldOf(h) + (m + sold) + LotsBefore(left, q))
    <3>1. CASE q = 1
      <4>1. LotsBefore(left, 1) = 0
        BY <2>3, LotsBeforeNat
      <4>2. BoughtIn(h, part, SoldOf(h) + (m + sold) + LotsBefore(left, 1), j)
        <5>1. rest = first.amount - sold
          BY DEF first
        <5> HIDE DEF rest
        <5>2. SoldOf(h) + (m + sold) + 0 = SoldOf(h) + m + sold
              /\ SoldOf(h) + m + sold + rest = SoldOf(h) + m + first.amount
              /\ Traded(h, "Buy", j) <= SoldOf(h) + m + sold
          <6>1. SoldOf(h) \in Nat /\ m \in Nat /\ sold \in Nat /\ first.amount \in Nat
            BY <1>1, <1>2
          <6>2. Traded(h, "Buy", j) <= SoldOf(h) + m /\ Traded(h, "Buy", j) \in Nat
            BY <1>5
          <6> DEFINE all == SoldOf(h)
                     was == first.amount
                     bought == Traded(h, "Buy", j)
          <6>3. /\ all \in Nat /\ m \in Nat /\ sold \in Nat /\ was \in Nat /\ bought \in Nat
                /\ bought <= all + m /\ rest = was - sold
            BY <5>1, <6>1, <6>2
          <6> HIDE DEF all, was, bought
          <6>4. /\ all + (m + sold) + 0 = all + m + sold /\ all + m + sold + rest = all + m + was
                /\ bought <= all + m + sold
            BY <6>3
          <6> QED BY <6>4 DEF all, was, bought
        <5>3. SoldOf(h) + (m + sold) + LotsBefore(left, 1) = SoldOf(h) + m + sold
          BY <4>1, <5>2
        <5> QED BY <1>5, <2>2, <5>2, <5>3 DEF BoughtIn
      <4> QED BY <2>3, <3>1, <4>2 DEF FromTrade
    <3>2. CASE q \in 2..Len(left)
      <4>1. q \in 1..Len(lots) /\ left[q] = lots[q]
        BY <2>3, <3>2
      <4> QED BY <1>3, <2>5, <3>2, <4>1
    <3> QED BY <2>3, <3>1, <3>2
  <2> QED BY <1>6, <2>6, <2>7 DEF InOrder, left, first
<1> QED BY <1>7, <1>8, <1>9

(* A trade after them leaves the profits of the sales first-in-first-out;  *)
(* its own must be.                                                        *)
LEMMA SalesStayFifo ==
  ASSUME NEW h \in Seq(PositionInfo), NEW t \in PositionInfo, SalesAreFifo(h),
         SoldOf(h) <= BoughtOf(h),
         t.action_type = "Sell" =>
           /\ SoldOf(h) + t.lot.amount <= BoughtOf(h)
           /\ t.realised_pnl = FifoGain(h, SoldOf(h), SoldOf(h) + t.lot.amount, t.lot.entry_price)
  PROVE  SalesAreFifo(Append(h, t))
<1> DEFINE g == Append(h, t)
           n == Len(h)
<1>1. /\ g \in Seq(PositionInfo) /\ Len(g) = n + 1 /\ g[n + 1] = t /\ n \in Nat
      /\ \A k \in 1..n : g[k] = h[k]
      /\ \A k \in 1..n + 1 : Traded(g, "Sell", k) = Traded(h, "Sell", k)
  <2>1. \A k \in 1..n + 1 : Traded(g, "Sell", k) = Traded(h, "Sell", k)
    BY TradedKept
  <2> QED BY <2>1
<1>2. BoughtOf(h) \in Nat /\ SoldOf(h) \in Nat
  BY TradedNat
<1>3. \A from, to, price \in Int :
        to <= BoughtOf(h) => FifoGain(g, from, to, price) = FifoGain(h, from, to, price)
  BY GainKept DEF BoughtOf
<1>4. t.lot.amount \in Nat /\ t.lot.entry_price \in Nat
  BY DEF PositionInfo, Lot, Positive
<1> HIDE DEF g
<1>5. ASSUME NEW k \in 1..Len(g), g[k].action_type = "Sell"
      PROVE  g[k].realised_pnl = FifoGain(g, Traded(g, "Sell", k), Traded(g, "Sell", k) + g[k].lot.amount,
                                      g[k].lot.entry_price)
  <2>1. CASE k \in 1..n
    <3> DEFINE from == Traded(h, "Sell", k)
               to == from + h[k].lot.amount
               price == h[k].lot.entry_price
    <3>1. g[k] = h[k] /\ Traded(g, "Sell", k) = from
      BY <1>1, <2>1
    <3>2. h[k].realised_pnl = FifoGain(h, from, to, price)
      BY <1>5, <2>1, <3>1 DEF SalesAreFifo
    <3>3. from \in Int /\ to \in Int /\ price \in Int /\ to <= BoughtOf(h)
      <4>1. k + 1 \in 1..n + 1 /\ k \in 1..n + 1
        BY <1>1, <2>1
      <4>2. Traded(h, "Sell", k + 1) = to
        <5>1. Traded(h, "Sell", k + 1)
                = from + (IF h[k].action_type = "Sell" THEN h[k].lot.amount ELSE 0)
          BY <2>1, TradedStep
        <5> HIDE DEF from
        <5> QED BY <1>5, <3>1, <5>1
      <4>3. Traded(h, "Sell", k + 1) <= SoldOf(h) /\ Traded(h, "Sell", k + 1) \in Nat /\ from \in Nat
        BY <4>1, TradedNat DEF SoldOf
      <4>4. price \in Nat
        BY <2>1, TradeFields
      <4> HIDE DEF from, to, price
      <4> QED BY <1>2, <4>2, <4>3, <4>4
    <3> QED BY <1>3, <3>1, <3>2, <3>3
  <2>2. CASE k = n + 1
    <3>1. g[k] = t /\ Traded(g, "Sell", k) = SoldOf(h)
      BY <1>1, <2>2 DEF SoldOf
    <3>2. SoldOf(h) + t.lot.amount \in Int /\ SoldOf(h) \in Int /\ t.lot.entry_price \in Int
      BY <1>2, <1>4
    <3> QED BY <1>3, <1>5, <3>1, <3>2
  <2> QED BY <1>1, <2>1, <2>2
<1> QED BY <1>5 DEF SalesAreFifo, g

----------------------------------------------------------------------------
(* The invariant: the queue is in order, the sales of the history carry    *)
(* their profits, and so does the sale in progress, as far as it is matched.*)
FifoInv ==
  /\ PortfolioInv
  /\ ExactBooks =>
       /\ InOrder(trade_history, positions, Matched)
       /\ SalesAreFifo(trade_history)
       /\ ledger = "matching" =>
            realised_pnl = FifoGain(trade_history, SoldOf(trade_history),
                                SoldOf(trade_history) + Matched, Head(due).price)

LEMMA FifoInvShows == FifoInv => ProfitIsFifo
<1> SUFFICES ASSUME FifoInv, ExactBooks, NEW k \in 1..Len(trade_history),
                    trade_history[k].action_type = "Sell"
             PROVE  trade_history[k].realised_pnl = FifoProfit(k)
  BY DEF ProfitIsFifo
<1>1. \A side, j : Before(side, j) = Traded(trade_history, side, j)
  BY DEF Before, Traded
<1> DEFINE from == Traded(trade_history, "Sell", k)
           to == Traded(trade_history, "Sell", k) + trade_history[k].lot.amount
<1>2. \A j : Overlap(k, j) = Shared(trade_history, from, to, j)
  BY <1>1 DEF Overlap, Shared
<1>3. FifoProfit(k) = FifoGain(trade_history, from, to, trade_history[k].lot.entry_price)
  BY <1>2 DEF FifoProfit, FifoGain
<1> QED BY <1>3 DEF FifoInv, SalesAreFifo

LEMMA HistoryTypes ==
  ASSUME PortfolioInv
  PROVE  /\ trade_history \in Seq(PositionInfo) /\ positions \in Seq(Lot)
         /\ SoldOf(trade_history) \in Nat /\ BoughtOf(trade_history) \in Nat
         /\ TotalAmount(positions) \in Nat /\ Matched \in Nat
<1>1. trade_history \in Seq(PositionInfo) /\ positions \in Seq(Lot)
  BY DEF PortfolioInv, PortfolioTypeOK
<1> QED BY <1>1, TradedNat, Numbers

LEMMA EmptyInOrder == InOrder(<< >>, << >>, 0) /\ SalesAreFifo(<< >>)
<1>1. << >> \in Seq(PositionInfo) /\ Len(<< >>) = 0 /\ 0 + 1 = 1
  OBVIOUS
<1>2. Traded(<< >>, "Buy", 1) = 0 /\ Traded(<< >>, "Sell", 1) = 0
  BY <1>1, TradedStep
<1>3. BoughtOf(<< >>) = 0 /\ SoldOf(<< >>) = 0
  BY <1>1, <1>2 DEF BoughtOf, SoldOf
<1> QED BY <1>1, <1>3, EmptyBooks DEF InOrder, SalesAreFifo

LEMMA FifoStart ==
  ASSUME PortfolioInv, trade_history = << >>, positions = << >>, ledger = "idle"
  PROVE  FifoInv
<1>1. Matched = 0
  BY DEF Matched
<1> QED BY <1>1, EmptyInOrder DEF FifoInv

LEMMA FifoStartNext ==
  (PortfolioInv /\ trade_history = << >> /\ positions = << >> /\ ledger = "idle" => FifoInv)'
BY FifoStart, PTL

(* While neither the history nor the queue changes, and no sale runs.      *)
LEMMA FifoUnchanged ==
  ASSUME FifoInv, PortfolioInv', trade_history' = trade_history, positions' = positions,
         ledger = "idle", ExactBooks' => ExactBooks,
         ledger' = "matching" => Matched' = 0 /\ realised_pnl' = 0 /\ Head(due').price \in Int
  PROVE  FifoInv'
<1> SUFFICES ASSUME ExactBooks'
             PROVE  /\ InOrder(trade_history, positions, Matched')
                    /\ SalesAreFifo(trade_history)
                    /\ ledger' = "matching" =>
                         realised_pnl' = FifoGain(trade_history, SoldOf(trade_history),
                                              SoldOf(trade_history) + Matched', Head(due').price)
  BY DEF FifoInv
<1>1. Matched = 0 /\ Matched' = 0
  BY DEF Matched
<1>2. InOrder(trade_history, positions, 0) /\ SalesAreFifo(trade_history)
  BY <1>1 DEF FifoInv
<1>3. ASSUME ledger' = "matching"
      PROVE  realised_pnl' = FifoGain(trade_history, SoldOf(trade_history),
                                  SoldOf(trade_history) + 0, Head(due').price)
  <2>1. realised_pnl' = 0
    BY <1>3
  <2>2. Head(due').price \in Int
    BY <1>3
  <2>3. trade_history \in Seq(PositionInfo) /\ SoldOf(trade_history) \in Int
        /\ SoldOf(trade_history) + 0 = SoldOf(trade_history)
    BY HistoryTypes DEF FifoInv
  <2> QED BY <2>1, <2>2, <2>3, GainOfNone
<1> QED BY <1>1, <1>2, <1>3

LEMMA FifoBuy == ASSUME FifoInv, BookBuy, PortfolioInv' PROVE FifoInv'
<1> DEFINE f == Head(due)
           t == [action_type |-> "Buy", lot |-> [entry_price |-> f.price, amount |-> f.amount],
                 realised_pnl |-> 0]
           h == trade_history
<1>1. /\ trade_history' = Append(h, t) /\ positions' = Append(positions, t.lot)
      /\ ledger = "buying" /\ opening' = opening /\ ledger' \in {"idle", "buying"}
  BY DEF BookBuy, Record, Settle
<1>2. PortfolioInv /\ Matched = 0 /\ Matched' = 0
  BY <1>1 DEF FifoInv, Matched
<1>3. h \in Seq(PositionInfo) /\ positions \in Seq(Lot) /\ SoldOf(h) \in Nat /\ BoughtOf(h) \in Nat
      /\ TotalAmount(positions) \in Nat
  BY <1>2, HistoryTypes
<1>4. t \in PositionInfo /\ t.action_type = "Buy"
  <2>1. due \in Seq(ExecutionFill) /\ due # << >>
    BY <1>1, <1>2 DEF PortfolioInv, PortfolioTypeOK, InLoop
  <2>2. f.amount \in Positive /\ f.price \in Positive
    BY <2>1, FillTail
  <2> HIDE DEF f
  <2> QED BY <2>2 DEF PositionInfo, Lot, Positive
<1> HIDE DEF t
<1>5. ASSUME ExactBooks' PROVE InOrder(Append(h, t), Append(positions, t.lot), 0)
                               /\ SalesAreFifo(Append(h, t))
  <2>1. ExactBooks
    BY <1>1, <1>5 DEF ExactBooks
  <2>2. InOrder(h, positions, 0) /\ SalesAreFifo(h)
    BY <1>2, <2>1 DEF FifoInv
  <2>3. SoldOf(h) <= BoughtOf(h)
    BY <1>3, <2>2 DEF InOrder
  <2> QED BY <1>3, <1>4, <2>2, <2>3, PurchaseInOrder, SalesStayFifo
<1> QED BY <1>1, <1>2, <1>5 DEF FifoInv

LEMMA FifoMatch == ASSUME FifoInv, MatchLot, PortfolioInv' PROVE FifoInv'
<1> DEFINE first == Head(positions)
           sold == Smaller(unmatched, first.amount)
           price == Head(due).price
           h == trade_history
           part == [entry_price |-> first.entry_price, amount |-> sold]
<1>1. /\ ledger = "matching" /\ unmatched > 0 /\ positions # << >>
      /\ realised_pnl' = realised_pnl + (price - first.entry_price) * sold
      /\ unmatched' = unmatched - sold /\ positions' = Reduced(positions, sold)
      /\ trade_history' = h /\ ledger' = ledger /\ due' = due /\ opening' = opening
  BY DEF MatchLot, LotsLeft
<1>2. PortfolioInv
  BY DEF FifoInv
<1>3. /\ Head(due).amount \in Nat /\ price \in Nat /\ unmatched \in Nat
      /\ unmatched <= Head(due).amount /\ Matched = Head(due).amount - unmatched
  BY <1>1, <1>2, InSale
<1>4. h \in Seq(PositionInfo) /\ positions \in Seq(Lot) /\ SoldOf(h) \in Nat /\ Matched \in Nat
  BY <1>2, HistoryTypes
<1>5. first \in Lot /\ first.amount \in Nat /\ first.entry_price \in Nat
  <2>1. first = positions[1] /\ 1 \in 1..Len(positions) /\ first \in Lot
    BY <1>1, <1>4
  <2> QED BY <2>1 DEF Lot, Positive
<1>6. sold \in Nat /\ sold <= first.amount /\ sold <= unmatched
  BY <1>3, <1>5 DEF Smaller
<1>7. part \in Lot /\ part.amount = sold /\ part.entry_price = first.entry_price
  BY <1>5, <1>6 DEF Lot
<1>8. Matched' = Matched + sold
  <2>1. Matched' = Head(due).amount - unmatched'
    BY <1>1 DEF Matched
  <2> HIDE DEF sold
  <2> QED BY <1>1, <1>3, <1>6, <2>1
<1> HIDE DEF sold, price, part
<1>9. ASSUME ExactBooks'
      PROVE  /\ InOrder(h, Reduced(positions, sold), Matched + sold) /\ SalesAreFifo(h)
             /\ realised_pnl' = FifoGain(h, SoldOf(h), SoldOf(h) + (Matched + sold), price)
  <2>1. ExactBooks /\ Eps = 0
    BY <1>1, <1>9 DEF ExactBooks
  <2>2. InOrder(h, positions, Matched) /\ SalesAreFifo(h)
        /\ realised_pnl = FifoGain(h, SoldOf(h), SoldOf(h) + Matched, price)
    BY <1>1, <2>1 DEF FifoInv, price
  <2>3. InOrder(h, Reduced(positions, sold), Matched + sold)
        /\ FromTrade(h, part, SoldOf(h) + Matched)
    BY <1>1, <1>4, <1>6, <2>1, <2>2, MatchInOrder DEF part
  <2>4. PICK j \in 1..Len(h) : BoughtIn(h, part, SoldOf(h) + Matched, j)
    BY <2>3 DEF FromTrade
  <2>5. SoldOf(h) \in Int /\ SoldOf(h) + Matched \in Int /\ SoldOf(h) <= SoldOf(h) + Matched
        /\ price \in Int /\ SoldOf(h) + (Matched + sold) = (SoldOf(h) + Matched) + sold
    BY <1>3, <1>4, <1>6, SMTT(20)
  <2>6. FifoGain(h, SoldOf(h), (SoldOf(h) + Matched) + part.amount, price)
          = FifoGain(h, SoldOf(h), SoldOf(h) + Matched, price) + (price - part.entry_price) * part.amount
    BY <1>4, <1>7, <2>4, <2>5, GainOfMore
  <2> QED BY <1>1, <1>7, <2>2, <2>3, <2>5, <2>6 DEF price
<1> QED BY <1>1, <1>8, <1>9 DEF FifoInv, price

LEMMA FifoSell == ASSUME FifoInv, BookSell, PortfolioInv' PROVE FifoInv'
<1> DEFINE f == Head(due)
           t == [action_type |-> "Sell", lot |-> [entry_price |-> f.price, amount |-> f.amount],
                 realised_pnl |-> realised_pnl]
           h == trade_history
<1>1. /\ ledger = "matching" /\ trade_history' = Append(h, t) /\ positions' = positions
      /\ due' = Tail(due) /\ realised_pnl' = 0 /\ opening' = opening
      /\ unmatched' = IF Tail(due) = << >> THEN 0 ELSE Head(Tail(due)).amount
  BY DEF BookSell, Record, Settle, StartMatching
<1>2. PortfolioInv
  BY DEF FifoInv
<1>3. /\ due \in Seq(ExecutionFill) /\ due # << >> /\ unmatched \in Nat
      /\ f.amount \in Nat /\ Matched = f.amount - unmatched
  BY <1>1, <1>2, InSale
<1>4. /\ h \in Seq(PositionInfo) /\ positions \in Seq(Lot) /\ SoldOf(h) \in Nat /\ BoughtOf(h) \in Nat
      /\ TotalAmount(positions) \in Nat /\ realised_pnl \in Int
  BY <1>2, HistoryTypes DEF PortfolioInv, PortfolioTypeOK
<1>5. f.amount \in Positive /\ f.price \in Positive /\ Tail(due) \in Seq(ExecutionFill)
  BY <1>3, FillTail
<1>6. /\ t \in PositionInfo /\ t.action_type = "Sell" /\ t.lot.amount = f.amount
      /\ t.lot.entry_price = f.price /\ t.realised_pnl = realised_pnl
  <2> HIDE DEF f
  <2> QED BY <1>4, <1>5 DEF PositionInfo, Lot, Positive
<1> HIDE DEF t
<1>7. Matched' = 0 /\ (ledger' = "matching" => Head(due').price \in Int)
  <2>1. ledger' = "matching" => due' # << >>
    BY DEF PortfolioInv, InLoop
  <2>2. due' # << >> => Head(due').amount \in Nat /\ Head(due').price \in Int
    <3>1. due' = Tail(due) /\ Tail(due) \in Seq(ExecutionFill)
      BY <1>1, <1>5
    <3>2. \A fs \in Seq(ExecutionFill) :
            fs # << >> => Head(fs).amount \in Nat /\ Head(fs).price \in Int
      BY FillTail DEF Positive
    <3> HIDE DEF f
    <3> QED BY <3>1, <3>2
  <2> QED BY <1>1, <2>1, <2>2 DEF Matched
<1>8. ASSUME ExactBooks'
      PROVE  /\ InOrder(Append(h, t), positions, 0) /\ SalesAreFifo(Append(h, t))
  <2>1. ExactBooks
    BY <1>1, <1>8 DEF ExactBooks
  <2>2. Matched = t.lot.amount
    <3>1. unmatched = 0
      BY <1>2, <2>1, LotsSuffice
    <3> HIDE DEF f
    <3> QED BY <1>3, <1>6, <3>1
  <2>3. InOrder(h, positions, t.lot.amount) /\ SalesAreFifo(h)
        /\ realised_pnl = FifoGain(h, SoldOf(h), SoldOf(h) + t.lot.amount, t.lot.entry_price)
    BY <1>1, <1>6, <2>1, <2>2 DEF FifoInv
  <2>4. SoldOf(h) + t.lot.amount <= BoughtOf(h) /\ SoldOf(h) <= BoughtOf(h)
    <3>1. SoldOf(h) + t.lot.amount + TotalAmount(positions) = BoughtOf(h) /\ t.lot.amount \in Nat
      BY <1>3, <1>6, <2>3 DEF InOrder
    <3> QED BY <1>4, <3>1
  <2> QED BY <1>4, <1>6, <2>3, <2>4, SaleInOrder, SalesStayFifo
<1>9. ASSUME ExactBooks', ledger' = "matching"
      PROVE  realised_pnl' = FifoGain(Append(h, t), SoldOf(Append(h, t)), SoldOf(Append(h, t)) + 0, Head(due').price)
  <2>1. Append(h, t) \in Seq(PositionInfo)
    BY <1>4, <1>6
  <2>3. SoldOf(Append(h, t)) \in Nat
    <3> HIDE DEF h
    <3> QED BY <2>1, TradedNat
  <2>2. SoldOf(Append(h, t)) \in Int /\ SoldOf(Append(h, t)) + 0 = SoldOf(Append(h, t))
    BY <2>3
  <2> QED BY <1>1, <1>7, <1>9, <2>1, <2>2, GainOfNone
<1> QED BY <1>1, <1>7, <1>8, <1>9 DEF FifoInv

THEOREM FifoInvInductive == FifoInv /\ PortfolioChange => FifoInv'
<1> SUFFICES ASSUME FifoInv, PortfolioChange PROVE FifoInv'
  OBVIOUS
<1>0. PortfolioInv /\ PortfolioInv'
  BY PortfolioInvInductive DEF FifoInv
<1>1. ASSUME NEW fs \in Seq(ExecutionFill), UpdateAfterBuy(fs) PROVE FifoInv'
  <2>1. /\ trade_history' = trade_history /\ positions' = positions /\ opening' = opening
        /\ ledger = "idle" /\ ledger' = "buying"
    BY <1>1 DEF UpdateAfterBuy
  <2>2. ExactBooks' => ExactBooks
    BY <2>1 DEF ExactBooks
  <2> QED BY <1>0, <2>1, <2>2, FifoUnchanged
<1>2. ASSUME NEW fs \in Seq(ExecutionFill), UpdateAfterSell(fs) PROVE FifoInv'
  <2>1. /\ ledger = "idle" /\ ledger' = "matching" /\ fs # << >> /\ due' = fs
        /\ unmatched' = Head(fs).amount /\ realised_pnl' = 0
        /\ trade_history' = trade_history /\ positions' = positions /\ opening' = opening
    BY <1>2 DEF UpdateAfterSell, StartMatching
  <2>2. Head(fs).amount \in Nat /\ Head(due').price \in Int
    BY <2>1, FillTail DEF Positive
  <2>3. Matched' = 0
    BY <2>1, <2>2 DEF Matched
  <2>4. ExactBooks' => ExactBooks
    BY <2>1 DEF ExactBooks
  <2> QED BY <1>0, <2>1, <2>2, <2>3, <2>4, FifoUnchanged
<1>3. CASE BookBuy
  BY <1>0, <1>3, FifoBuy
<1>4. CASE MatchLot
  BY <1>0, <1>4, FifoMatch
<1>5. CASE BookSell
  BY <1>0, <1>5, FifoSell
<1>6. ASSUME NEW bid \in Positive, NEW ask \in Positive, UpdatePortfolioValue(bid, ask)
      PROVE  FifoInv'
  <2>1. /\ trade_history' = trade_history /\ positions' = positions /\ opening' = opening
        /\ ledger = "idle" /\ ledger' = "idle"
    BY <1>6 DEF UpdatePortfolioValue
  <2>2. ExactBooks' => ExactBooks
    BY <2>1 DEF ExactBooks
  <2> QED BY <1>0, <2>1, <2>2, FifoUnchanged
<1>7. ASSUME NEW c \in Nat, SetCash(c) PROVE FifoInv'
  <2>1. opening.assets \in Nat /\ opening' = [opening EXCEPT !.cash = @ + (c - cash)]
        /\ opening \in [cash : Int, assets : Nat, taken : Nat]
    BY <1>0, <1>7 DEF SetCash, PortfolioInv, PortfolioTypeOK
  <2>2. ExactBooks' => ExactBooks
    BY <2>1 DEF ExactBooks
  <2>3. /\ trade_history' = trade_history /\ positions' = positions
        /\ ledger = "idle" /\ ledger' = "idle"
    BY <1>7 DEF SetCash
  <2> QED BY <1>0, <2>2, <2>3, FifoUnchanged
<1>8. ASSUME NEW a \in Nat, SetAmount(a) PROVE FifoInv'
  <2>1. /\ opening \in [cash : Int, assets : Nat, taken : Nat] /\ asset_amount \in Int
        /\ opening' = IF a >= asset_amount
                      THEN [opening EXCEPT !.assets = opening.assets + (a - asset_amount)]
                      ELSE [opening EXCEPT !.taken = opening.taken + (asset_amount - a)]
    BY <1>0, <1>8 DEF SetAmount, PortfolioInv, PortfolioTypeOK
  <2>2. opening'.assets >= opening.assets /\ opening'.assets \in Nat /\ opening.assets \in Nat
    <3>1. CASE a >= asset_amount
      BY <2>1, <3>1
    <3>2. CASE a < asset_amount
      BY <2>1, <3>2
    <3> QED BY <2>1, <3>1, <3>2
  <2>3. ExactBooks' => ExactBooks
    BY <2>2 DEF ExactBooks
  <2>4. /\ trade_history' = trade_history /\ positions' = positions
        /\ ledger = "idle" /\ ledger' = "idle"
    BY <1>8 DEF SetAmount
  <2> QED BY <1>0, <2>3, <2>4, FifoUnchanged
<1>9. ASSUME NEW balances, Create(balances) PROVE FifoInv'
  BY <1>0, <1>9, FifoStartNext DEF Create
<1>10. CASE UNCHANGED portfolioVars
  <2>1. Matched' = Matched /\ ExactBooks' = ExactBooks
    BY <1>10 DEF portfolioVars, Matched, ExactBooks
  <2> QED BY <1>0, <1>10, <2>1 DEF portfolioVars, FifoInv
<1> QED BY <1>1, <1>2, <1>3, <1>4, <1>5, <1>6, <1>7, <1>8, <1>9, <1>10 DEF PortfolioChange
=============================================================================
