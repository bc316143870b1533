---------------------------- MODULE OrdersTheorems ----------------------------
(***************************************************************************)
(* The executors, for any orders and snapshots: their types; and on sorted *)
(* books the quantity an order obtains and what it costs.                  *)
(***************************************************************************)
EXTENDS Orders, SumTheorems

(* The side of a snapshot an order trades against is a list of levels.     *)
LEMMA LevelsType == ASSUME NEW o \in Order, NEW b \in LOBData
                    PROVE  Levels(o, b) \in Seq(OrderBookEntry)
BY DEF Levels, LOBData

(* One iteration of a sweep takes a positive amount from a level it has.   *)
LEMMA TakeLevelType == ASSUME OrdersTypeOK, TakeLevel PROVE OrdersTypeOK'
<1> DEFINE take == Smaller(remaining, levels[Cursor].amount)
           fill == [amount |-> take, price |-> levels[Cursor].price]
<1>1. /\ exec \in {"idle", "sweep", "done"} /\ order \in Order
      /\ levels \in Seq(OrderBookEntry) /\ remaining \in Int /\ fills \in Seq(ExecutionFill)
  BY DEF OrdersTypeOK
<1>2. /\ fills' = Append(fills, fill) /\ remaining' = remaining - take
      /\ UNCHANGED <<exec, order, levels>> /\ remaining > 0 /\ Cursor <= Len(levels)
  BY DEF TakeLevel, SweepGoesOn
<1>3. levels[Cursor] \in OrderBookEntry
  <2>1. Len(fills) \in Nat /\ Len(levels) \in Nat
    BY <1>1
  <2>2. Cursor \in 1..Len(levels)
    BY <1>2, <2>1 DEF Cursor
  <2> QED BY <1>1, <2>2
<1>4. levels[Cursor].amount \in Positive /\ levels[Cursor].price \in Positive
  BY <1>3 DEF OrderBookEntry
<1>5. take \in Positive
  BY <1>1, <1>2, <1>4 DEF Smaller, Positive
<1>6. fill \in ExecutionFill
  BY <1>4, <1>5 DEF ExecutionFill
<1>7. remaining' \in Int
  BY <1>1, <1>2, <1>5 DEF Positive
<1> HIDE DEF fill
<1> QED BY <1>1, <1>2, <1>6, <1>7 DEF OrdersTypeOK

(* The call of an executor stores its arguments.                           *)
LEMMA ExecuteOrderType ==
  ASSUME NEW o \in Order, NEW b \in LOBData, ExecuteOrder(o, b)
  PROVE  OrdersTypeOK'
<1>1. o.amount \in Int
  BY DEF Order
<1>2. Levels(o, b) \in Seq(OrderBookEntry)
  BY LevelsType
<1>3. exec' \in {"sweep", "done"}
  BY DEF ExecuteOrder
<1>4. order' = o /\ levels' = Levels(o, b) /\ remaining' = o.amount /\ fills' = << >>
  BY DEF ExecuteOrder
<1> QED BY <1>1, <1>2, <1>3, <1>4 DEF OrdersTypeOK

LEMMA EndSweepType == ASSUME OrdersTypeOK, EndSweep PROVE OrdersTypeOK'
BY DEF EndSweep, OrdersTypeOK, Returned

LEMMA NoCallType == DefaultOrder \in Order
BY DEF DefaultOrder, Order, Side, OrderTypes

LEMMA ReturnType == ASSUME OrdersTypeOK, Return PROVE OrdersTypeOK'
BY NoCallType DEF Return, OrdersTypeOK

(* Whatever order meets whatever snapshot, the executors only ever hold    *)
(* and return fills of positive amount and price.                          *)
THEOREM OrdersTypeCorrect == OrdersSpec => []OrdersTypeOK
<1>1. OrdersInit => OrdersTypeOK
  BY NoCallType DEF OrdersInit, OrdersTypeOK
<1>2. OrdersTypeOK /\ [OrdersNext]_ordersVars => OrdersTypeOK'
  <2> SUFFICES ASSUME OrdersTypeOK, [OrdersNext]_ordersVars
               PROVE  OrdersTypeOK'
    OBVIOUS
  <2>1. ASSUME NEW o \in OrderSet, NEW b \in Books, ExecuteOrder(o, b)
        PROVE  OrdersTypeOK'
    BY <2>1, ExecuteOrderType, OrdersAssumption, BooksAssumption
  <2>2. CASE UNCHANGED ordersVars
    BY <2>2 DEF ordersVars, OrdersTypeOK
  <2> QED BY <2>1, <2>2, TakeLevelType, EndSweepType, ReturnType DEF OrdersNext
<1> QED BY <1>1, <1>2, PTL DEF OrdersSpec

----------------------------------------------------------------------------
(* Fills and offers as sequences of numbers.                               *)

LEMMA FillElements ==
  ASSUME NEW fs \in Seq(ExecutionFill)
  PROVE  /\ Amounts(fs) \in Seq(Nat) /\ Amounts(fs) \in Seq(Int) /\ Len(Amounts(fs)) = Len(fs)
         /\ Costs(fs) \in Seq(Nat) /\ Costs(fs) \in Seq(Int) /\ Len(Costs(fs)) = Len(fs)
         /\ \A k \in 1..Len(fs) :
              /\ fs[k].amount \in Positive /\ fs[k].price \in Positive
              /\ Amounts(fs)[k] = fs[k].amount /\ Costs(fs)[k] = fs[k].amount * fs[k].price
         /\ TotalAmount(fs) \in Nat /\ TotalCost(fs) \in Nat
<1>1. ASSUME NEW k \in 1..Len(fs)
      PROVE  /\ fs[k].amount \in Positive /\ fs[k].price \in Positive
             /\ Amount(fs[k]) \in Nat /\ Cost(fs[k]) \in Nat
  <2>1. fs[k] \in ExecutionFill
    OBVIOUS
  <2>2. fs[k].amount \in Positive /\ fs[k].price \in Positive
    BY <2>1 DEF ExecutionFill
  <2> QED BY <2>2, ProductNat DEF Amount, Cost, Positive
<1>2. Amounts(fs) \in Seq(Nat) /\ Amounts(fs) \in Seq(Int) /\ Len(Amounts(fs)) = Len(fs)
  BY <1>1 DEF Amounts
<1>3. Costs(fs) \in Seq(Nat) /\ Costs(fs) \in Seq(Int) /\ Len(Costs(fs)) = Len(fs)
  BY <1>1 DEF Costs
<1>4. \A k \in 1..Len(fs) : Amounts(fs)[k] = fs[k].amount /\ Costs(fs)[k] = fs[k].amount * fs[k].price
  BY DEF Amounts, Costs, Amount, Cost
<1>5. TotalAmount(fs) \in Nat /\ TotalCost(fs) \in Nat
  BY <1>2, <1>3, TotalNat DEF TotalAmount, TotalCost
<1> QED BY <1>1, <1>2, <1>3, <1>4, <1>5

LEMMA FillAppended ==
  ASSUME NEW fs \in Seq(ExecutionFill), NEW f \in ExecutionFill
  PROVE  TotalAmount(Append(fs, f)) = TotalAmount(fs) + f.amount
<1> DEFINE gs == Append(fs, f)
<1>1. /\ gs \in Seq(ExecutionFill) /\ Len(gs) = Len(fs) + 1 /\ Len(fs) \in Nat
      /\ gs[Len(fs) + 1] = f /\ \A k \in 1..Len(fs) : gs[k] = fs[k]
  OBVIOUS
<1> HIDE DEF gs
<1>2. /\ Amounts(fs) \in Seq(Int) /\ Len(Amounts(fs)) = Len(fs)
      /\ Amounts(gs) \in Seq(Int) /\ Len(Amounts(gs)) = Len(gs)
      /\ \A k \in 1..Len(fs) : Amounts(fs)[k] = fs[k].amount
      /\ \A k \in 1..Len(gs) : Amounts(gs)[k] = gs[k].amount
  BY <1>1, FillElements
<1>3. \A k \in 1..Len(Amounts(fs)) : Amounts(gs)[k] = Amounts(fs)[k]
  BY <1>1, <1>2
<1>4. Total(Amounts(gs)) = Total(Amounts(fs)) + Amounts(gs)[Len(gs)]
  BY <1>1, <1>2, <1>3, TotalGrows
<1>5. Amounts(gs)[Len(gs)] = f.amount
  BY <1>1, <1>2
<1> QED BY <1>4, <1>5 DEF TotalAmount, gs

LEMMA LevelElements ==
  ASSUME NEW ls \in Seq(OrderBookEntry)
  PROVE  /\ \A k \in 1..Len(ls) : ls[k].amount \in Positive /\ ls[k].price \in Positive
         /\ Amounts(ls) \in Seq(Nat) /\ Amounts(ls) \in Seq(Int) /\ Len(Amounts(ls)) = Len(ls)
         /\ \A k \in 1..Len(ls) : Amounts(ls)[k] = ls[k].amount
<1>1. ASSUME NEW k \in 1..Len(ls)
      PROVE  ls[k].amount \in Positive /\ ls[k].price \in Positive
  <2>1. ls[k] \in OrderBookEntry
    OBVIOUS
  <2> QED BY <2>1 DEF OrderBookEntry
<1>2. Amounts(ls) \in Seq(Nat) /\ Amounts(ls) \in Seq(Int) /\ Len(Amounts(ls)) = Len(ls)
  BY <1>1 DEF Amounts, Amount, Positive
<1> QED BY <1>1, <1>2 DEF Amounts, Amount

LEMMA OfferElements ==
  ASSUME NEW ls \in Seq(OrderBookEntry), NEW o \in Order
  PROVE  /\ Offers(o, ls) \in Seq(Nat) /\ Offers(o, ls) \in Seq(Int)
         /\ Len(Offers(o, ls)) = Len(ls)
         /\ \A k \in 1..Len(ls) :
              /\ Offers(o, ls)[k] = IF Acceptable(o, ls[k]) THEN ls[k].amount ELSE 0
              /\ Offers(o, ls)[k] = Offered(o, ls[k])
              /\ Offered(o, ls[k]) \in Nat
         /\ Liquidity(o, ls) \in Nat
<1>1. \A k \in 1..Len(ls) : Offered(o, ls[k]) \in Nat
  BY LevelElements DEF Offered, Positive
<1>2. Offers(o, ls) \in Seq(Nat) /\ Offers(o, ls) \in Seq(Int) /\ Len(Offers(o, ls)) = Len(ls)
  BY <1>1 DEF Offers
<1>3. Liquidity(o, ls) \in Nat
  BY <1>2, TotalNat DEF Liquidity
<1> QED BY <1>1, <1>2, <1>3 DEF Offers, Offered

----------------------------------------------------------------------------
(* Sweeps over levels that are best first.                                 *)

\* The levels get no better for the order.
Ranked(o, ls) ==
  \A k, l \in 1..Len(ls) :
    k < l => IF o.side = "Buy" THEN ls[k].price <= ls[l].price ELSE ls[k].price >= ls[l].price

\* The fills take acceptable levels from the front, each but the last whole.
Greedy(fs, o, ls) ==
  /\ Len(fs) <= Len(ls)
  /\ \A k \in 1..Len(fs) :
       /\ Acceptable(o, ls[k])
       /\ fs[k].price = ls[k].price
       /\ fs[k].amount <= ls[k].amount
       /\ k < Len(fs) => fs[k].amount = ls[k].amount

\* What each of the first n levels gives to the fills.
Parts(fs, n) == [k \in 1..n |-> IF k <= Len(fs) THEN fs[k].amount ELSE 0]

LEMMA SortedIsRanked ==
  ASSUME NEW b \in LOBData, SortedBook(b), NEW o \in Order
  PROVE  Ranked(o, Levels(o, b))
BY DEF SortedBook, Ranked, Levels

(* No level behind one that is not acceptable is.                          *)
LEMMA BeyondTheLimit ==
  ASSUME NEW o \in Order, o.side # "Undefined",
         NEW ls \in Seq(OrderBookEntry), Ranked(o, ls),
         NEW k \in 1..Len(ls), NEW l \in 1..Len(ls), k <= l, ~Acceptable(o, ls[k])
  PROVE  ~Acceptable(o, ls[l])
<1>1. ls[k].price \in Nat /\ ls[l].price \in Nat /\ o.price \in Int
      /\ o.side \in {"Buy", "Sell"}
  BY LevelElements DEF Positive, Order, Side
<1>2. CASE k = l
  BY <1>2
<1>3. CASE k < l
  <2>1. IF o.side = "Buy" THEN ls[k].price <= ls[l].price ELSE ls[k].price >= ls[l].price
    BY <1>3 DEF Ranked
  <2> QED BY <1>1, <2>1 DEF Acceptable
<1> QED BY <1>2, <1>3

LEMMA PartsTotal ==
  ASSUME NEW fs \in Seq(ExecutionFill), NEW n \in Nat, Len(fs) <= n
  PROVE  /\ Parts(fs, n) \in Seq(Nat) /\ Parts(fs, n) \in Seq(Int) /\ Len(Parts(fs, n)) = n
         /\ Total(Parts(fs, n)) = TotalAmount(fs)
<1>1. \A k \in 1..Len(fs) : fs[k].amount \in Nat
  BY FillElements DEF Positive
<1>2. Parts(fs, n) \in Seq(Nat) /\ Parts(fs, n) \in Seq(Int) /\ Len(Parts(fs, n)) = n
  BY <1>1 DEF Parts
<1>3. /\ Amounts(fs) \in Seq(Int) /\ Len(Amounts(fs)) = Len(fs) /\ Len(fs) \in Nat
      /\ \A k \in 1..Len(fs) : Amounts(fs)[k] = fs[k].amount
  BY FillElements
<1>4. \A k \in 1..Len(Amounts(fs)) : Parts(fs, n)[k] = Amounts(fs)[k]
  BY <1>3 DEF Parts
<1>5. \A k \in 1..Len(Parts(fs, n)) : k > Len(Amounts(fs)) => Parts(fs, n)[k] = 0
  BY <1>2, <1>3 DEF Parts
<1> QED BY <1>2, <1>3, <1>4, <1>5, TotalPadded DEF TotalAmount

(* A sweep takes no more than there is ...                                 *)
LEMMA SweepWithinLiquidity ==
  ASSUME NEW o \in Order, NEW ls \in Seq(OrderBookEntry), NEW fs \in Seq(ExecutionFill),
         Greedy(fs, o, ls)
  PROVE  TotalAmount(fs) <= Liquidity(o, ls)
<1> DEFINE ps == Parts(fs, Len(ls))
<1>1. /\ Len(ls) \in Nat /\ Len(fs) \in Nat /\ Len(fs) <= Len(ls)
      /\ \A k \in 1..Len(fs) : Acceptable(o, ls[k]) /\ fs[k].amount <= ls[k].amount
  BY DEF Greedy
<1>2. ps \in Seq(Int) /\ Len(ps) = Len(ls) /\ Total(ps) = TotalAmount(fs)
  BY <1>1, PartsTotal
<1>3. /\ Offers(o, ls) \in Seq(Int) /\ Len(Offers(o, ls)) = Len(ls)
      /\ \A k \in 1..Len(ls) : /\ Offers(o, ls)[k] = IF Acceptable(o, ls[k]) THEN ls[k].amount ELSE 0
                               /\ Offers(o, ls)[k] \in Nat
  BY OfferElements
<1>4. ASSUME NEW k \in 1..Len(ls)
      PROVE  ps[k] <= Offers(o, ls)[k]
  BY <1>1, <1>3 DEF Parts
<1> HIDE DEF ps
<1>5. Total(ps) <= Total(Offers(o, ls))
  BY <1>2, <1>3, <1>4, TotalMonotone
<1> QED BY <1>2, <1>5 DEF Liquidity

(* ... and all of it when it stops with every level taken whole where no   *)
(* acceptable one is left.                                                 *)
LEMMA SweepTakesAll ==
  ASSUME NEW o \in Order, o.side # "Undefined",
         NEW ls \in Seq(OrderBookEntry), NEW fs \in Seq(ExecutionFill),
         Ranked(o, ls), Greedy(fs, o, ls),
         \A k \in 1..Len(fs) : fs[k].amount = ls[k].amount,
         Len(fs) < Len(ls) => ~Acceptable(o, ls[Len(fs) + 1])
  PROVE  TotalAmount(fs) = Liquidity(o, ls)
<1>1. /\ Len(ls) \in Nat /\ Len(fs) \in Nat /\ Len(fs) <= Len(ls)
      /\ \A k \in 1..Len(fs) : Acceptable(o, ls[k])
  BY DEF Greedy
<1>2. /\ Offers(o, ls) \in Seq(Int) /\ Len(Offers(o, ls)) = Len(ls)
      /\ \A k \in 1..Len(ls) : Offers(o, ls)[k] = IF Acceptable(o, ls[k]) THEN ls[k].amount ELSE 0
  BY OfferElements
<1>3. /\ Amounts(fs) \in Seq(Int) /\ Len(Amounts(fs)) = Len(fs)
      /\ \A k \in 1..Len(fs) : Amounts(fs)[k] = fs[k].amount
  BY FillElements
<1>4. ASSUME NEW k \in 1..Len(Amounts(fs))
      PROVE  Offers(o, ls)[k] = Amounts(fs)[k]
  <2>1. k \in 1..Len(fs) /\ k \in 1..Len(ls)
    BY <1>1, <1>3
  <2> QED BY <1>1, <1>2, <1>3, <2>1
<1>5. ASSUME NEW k \in 1..Len(Offers(o, ls)), k > Len(Amounts(fs))
      PROVE  Offers(o, ls)[k] = 0
  <2>1. k \in 1..Len(ls) /\ Len(fs) + 1 \in 1..Len(ls) /\ Len(fs) + 1 <= k /\ Len(fs) < Len(ls)
    BY <1>1, <1>2, <1>3, <1>5
  <2>2. ~Acceptable(o, ls[k])
    BY <2>1, BeyondTheLimit
  <2> QED BY <1>2, <2>1, <2>2
<1>6. Len(Amounts(fs)) <= Len(Offers(o, ls))
  BY <1>1, <1>2, <1>3
<1>7. Total(Offers(o, ls)) = Total(Amounts(fs))
  BY <1>2, <1>3, <1>4, <1>5, <1>6, TotalPadded
<1> QED BY <1>7 DEF Liquidity, TotalAmount

----------------------------------------------------------------------------
(* The pre-check of the FOK executors looks at all the liquidity there is. *)

\* The first n levels as a sequence of offers.
LEMMA FrontOfBook ==
  ASSUME NEW o \in Order, NEW ls \in Seq(OrderBookEntry), NEW n \in 1..Len(ls),
         \A k \in 1..n : Acceptable(o, ls[k])
  PROVE  /\ Amounts(SubSeq(ls, 1, n)) \in Seq(Int) /\ Len(Amounts(SubSeq(ls, 1, n))) = n
         /\ \A k \in 1..n : Offers(o, ls)[k] = Amounts(SubSeq(ls, 1, n))[k]
<1> DEFINE front == SubSeq(ls, 1, n)
<1>1. front \in Seq(OrderBookEntry) /\ Len(front) = n /\ \A k \in 1..n : front[k] = ls[k]
  OBVIOUS
<1> HIDE DEF front
<1>2. /\ Amounts(front) \in Seq(Int) /\ Len(Amounts(front)) = n
      /\ \A k \in 1..n : Amounts(front)[k] = front[k].amount
  BY <1>1, LevelElements
<1>3. \A k \in 1..n : k \in 1..Len(ls)
  OBVIOUS
<1>4. \A k \in 1..n : Offers(o, ls)[k] = ls[k].amount
  BY <1>3, OfferElements
<1> QED BY <1>1, <1>2, <1>4 DEF front

LEMMA AvailableIsEnough ==
  ASSUME NEW o \in Order, NEW ls \in Seq(OrderBookEntry), Available(o, ls)
  PROVE  o.amount <= Liquidity(o, ls)
<1>1. PICK n \in 1..Len(ls) : /\ \A k \in 1..n : Acceptable(o, ls[k])
                              /\ TotalAmount(SubSeq(ls, 1, n)) >= o.amount
  BY DEF Available
<1> DEFINE fr == Amounts(SubSeq(ls, 1, n))
           ps == [k \in 1..Len(ls) |-> IF k <= n THEN Offers(o, ls)[k] ELSE 0]
<1>2. /\ fr \in Seq(Int) /\ Len(fr) = n /\ \A k \in 1..n : Offers(o, ls)[k] = fr[k]
  BY <1>1, FrontOfBook
<1>3. /\ Offers(o, ls) \in Seq(Int) /\ Len(Offers(o, ls)) = Len(ls) /\ Len(ls) \in Nat
      /\ \A k \in 1..Len(ls) : Offers(o, ls)[k] \in Nat
  BY OfferElements
<1>4. /\ ps \in Seq(Int) /\ Len(ps) = Len(ls)
      /\ \A k \in 1..Len(ls) : ps[k] = IF k <= n THEN Offers(o, ls)[k] ELSE 0
  BY <1>3
<1> HIDE DEF fr, ps
<1>5. Total(ps) = Total(fr)
  <2>1. Len(fr) <= Len(ps)
    BY <1>2, <1>3, <1>4
  <2>2. ASSUME NEW k \in 1..Len(fr) PROVE ps[k] = fr[k]
    <3>1. k \in 1..n /\ k \in 1..Len(ls) /\ k <= n
      BY <1>2, <1>3
    <3> QED BY <1>2, <1>4, <3>1
  <2>3. \A k \in 1..Len(ps) : k > Len(fr) => ps[k] = 0
    BY <1>2, <1>4
  <2> QED BY <1>2, <1>4, <2>1, <2>2, <2>3, TotalPadded
<1>6. Total(ps) <= Total(Offers(o, ls))
  <2>1. \A k \in 1..Len(ps) : ps[k] <= Offers(o, ls)[k]
    BY <1>3, <1>4
  <2> QED BY <1>3, <1>4, <2>1, TotalMonotone
<1>7. Total(fr) \in Int /\ Liquidity(o, ls) \in Int /\ o.amount \in Int
  BY <1>2, TotalInt, OfferElements DEF Order
<1> QED BY <1>1, <1>5, <1>6, <1>7 DEF Liquidity, TotalAmount, fr

LEMMA RefusedIsTooLittle ==
  ASSUME NEW o \in Order, o.side # "Undefined", NEW ls \in Seq(OrderBookEntry), Ranked(o, ls),
         ~NothingToMatch(o, ls), ~Available(o, ls)
  PROVE  Liquidity(o, ls) < o.amount
<1> DEFINE T == {k \in 1..Len(ls) : ~Acceptable(o, ls[k])}
<1>1. Len(ls) \in Nat /\ 1 \in 1..Len(ls) /\ Acceptable(o, ls[1])
  BY DEF NothingToMatch
<1>2. PICK n \in 1..Len(ls) : /\ \A k \in 1..n : Acceptable(o, ls[k])
                              /\ \A k \in 1..Len(ls) : k > n => ~Acceptable(o, ls[k])
  <2>1. CASE T = {}
    <3>1. Len(ls) \in 1..Len(ls)
      BY <1>1
    <3> QED BY <1>1, <2>1, <3>1
  <2>2. CASE T # {}
    <3>1. PICK m \in T : \A k \in T : m <= k
      BY <2>2, LeastElement, T \in SUBSET Nat
    <3>2. m \in 1..Len(ls) /\ ~Acceptable(o, ls[m]) /\ m # 1 /\ m - 1 \in 1..Len(ls)
      BY <1>1, <3>1
    <3>3. \A k \in 1..m-1 : Acceptable(o, ls[k])
      BY <1>1, <3>1, <3>2
    <3>4. ASSUME NEW k \in 1..Len(ls), k > m - 1 PROVE ~Acceptable(o, ls[k])
      BY <3>2, <3>4, BeyondTheLimit
    <3> QED BY <3>2, <3>3, <3>4
  <2> QED BY <2>1, <2>2
<1> DEFINE fr == Amounts(SubSeq(ls, 1, n))
<1>3. fr \in Seq(Int) /\ Len(fr) = n /\ \A k \in 1..n : Offers(o, ls)[k] = fr[k]
  BY <1>2, FrontOfBook
<1>4. /\ Offers(o, ls) \in Seq(Int) /\ Len(Offers(o, ls)) = Len(ls)
      /\ \A k \in 1..Len(ls) : Offers(o, ls)[k] = IF Acceptable(o, ls[k]) THEN ls[k].amount ELSE 0
  BY OfferElements
<1>5. ~(Total(fr) >= o.amount)
  BY <1>2 DEF Available, TotalAmount
<1> HIDE DEF fr
<1>6. Total(Offers(o, ls)) = Total(fr)
  <2>1. Len(fr) <= Len(Offers(o, ls))
    BY <1>3, <1>4
  <2>2. \A k \in 1..Len(fr) : Offers(o, ls)[k] = fr[k]
    BY <1>3
  <2>3. \A k \in 1..Len(Offers(o, ls)) : k > Len(fr) => Offers(o, ls)[k] = 0
    BY <1>2, <1>3, <1>4
  <2> QED BY <1>3, <1>4, <2>1, <2>2, <2>3, TotalPadded
<1>7. Total(fr) \in Int /\ o.amount \in Int
  BY <1>3, TotalInt DEF Order
<1> QED BY <1>5, <1>6, <1>7 DEF Liquidity

----------------------------------------------------------------------------
(* What orders obtain.                                                     *)

\* An order that is rejected is entitled to nothing.
LEMMA RejectedHasNone ==
  ASSUME NEW o \in Order, NEW ls \in Seq(OrderBookEntry), Ranked(o, ls), Rejected(o, ls)
  PROVE  Entitled(o, ls) = 0
<1>1. Liquidity(o, ls) \in Nat /\ o.amount \in Int
  BY OfferElements DEF Order
<1>2. CASE o.side = "Undefined"
  BY <1>2 DEF Entitled
<1>3. CASE o.side # "Undefined" /\ NothingToMatch(o, ls)
  <2>1. ASSUME NEW k \in 1..Len(Offers(o, ls)) PROVE Offers(o, ls)[k] = 0
    <3>1. k \in 1..Len(ls) /\ 1 \in 1..Len(ls) /\ 1 <= k /\ ls # << >>
      BY OfferElements
    <3>2. ~Acceptable(o, ls[1])
      BY <1>3, <3>1 DEF NothingToMatch
    <3>3. ~Acceptable(o, ls[k])
      BY <1>3, <3>1, <3>2, BeyondTheLimit
    <3> QED BY <3>1, <3>3, OfferElements
  <2>2. Liquidity(o, ls) = 0
    BY <2>1, TotalZeros, OfferElements DEF Liquidity
  <2> QED BY <1>1, <2>2 DEF Entitled, Wanted
<1>4. CASE o.side # "Undefined" /\ ~NothingToMatch(o, ls) /\ o.order_type = "LimitFok" /\ ~Available(o, ls)
  <2>1. Liquidity(o, ls) < o.amount
    BY <1>4, RefusedIsTooLittle
  <2> QED BY <1>1, <1>4, <2>1 DEF Entitled, Wanted, AllOrNothing
<1> QED BY <1>2, <1>3, <1>4 DEF Rejected

\* What the sweep has done so far; "left" is the part of the order still open.
Swept(fs, o, ls, left) ==
  /\ Greedy(fs, o, ls)
  /\ left + TotalAmount(fs) = o.amount
  /\ left > 0 => \A k \in 1..Len(fs) : fs[k].amount = ls[k].amount
  /\ left < 0 => fs = << >>

\* The sweep ends with what the order is entitled to.
LEMMA SweepEnds ==
  ASSUME NEW o \in Order, NEW ls \in Seq(OrderBookEntry), Ranked(o, ls), ~Rejected(o, ls),
         NEW fs \in Seq(ExecutionFill), NEW left \in Int, Swept(fs, o, ls, left),
         left > 0 => (Len(fs) < Len(ls) => ~Acceptable(o, ls[Len(fs) + 1]))
  PROVE  TotalAmount(Returned(o, left, fs)) = Entitled(o, ls)
<1>1. /\ o.side # "Undefined" /\ o.amount \in Int /\ Liquidity(o, ls) \in Nat
      /\ TotalAmount(fs) \in Nat
  BY OfferElements, FillElements DEF Rejected, NothingToMatch, Order
<1>2. TotalAmount(<< >>) = 0
  <2>1. Amounts(<< >>) = << >>
    BY DEF Amounts
  <2> QED BY <2>1, TotalEmpty DEF TotalAmount
<1>3. CASE left > 0
  <2>1. TotalAmount(fs) = Liquidity(o, ls)
    BY <1>1, <1>3, SweepTakesAll DEF Swept
  <2>2. o.amount > Liquidity(o, ls)
    BY <1>1, <1>3, <2>1 DEF Swept
  <2>3. o.order_type # "LimitFok"
    BY <1>1, <2>2, AvailableIsEnough DEF Rejected
  <2>4. Entitled(o, ls) = IF AllOrNothing(o) THEN 0 ELSE Liquidity(o, ls)
    BY <1>1, <2>2 DEF Entitled, Wanted
  <2> QED BY <1>2, <1>3, <2>1, <2>3, <2>4 DEF Returned, AllOrNothing
<1>4. CASE left = 0
  <2>1. o.amount = TotalAmount(fs) /\ TotalAmount(fs) <= Liquidity(o, ls)
    BY <1>1, <1>4, SweepWithinLiquidity DEF Swept
  <2>2. Entitled(o, ls) = o.amount
    BY <1>1, <2>1 DEF Entitled, Wanted
  <2> QED BY <1>4, <2>1, <2>2 DEF Returned
<1>5. CASE left < 0
  <2>1. fs = << >> /\ TotalAmount(fs) = 0 /\ o.amount = left
    BY <1>2, <1>5 DEF Swept
  <2>2. Entitled(o, ls) = 0
    BY <1>1, <1>5, <2>1 DEF Entitled, Wanted
  <2> QED BY <1>5, <2>1, <2>2 DEF Returned
<1> QED BY <1>3, <1>4, <1>5

(* The inductive invariant of the executors on sorted books.               *)
SweepInv ==
  /\ OrdersTypeOK
  /\ exec # "idle" => Ranked(order, levels)
  /\ exec = "sweep" => ~Rejected(order, levels) /\ Swept(fills, order, levels, remaining)
  /\ exec = "done" => Greedy(fills, order, levels) /\ TotalAmount(fills) = Entitled(order, levels)

\* Nothing taken yet.
LEMMA NothingSwept ==
  ASSUME NEW o \in Order, NEW ls \in Seq(OrderBookEntry)
  PROVE  Swept(<< >>, o, ls, o.amount) /\ TotalAmount(<< >>) = 0
<1>1. Amounts(<< >>) = << >>
  BY DEF Amounts
<1>2. TotalAmount(<< >>) = 0
  BY <1>1, TotalEmpty DEF TotalAmount
<1>3. o.amount \in Int /\ Len(<< >>) = 0 /\ Len(ls) \in Nat
  BY DEF Order
<1>4. o.amount + TotalAmount(<< >>) = o.amount
  BY <1>2, <1>3
<1> QED BY <1>2, <1>3, <1>4 DEF Swept, Greedy

LEMMA ExecuteOrderSweep ==
  ASSUME NEW o \in Order, NEW b \in LOBData, SortedBook(b), ExecuteOrder(o, b)
  PROVE  SweepInv'
<1> DEFINE ls == Levels(o, b)
<1>1. OrdersTypeOK' /\ ls \in Seq(OrderBookEntry) /\ Ranked(o, ls)
  BY ExecuteOrderType, LevelsType, SortedIsRanked
<1>2. /\ order' = o /\ levels' = ls /\ remaining' = o.amount /\ fills' = << >>
      /\ exec' = IF Rejected(o, ls) THEN "done" ELSE "sweep"
  BY DEF ExecuteOrder
<1> HIDE DEF ls
<1>3. Swept(<< >>, o, ls, o.amount) /\ Greedy(<< >>, o, ls) /\ TotalAmount(<< >>) = 0
  BY <1>1, NothingSwept DEF Swept
<1>4. Rejected(o, ls) => Entitled(o, ls) = 0
  BY <1>1, RejectedHasNone
<1> QED BY <1>1, <1>2, <1>3, <1>4 DEF SweepInv

LEMMA TakeLevelSweep ==
  ASSUME SweepInv, TakeLevel
  PROVE  SweepInv'
<1> DEFINE n    == Len(fills)
           take == Smaller(remaining, levels[Cursor].amount)
           fill == [amount |-> take, price |-> levels[Cursor].price]
<1>1. /\ OrdersTypeOK /\ exec = "sweep" /\ Ranked(order, levels) /\ ~Rejected(order, levels)
      /\ Swept(fills, order, levels, remaining)
      /\ order \in Order /\ levels \in Seq(OrderBookEntry) /\ fills \in Seq(ExecutionFill)
      /\ remaining \in Int /\ order.amount \in Int
  BY DEF SweepInv, TakeLevel, OrdersTypeOK, Order
<1>2. /\ Cursor = n + 1 /\ n \in Nat /\ Len(levels) \in Nat /\ n + 1 <= Len(levels)
      /\ Acceptable(order, levels[n + 1]) /\ remaining > 0
      /\ fills' = Append(fills, fill) /\ remaining' = remaining - take
      /\ UNCHANGED <<exec, order, levels>>
  BY <1>1 DEF TakeLevel, SweepGoesOn, Cursor
<1>3. /\ take \in Positive /\ take <= remaining /\ take <= levels[n + 1].amount
      /\ remaining - take > 0 => take = levels[n + 1].amount
      /\ fill \in ExecutionFill /\ fill.amount = take /\ fill.price = levels[n + 1].price
  <2>1. levels[n + 1].amount \in Positive /\ levels[n + 1].price \in Positive
    BY <1>1, <1>2, LevelElements
  <2>2. take = IF remaining < levels[n + 1].amount THEN remaining ELSE levels[n + 1].amount
    BY <1>2 DEF Smaller
  <2> HIDE DEF take
  <2>3. take \in Positive /\ fill.amount = take
    BY <1>1, <1>2, <2>1, <2>2 DEF Positive
  <2> QED BY <1>1, <1>2, <2>1, <2>2, <2>3 DEF Positive, ExecutionFill
<1> HIDE DEF fill, take
<1>4. /\ Len(fills') = n + 1 /\ fills'[n + 1] = fill
      /\ \A k \in 1..n : fills'[k] = fills[k]
  BY <1>1, <1>2
<1>5. OrdersTypeOK'
  BY <1>1, TakeLevelType
<1>6. TotalAmount(fills') = TotalAmount(fills) + take /\ TotalAmount(fills) \in Nat
  BY <1>1, <1>2, <1>3, FillAppended, FillElements
<1>7. \A k \in 1..n : fills[k].amount = levels[k].amount
  BY <1>1, <1>2 DEF Swept
<1>8. Greedy(fills', order, levels)
  <2>1. ASSUME NEW k \in 1..Len(fills')
        PROVE  /\ Acceptable(order, levels[k]) /\ fills'[k].price = levels[k].price
               /\ fills'[k].amount <= levels[k].amount
               /\ k < Len(fills') => fills'[k].amount = levels[k].amount
    <3>1. CASE k = n + 1
      BY <1>2, <1>3, <1>4, <3>1
    <3>2. CASE k \in 1..n
      BY <1>1, <1>4, <1>7, <3>2 DEF Swept, Greedy
    <3> QED BY <1>2, <1>4, <3>1, <3>2
  <2> QED BY <1>2, <1>4, <2>1 DEF Greedy
<1>9. Swept(fills', order, levels, remaining - take)
  <2>1. (remaining - take) + TotalAmount(fills') = order.amount
    BY <1>1, <1>3, <1>6 DEF Swept, Positive
  <2>2. ASSUME remaining - take > 0, NEW k \in 1..Len(fills')
        PROVE  fills'[k].amount = levels[k].amount
    BY <1>2, <1>3, <1>4, <1>7, <2>2
  <2>3. ~(remaining - take < 0)
    BY <1>1, <1>3 DEF Positive
  <2> QED BY <1>8, <2>1, <2>2, <2>3 DEF Swept
<1> QED BY <1>1, <1>2, <1>5, <1>9 DEF SweepInv

LEMMA EndSweepSweep ==
  ASSUME SweepInv, EndSweep
  PROVE  SweepInv'
<1>1. /\ OrdersTypeOK /\ Ranked(order, levels) /\ ~Rejected(order, levels)
      /\ Swept(fills, order, levels, remaining)
      /\ order \in Order /\ levels \in Seq(OrderBookEntry) /\ fills \in Seq(ExecutionFill)
      /\ remaining \in Int
  BY DEF SweepInv, EndSweep, OrdersTypeOK
<1>2. /\ exec' = "done" /\ fills' = Returned(order, remaining, fills)
      /\ UNCHANGED <<order, levels, remaining>> /\ ~SweepGoesOn
  BY DEF EndSweep
<1>3. remaining > 0 => (Len(fills) < Len(levels) => ~Acceptable(order, levels[Len(fills) + 1]))
  BY <1>1, <1>2 DEF SweepGoesOn, Cursor
<1>4. TotalAmount(fills') = Entitled(order, levels)
  BY <1>1, <1>2, <1>3, SweepEnds
<1>5. Greedy(fills', order, levels)
  BY <1>1, <1>2, NothingSwept DEF Returned, Swept
<1> QED BY <1>1, <1>2, <1>4, <1>5, EndSweepType DEF SweepInv

LEMMA ReturnSweep == ASSUME SweepInv, Return PROVE SweepInv'
BY ReturnType DEF SweepInv, Return

LEMMA SameSweep == ASSUME SweepInv, UNCHANGED ordersVars PROVE SweepInv'
BY DEF SweepInv, ordersVars, OrdersTypeOK

(* On sorted books the sweep is as it should be in every state.            *)
THEOREM SweepInvInductive ==
  ASSUME SortedBooks PROVE OrdersSpec => []SweepInv
<1>1. OrdersInit => SweepInv
  BY NoCallType DEF OrdersInit, OrdersTypeOK, SweepInv
<1>2. SweepInv /\ [OrdersNext]_ordersVars => SweepInv'
  <2> SUFFICES ASSUME SweepInv, [OrdersNext]_ordersVars
               PROVE  SweepInv'
    OBVIOUS
  <2>1. ASSUME NEW o \in OrderSet, NEW b \in Books, ExecuteOrder(o, b)
        PROVE  SweepInv'
    BY <2>1, ExecuteOrderSweep, OrdersAssumption, BooksAssumption DEF SortedBooks
  <2> QED BY <2>1, TakeLevelSweep, EndSweepSweep, ReturnSweep, SameSweep DEF OrdersNext
<1> QED BY <1>1, <1>2, PTL DEF OrdersSpec

(* Each type of order obtains on sorted books the quantity it promises:    *)
(* fill-or-kill and market buy orders all or nothing, the others whatever  *)
(* the levels within their limit hold.                                     *)
THEOREM OrdersObtainWhatTheyPromise ==
  ASSUME SortedBooks PROVE OrdersSpec => []QuantityAsPromised
<1>1. SweepInv => QuantityAsPromised
  BY DEF SweepInv, QuantityAsPromised
<1> QED BY <1>1, SweepInvInductive, PTL

----------------------------------------------------------------------------
(* What the fills cost.                                                    *)

\* Taking more of a level that is no dearer than c, less what c a unit would
\* cost, costs no more; and no less of one that is no cheaper.
LEMMA MoreOfTheCheaper ==
  ASSUME NEW a \in Int, NEW g \in Int, NEW p \in Int, NEW c \in Int, a <= g
  PROVE  /\ p <= c => g * p - c * g <= a * p - c * a
         /\ p >= c => g * p - c * g >= a * p - c * a
<1> DEFINE u  == g - a
           gp == g * p
           gc == g * c
           ap == a * p
           ac == a * c
<1>1. /\ u \in Nat /\ gp \in Int /\ gc \in Int /\ ap \in Int /\ ac \in Int
      /\ c * g = gc /\ c * a = ac
  BY Distributes
<1>2. u * p = gp - ap /\ u * c = gc - ac
  BY Distributes
<1>3. ASSUME NEW v \in Nat, NEW w \in Int, NEW x \in Int
      PROVE  (v = w - x => u * w - u * x >= 0)
    <2> HIDE DEF u
    <2>1. SUFFICES ASSUME v = w - x PROVE u * w - u * x >= 0
      OBVIOUS
    <2>2. u * v \in Nat
      BY <1>1, ProductNat
    <2>3. (w - x) * u = w * u - x * u /\ w * u = u * w /\ x * u = u * x /\ v * u = u * v
      BY <1>1, Distributes
    <2> QED BY <2>1, <2>2, <2>3
<1> DEFINE up == u * p
           uc == u * c
<1>4. p <= c => uc - up >= 0
  <2>1. p <= c => c - p \in Nat
    OBVIOUS
  <2> QED BY <1>3, <2>1
<1>5. p >= c => up - uc >= 0
  <2>1. p >= c => p - c \in Nat
    OBVIOUS
  <2> QED BY <1>3, <2>1
<1>6. up = gp - ap /\ uc = gc - ac
  BY <1>2
<1> HIDE DEF u, up, uc
<1>7. /\ p <= c => gp - gc <= ap - ac
      /\ p >= c => gp - gc >= ap - ac
  <2> HIDE DEF gp, gc, ap, ac
  <2> QED BY <1>1, <1>4, <1>5, <1>6
<1>8. gp - gc = g * p - c * g /\ ap - ac = a * p - c * a
  BY <1>1
<1> QED BY <1>7, <1>8

(* The fills of a sweep are one way to split what they amount to.          *)
LEMMA GreedyIsSplit ==
  ASSUME NEW o \in Order, NEW ls \in Seq(OrderBookEntry), NEW fs \in Seq(ExecutionFill),
         Greedy(fs, o, ls)
  PROVE  /\ Parts(fs, Len(ls)) \in Splits(o, ls, TotalAmount(fs))
         /\ SplitCost(ls, Parts(fs, Len(ls))) = TotalCost(fs)
<1> DEFINE n  == Len(ls)
           g  == Parts(fs, n)
           xs == [k \in 1..n |-> g[k] * ls[k].price]
<1>1. /\ n \in Nat /\ Len(fs) \in Nat /\ Len(fs) <= n
      /\ \A k \in 1..Len(fs) : /\ Acceptable(o, ls[k]) /\ fs[k].price = ls[k].price
                               /\ fs[k].amount <= ls[k].amount
  BY DEF Greedy
<1>2. g \in Seq(Nat) /\ g \in Seq(Int) /\ Len(g) = n /\ Total(g) = TotalAmount(fs)
  BY <1>1, PartsTotal
<1>3. \A k \in 1..n : g[k] = IF k <= Len(fs) THEN fs[k].amount ELSE 0
  BY DEF Parts
<1> HIDE DEF g
<1>4. ASSUME NEW k \in 1..n
      PROVE  /\ g[k] \in 0..TotalAmount(fs) /\ g[k] <= Offered(o, ls[k])
             /\ xs[k] = IF k <= Len(fs) THEN Costs(fs)[k] ELSE 0
             /\ xs[k] \in Int
  <2>1. /\ ls[k].price \in Nat /\ ls[k].amount \in Nat /\ g[k] \in Nat
        /\ Offered(o, ls[k]) \in Nat
    <3>1. ls[k].price \in Nat /\ ls[k].amount \in Nat
      BY LevelElements DEF Positive
    <3>2. g[k] \in Nat
      BY <1>2
    <3> QED BY <3>1, <3>2, OfferElements
  <2>2. g[k] \in 0..TotalAmount(fs)
    <3>1. k \in 1..Len(g) /\ TotalAmount(fs) \in Nat
      BY <1>2, FillElements
    <3>2. g[k] <= Total(g)
      BY <1>2, <3>1, TotalAbove
    <3> QED BY <1>2, <2>1, <3>1, <3>2
  <2>3. CASE k <= Len(fs)
    <3>1. k \in 1..Len(fs)
      BY <1>1, <2>3
    <3>2. g[k] = fs[k].amount /\ g[k] <= Offered(o, ls[k])
      BY <1>1, <1>3, <2>3, <3>1 DEF Offered
    <3>3. xs[k] = g[k] * ls[k].price
      OBVIOUS
    <3>4. Costs(fs)[k] = fs[k].amount * fs[k].price /\ Costs(fs)[k] \in Int
      BY <3>1, FillElements
    <3>5. g[k] = fs[k].amount /\ fs[k].price = ls[k].price
      BY <1>1, <3>1, <3>2
    <3>6. xs[k] = Costs(fs)[k]
      BY <3>3, <3>4, <3>5, Zenon
    <3> HIDE DEF xs
    <3> QED BY <2>2, <2>3, <3>2, <3>4, <3>6
  <2>4. CASE ~(k <= Len(fs))
    BY <1>3, <2>1, <2>2, <2>4
  <2> QED BY <2>3, <2>4
<1>5. g \in Splits(o, ls, TotalAmount(fs))
  <2>1. g \in [1..n -> 0..TotalAmount(fs)]
    BY <1>2, <1>4
  <2> QED BY <1>2, <1>4, <2>1 DEF Splits
<1>6. xs \in Seq(Int) /\ Len(xs) = n
  BY <1>1, <1>4
<1>7. SplitCost(ls, g) = Total(xs)
  BY DEF SplitCost
<1> HIDE DEF xs
<1>8. Total(xs) = Total(Costs(fs))
  <2>1. Costs(fs) \in Seq(Int) /\ Len(Costs(fs)) = Len(fs)
    BY FillElements
  <2>2. ASSUME NEW k \in 1..Len(Costs(fs)) PROVE xs[k] = Costs(fs)[k]
    <3>1. k \in 1..n /\ k <= Len(fs)
      BY <1>1, <2>1
    <3> QED BY <1>4, <3>1
  <2>3. \A k \in 1..Len(xs) : k > Len(Costs(fs)) => xs[k] = 0
    BY <1>1, <1>4, <1>6, <2>1
  <2> QED BY <1>1, <1>6, <2>1, <2>2, <2>3, TotalPadded
<1> QED BY <1>5, <1>7, <1>8 DEF TotalCost, g

\* What a split costs above the price c, level by level.
Above(ls, a, c) == [k \in 1..Len(ls) |-> a[k] * ls[k].price - c * a[k]]

LEMMA AboveTotal ==
  ASSUME NEW ls \in Seq(OrderBookEntry), NEW a \in Seq(Int), Len(a) = Len(ls), NEW c \in Int
  PROVE  /\ Above(ls, a, c) \in Seq(Int) /\ Len(Above(ls, a, c)) = Len(ls)
         /\ Total(Above(ls, a, c)) = SplitCost(ls, a) - c * Total(a)
         /\ SplitCost(ls, a) \in Int
<1> DEFINE n  == Len(ls)
           xs == [k \in 1..n |-> a[k] * ls[k].price]
           zs == Above(ls, a, c)
<1>1. ASSUME NEW k \in 1..n
      PROVE  a[k] * ls[k].price \in Int /\ c * a[k] \in Int
  <2>1. a[k] \in Int /\ ls[k].price \in Int
    BY LevelElements DEF Positive
  <2> DEFINE x == a[k]
             y == ls[k].price
  <2>2. x \in Int /\ y \in Int
    BY <2>1
  <2> HIDE DEF x, y
  <2>3. x * y \in Int /\ c * x \in Int
    BY <2>2, Distributes
  <2> QED BY <2>3 DEF x, y
<1>2. xs \in Seq(Int) /\ Len(xs) = n /\ \A k \in 1..n : xs[k] = a[k] * ls[k].price
  BY <1>1
<1>3. zs \in Seq(Int) /\ Len(zs) = n
  <2>1. \A k \in 1..n : a[k] * ls[k].price - c * a[k] \in Int
    BY <1>1
  <2> QED BY <2>1 DEF Above
<1>4. \A k \in 1..n : zs[k] = xs[k] - c * a[k]
  BY DEF Above
<1>5. SplitCost(ls, a) = Total(xs)
  BY DEF SplitCost
<1> HIDE DEF xs, zs
<1>6. Total(zs) = Total(xs) - c * Total(a)
  BY <1>2, <1>3, <1>4, TotalCombined
<1>7. Total(xs) \in Int
  BY <1>2, TotalInt
<1> QED BY <1>3, <1>5, <1>6, <1>7 DEF zs

(* On ranked levels no split of the same quantity is better.  The price of *)
(* the last level taken separates the levels worth taking from the others: *)
(* against it each level contributes its best to the fills.                *)
LEMMA GreedyIsBest ==
  ASSUME NEW o \in Order, NEW ls \in Seq(OrderBookEntry), NEW fs \in Seq(ExecutionFill),
         Ranked(o, ls), Greedy(fs, o, ls), NEW a \in Splits(o, ls, TotalAmount(fs))
  PROVE  IF o.side = "Buy" THEN TotalCost(fs) <= SplitCost(ls, a)
                           ELSE TotalCost(fs) >= SplitCost(ls, a)
<1> DEFINE n == Len(ls)
           m == Len(fs)
           q == TotalAmount(fs)
           g == Parts(fs, n)
<1>1. /\ n \in Nat /\ m \in Nat /\ m <= n
      /\ \A k \in 1..m : /\ Acceptable(o, ls[k])
                         /\ k < m => fs[k].amount = ls[k].amount
  BY DEF Greedy
<1>2. q \in Nat
  BY FillElements
<1>3. /\ a \in Seq(Int) /\ Len(a) = n /\ Total(a) = q
      /\ \A k \in 1..n : a[k] \in 0..q /\ a[k] <= Offered(o, ls[k])
  <2>1. a \in [1..n -> 0..q] /\ Total(a) = q /\ \A k \in 1..n : a[k] <= Offered(o, ls[k])
    BY DEF Splits
  <2> QED BY <1>1, <1>2, <2>1
<1>4. g \in Seq(Int) /\ Len(g) = n /\ Total(g) = q /\ SplitCost(ls, g) = TotalCost(fs)
  BY <1>1, PartsTotal, GreedyIsSplit
<1>5. \A k \in 1..n : g[k] = IF k <= m THEN fs[k].amount ELSE 0
  BY DEF Parts
<1> HIDE DEF g
<1>6. CASE m = 0
  <2>1. q = 0
    <3>1. \A k \in 1..Len(g) : g[k] = 0
      BY <1>1, <1>4, <1>5, <1>6
    <3> QED BY <1>4, <3>1, TotalZeros
  <2>2. ASSUME NEW k \in 1..n PROVE a[k] = g[k]
    BY <1>1, <1>3, <1>5, <1>6, <2>1
  <2>3. a = g
    <3>1. a = [k \in 1..n |-> a[k]] /\ g = [k \in 1..n |-> g[k]]
      BY <1>3, <1>4
    <3> QED BY <2>2, <3>1
  <2>4. SplitCost(ls, a) \in Int
    BY <1>3, AboveTotal, 0 \in Int
  <2> QED BY <1>4, <2>3, <2>4
<1>7. CASE m # 0
  <2> DEFINE c  == ls[m].price
             zg == Above(ls, g, c)
             za == Above(ls, a, c)
             cq == c * q
  <2>1. m \in 1..n /\ m \in 1..m /\ c \in Int
    BY <1>1, <1>7, LevelElements DEF Positive
  <2>2. /\ zg \in Seq(Int) /\ Len(zg) = n /\ za \in Seq(Int) /\ Len(za) = n
        /\ Total(zg) = SplitCost(ls, g) - c * q /\ Total(za) = SplitCost(ls, a) - c * q
        /\ SplitCost(ls, g) \in Int /\ SplitCost(ls, a) \in Int
    <3>1. a \in Seq(Int) /\ Len(a) = Len(ls) /\ Total(a) = q
      BY <1>3
    <3>2. g \in Seq(Int) /\ Len(g) = Len(ls) /\ Total(g) = q
      BY <1>4
    <3>3. /\ za \in Seq(Int) /\ Len(za) = n /\ SplitCost(ls, a) \in Int
          /\ Total(za) = SplitCost(ls, a) - c * Total(a)
      BY <2>1, <3>1, AboveTotal, Zenon
    <3>4. /\ zg \in Seq(Int) /\ Len(zg) = n /\ SplitCost(ls, g) \in Int
          /\ Total(zg) = SplitCost(ls, g) - c * Total(g)
      BY <2>1, <3>2, AboveTotal, Zenon
    <3> QED BY <3>1, <3>2, <3>3, <3>4, Zenon
  <2>3. ASSUME NEW k \in 1..n
        PROVE  IF o.side = "Buy" THEN zg[k] <= za[k] ELSE zg[k] >= za[k]
    <3> DEFINE p == ls[k].price
               x == a[k]
               y == g[k]
    <3>1. /\ zg[k] = y * p - c * y /\ za[k] = x * p - c * x
      BY DEF Above
    <3>2. /\ p \in Int /\ x \in Int /\ y \in Int /\ x >= 0 /\ x <= Offered(o, ls[k])
          /\ Offered(o, ls[k]) = IF Acceptable(o, ls[k]) THEN ls[k].amount ELSE 0
      BY <1>3, <1>4, LevelElements DEF Positive, Offered
    <3>3. CASE k < m
      <4>1. k \in 1..m /\ y = ls[k].amount /\ Acceptable(o, ls[k])
        BY <1>1, <1>5, <3>3
      <4>2. x <= y
        BY <3>2, <4>1
      <4>3. IF o.side = "Buy" THEN p <= c ELSE p >= c
        BY <2>1, <3>3 DEF Ranked
      <4> HIDE DEF p, x, y, c, zg, za
      <4>4. /\ p <= c => y * p - c * y <= x * p - c * x
            /\ p >= c => y * p - c * y >= x * p - c * x
        BY <2>1, <3>2, <4>2, MoreOfTheCheaper
      <4> QED BY <3>1, <4>3, <4>4
    <3>4. CASE k = m
      <4>1. p = c
        BY <3>4
      <4> HIDE DEF p, x, y, c, zg, za
      <4>2. /\ y * p = c * y /\ x * p = c * x /\ c * y \in Int /\ c * x \in Int
        BY <2>1, <3>2, <4>1, Distributes
      <4>3. y * p - c * y = 0 /\ x * p - c * x = 0
        BY <4>2
      <4> QED BY <3>1, <4>3
    <3>5. CASE k > m
      <4>1. y = 0 /\ y <= x
        BY <1>1, <1>5, <3>2, <3>5
      <4>3. IF o.side = "Buy" THEN c <= p ELSE c >= p
        BY <2>1, <3>5 DEF Ranked
      <4> HIDE DEF p, x, y, c, zg, za
      <4>4. /\ p <= c => x * p - c * x <= y * p - c * y
            /\ p >= c => x * p - c * x >= y * p - c * y
        BY <2>1, <3>2, <4>1, MoreOfTheCheaper
      <4>5. /\ c <= p => zg[k] <= za[k]
            /\ c >= p => zg[k] >= za[k]
        <5> DEFINE ny == y * p - c * y
                   nx == x * p - c * x
        <5>1. /\ p <= c => nx <= ny
              /\ p >= c => nx >= ny
              /\ zg[k] = ny /\ za[k] = nx
          BY <3>1, <4>4
        <5>2. ny \in Int /\ nx \in Int
          BY <2>1, <3>2, Distributes
        <5> HIDE DEF nx, ny
        <5> QED BY <2>1, <3>2, <5>1, <5>2
      <4> QED BY <4>3, <4>5
    <3>6. m \in Int /\ k \in Int
      BY <1>1
    <3> QED BY <3>3, <3>4, <3>5, <3>6
  <2>4. cq \in Int
    <3> HIDE DEF c
    <3> QED BY <1>2, <2>1, Distributes
  <2>5. Total(zg) = SplitCost(ls, g) - cq /\ Total(za) = SplitCost(ls, a) - cq
    BY <2>2
  <2> HIDE DEF zg, za, cq
  <2>6. CASE o.side = "Buy"
    <3>1. \A k \in 1..Len(zg) : zg[k] <= za[k]
      BY <2>2, <2>3, <2>6
    <3>2. Total(zg) <= Total(za)
      BY <2>2, <3>1, TotalMonotone
    <3> QED BY <1>4, <2>2, <2>4, <2>5, <2>6, <3>2
  <2>7. CASE o.side # "Buy"
    <3>1. \A k \in 1..Len(za) : za[k] <= zg[k]
      <4>1. \A k \in 1..n : za[k] \in Int /\ zg[k] \in Int
        BY <2>2
      <4> QED BY <2>2, <2>3, <2>7, <4>1
    <3>2. Total(za) <= Total(zg)
      BY <2>2, <3>1, TotalMonotone
    <3> QED BY <1>4, <2>2, <2>4, <2>5, <2>7, <3>2
  <2> QED BY <2>6, <2>7
<1> QED BY <1>6, <1>7

(* The fills of an executed order are a way to split their quantity over   *)
(* the levels within its limit, and on sorted books none is better for the *)
(* trader.                                                                 *)
THEOREM SweepExecutesBest ==
  ASSUME SortedBooks PROVE OrdersSpec => []BestExecution
<1>1. SweepInv => BestExecution
  <2> SUFFICES ASSUME SweepInv, exec = "done"
               PROVE  LET costs == {SplitCost(levels, a) :
                                      a \in Splits(order, levels, TotalAmount(fills))}
                          mine  == TotalCost(fills)
                      IN  /\ mine \in costs
                          /\ \A c \in costs : IF order.side = "Buy" THEN mine <= c ELSE mine >= c
    BY DEF BestExecution
  <2>1. /\ order \in Order /\ levels \in Seq(OrderBookEntry) /\ fills \in Seq(ExecutionFill)
        /\ Ranked(order, levels) /\ Greedy(fills, order, levels)
    BY DEF SweepInv, OrdersTypeOK
  <2>2. /\ Parts(fills, Len(levels)) \in Splits(order, levels, TotalAmount(fills))
        /\ SplitCost(levels, Parts(fills, Len(levels))) = TotalCost(fills)
    BY <2>1, GreedyIsSplit
  <2>3. \A a \in Splits(order, levels, TotalAmount(fills)) :
          IF order.side = "Buy" THEN TotalCost(fills) <= SplitCost(levels, a)
                                ELSE TotalCost(fills) >= SplitCost(levels, a)
    BY <2>1, GreedyIsBest
  <2> QED BY <2>2, <2>3
<1> QED BY <1>1, SweepInvInductive, PTL
=============================================================================
