------------------------------ MODULE Crossover ------------------------------
(***************************************************************************)
(* The SMA crossover strategy of examples/custom_strategy.cpp over the     *)
(* backtest engine.  It is constructed with the portfolio that main links. *)
(* Prices are kept in halves of the price unit, averages as sums.          *)
(***************************************************************************)
EXTENDS BacktestProperties, StrategyBase

CONSTANTS
  FastWindow, SlowWindow,  \* fast_window_ and slow_window_
  RiskShare                \* 1 / risk_per_trade_

ASSUME WindowsAssumption == FastWindow \in Positive /\ SlowWindow \in Positive
ASSUME RiskAssumption    == RiskShare \in Positive
\* With bids but no asks the amount would be a division by zero.
ASSUME AsksAssumption    == \A b \in Books : b.asks = << >> => b.bids = << >>

VARIABLES
  fast_prices, slow_prices,
  position,  \* position_
  mids,      \* history variable: every mid price pushed
  created    \* history variable: how many orders the strategy created

crossoverVars == <<fast_prices, slow_prices, position, mids, created>>

----------------------------------------------------------------------------
NewStrategy ==
  /\ fast_prices' = << >>
  /\ slow_prices' = << >>
  /\ position' = 0
  /\ mids' = << >>
  /\ created' = 0

CrossoverInit ==
  /\ Init
  /\ fast_prices = << >>
  /\ slow_prices = << >>
  /\ position = 0
  /\ mids = << >>
  /\ created = 0

\* A new strategy keeps the portfolio it is given, so main links it first.
SetCrossover == linked /\ SetStrategy /\ NewStrategy

LinkFirst(balances) == ~has_strategy /\ LinkPortfolio(balances) /\ UNCHANGED crossoverVars

\* mid_price(), doubled.
Mid2(b) == BestBid(b) + BestAsk(b)

\* Mutant: a full window loses its newest price.
StaleWindow(prices, size, mid) == IF Len(prices) = size THEN prices ELSE Append(prices, mid)

Window(prices, size, mid) ==
  LET longer == Append(prices, mid) IN IF Len(longer) > size THEN Tail(longer) ELSE longer

PushMid ==
  /\ fast_prices' = Window(fast_prices, FastWindow, Mid2(data[i]))
  /\ slow_prices' = Window(slow_prices, SlowWindow, Mid2(data[i]))
  /\ mids' = Append(mids, Mid2(data[i]))

WindowsFull == Len(fast_prices') >= FastWindow /\ Len(slow_prices') >= SlowWindow

\* 1 where the fast average is above the slow one, -1 where it is below.
Trend(fast, slow) ==
  LET f == Total(fast) * Len(slow)
      s == Total(slow) * Len(fast)
  IN  IF f > s THEN 1 ELSE IF f < s THEN -1 ELSE 0

Ticking == run = "tick" /\ i <= Len(data)

\* amount_to_trade, rounded down to the unit of amounts.
Stake == cash \div (RiskShare * BestAsk(data[i]))

NoPrice ==
  /\ Ticking
  /\ Mid2(data[i]) <= 0
  /\ OnTick(<< >>)
  /\ UNCHANGED crossoverVars

WarmUp ==
  /\ Ticking
  /\ Mid2(data[i]) > 0
  /\ PushMid
  /\ ~WindowsFull
  /\ OnTick(<< >>)
  /\ UNCHANGED <<position, created>>

\* position_ follows the order created, whatever becomes of it; the value is
\* recorded once here, and again by run() when the tick is over.
Decide ==
  /\ Ticking
  /\ Mid2(data[i]) > 0
  /\ PushMid
  /\ WindowsFull
  /\ LET trend == Trend(fast_prices', slow_prices')
         b == data[i]
     IN  \/ /\ trend = 1 /\ position <= 0
            /\ Answer(<<CreateBuyOrder(b, Stake, BestAsk(b))>>)
            /\ position' = 1 /\ created' = created + 1
         \/ /\ trend = -1 /\ position >= 0
            /\ Answer(<<CreateSellOrder(b, Stake, BestBid(b))>>)
            /\ position' = -1 /\ created' = created + 1
         \/ /\ trend = 0 \/ trend = position
            /\ Answer(<< >>)
            /\ UNCHANGED <<position, created>>
  /\ IF positions # << >> THEN UpdatePortfolioValue(BestBid(data[i]), BestAsk(data[i]))
     ELSE UNCHANGED portfolioVars

CrossoverNext ==
  \/ \E balances \in Openings : LinkFirst(balances)
  \/ SetCrossover
  \/ NoPrice
  \/ WarmUp
  \/ Decide
  \/ /\ (\E d \in DataSets : AddData(d)) \/ RunWithoutStrategy \/ Run \/ LoopStep
     /\ UNCHANGED crossoverVars

CrossoverSpec == CrossoverInit /\ [][CrossoverNext]_<<vars, crossoverVars>>

----------------------------------------------------------------------------
\* The trend after n prices, and the last one there was, by the prices alone.
TrendAt(n) ==
  IF n < FastWindow \/ n < SlowWindow THEN 0
  ELSE Trend(SubSeq(mids, n - FastWindow + 1, n), SubSeq(mids, n - SlowWindow + 1, n))
LastTrend(n) ==
  LET trending == {k \in 1..n : TrendAt(k) # 0}
  IN  IF trending = {} THEN 0 ELSE TrendAt(Max(trending))

(* The windows, which live through several runs and skip snapshots without *)
(* a price, show the strategy the true trend: it creates one order at each *)
(* reversal of the trend of all prices so far, and no other.               *)
OrdersOnReversals ==
  /\ position = LastTrend(Len(mids))
  /\ created = Cardinality({n \in 1..Len(mids) : TrendAt(n) \notin {0, LastTrend(n - 1)}})

(* include/vaults/strategies.hpp:64 and :73 call the price given to the    *)
(* order helpers an "Optional limit price": an order created with one is   *)
(* never executed at a worse one.                                          *)
LimitPriceRespected ==
  AsksPortfolio /\ Affordable =>
    \A k \in 1..Len(fills) :
      IF order.side = "Buy" THEN fills[k].price <= order.price ELSE fills[k].price >= order.price
=============================================================================
