---------------------------- MODULE BacktestEngine ----------------------------
(***************************************************************************)
(* The backtest engine (src/backtesting_engine.cpp): the calls of its user *)
(* and the loop of run(), over the market engine, the executors and the    *)
(* portfolio.  The strategy of Spec is the most general one: at each tick  *)
(* on_tick returns any order of OrderSet or none.                          *)
(***************************************************************************)
EXTENDS MarketEngine

CONSTANTS
  DataSets,   \* what add_data may be given
  MaxOrders,  \* bound: the strategies create at most this many orders
  MaxRuns     \* bound: run() is called at most this often

ASSUME DataSetsAssumption == DataSets \subseteq Seq(Books)
ASSUME BoundsAssumption   == MaxOrders \in Nat /\ MaxRuns \in Nat

VARIABLES
  linked,        \* portfolio_ is not null
  has_strategy,  \* p_strategy_ is not null
  data,          \* data_
  run,           \* "idle", where run() is: "tick", "trade", "value"; or "crashed"
  i,             \* the index of the loop
  result,        \* how the last call of run() ended
  runs           \* history variable: the calls of run()

runVars == <<linked, has_strategy, data, run, i, result, runs>>
vars == <<ordersVars, portfolioVars, engineVars, runVars>>

----------------------------------------------------------------------------
Init ==
  /\ OrdersInit
  /\ PortfolioInit
  /\ EngineInit
  /\ linked = FALSE
  /\ has_strategy = FALSE
  /\ data = << >>
  /\ run = "idle"
  /\ i = 1
  /\ result = "none"
  /\ runs = 0

LinkPortfolio(balances) ==
  /\ run = "idle"
  /\ Create(balances)
  /\ linked' = TRUE
  /\ UNCHANGED <<ordersVars, engineVars, has_strategy, data, run, i, result, runs>>

AddData(d) ==
  /\ run = "idle"
  /\ data' = d
  /\ UNCHANGED <<ordersVars, portfolioVars, engineVars, linked, has_strategy, run, i, result, runs>>

SetStrategy ==
  /\ run = "idle"
  /\ has_strategy' = TRUE
  /\ UNCHANGED <<ordersVars, portfolioVars, engineVars, linked, data, run, i, result, runs>>

\* run() ends; its index goes out of scope.
Finish(r) ==
  /\ run' = "idle"
  /\ result' = r
  /\ i' = 1
  /\ UNCHANGED <<linked, has_strategy, data, runs>>

RunWithoutStrategy ==
  /\ run = "idle"
  /\ runs < MaxRuns
  /\ ~has_strategy
  /\ runs' = runs + 1
  /\ result' = "false"
  /\ UNCHANGED <<ordersVars, portfolioVars, engineVars, linked, has_strategy, data, run, i>>

Run ==
  /\ run = "idle"
  /\ runs < MaxRuns
  /\ has_strategy
  /\ runs' = runs + 1
  /\ run' = "tick"
  /\ UNCHANGED <<ordersVars, portfolioVars, engineVars, linked, has_strategy, data, i, result>>

----------------------------------------------------------------------------
(* The body of the loop.                                                   *)

\* on_tick returns an optional: << >> for none, <<o>> for the order o.
Answer(answer) ==
  /\ run = "tick"
  /\ i <= Len(data)
  /\ IF answer = << >> THEN UNCHANGED engineVars ELSE AddOrder(answer[1])
  /\ run' = "trade"
  /\ UNCHANGED <<ordersVars, linked, has_strategy, data, i, result, runs>>

OnTick(answer) == Answer(answer) /\ UNCHANGED portfolioVars

StartTick ==
  /\ run = "trade"
  /\ BeginTick(data[i])
  /\ run' = "value"
  /\ UNCHANGED <<ordersVars, portfolioVars, linked, has_strategy, data, i, result, runs>>

\* The steps of tick().  Only Trade and Keep after a refusal reach the
\* portfolio; without one they are the null dereference of Crash.
EngineStep ==
  /\ \/ CallExecutor
     \/ RunExecutor
     \/ Keep /\ (AsksPortfolio => linked)
     \/ Trade /\ linked
     \/ RunPortfolio
     \/ DropExecuted
     \/ EraseRemoved
  /\ UNCHANGED runVars

Exception == Throw /\ Finish("exception")

TickDone == run = "value" /\ engine = "idle"

OneSided(b) == b.bids = << >> \/ b.asks = << >>

InvalidData ==
  /\ TickDone
  /\ OneSided(data[i])
  /\ Finish("false")
  /\ UNCHANGED <<ordersVars, portfolioVars, engineVars>>

RecordValue ==
  /\ TickDone
  /\ ~OneSided(data[i])
  /\ linked
  /\ UpdatePortfolioValue(data[i].bids[1].price, data[i].asks[1].price)
  /\ i' = i + 1
  /\ run' = "tick"
  /\ UNCHANGED <<ordersVars, engineVars, linked, has_strategy, data, result, runs>>

EndOfData ==
  /\ run = "tick"
  /\ i > Len(data)
  /\ Finish("true")
  /\ UNCHANGED <<ordersVars, portfolioVars, engineVars>>

\* Nothing checks portfolio_: using it before link_portfolio ends the process.
Crash ==
  /\ ~linked
  /\ \/ AsksPortfolio
     \/ TickDone /\ ~OneSided(data[i])
  /\ run' = "crashed"
  /\ UNCHANGED <<ordersVars, portfolioVars, engineVars, linked, has_strategy, data, i, result, runs>>

----------------------------------------------------------------------------
UserCall ==
  \/ \E balances \in Openings : LinkPortfolio(balances)
  \/ \E d \in DataSets : AddData(d)
  \/ SetStrategy
  \/ RunWithoutStrategy
  \/ Run

\* What any strategy may answer.
Answers == {<< >>} \cup IF submitted < MaxOrders THEN {<<o>> : o \in OrderSet} ELSE {}

LoopStep ==
  \/ StartTick
  \/ EngineStep
  \/ Exception
  \/ InvalidData
  \/ RecordValue
  \/ EndOfData
  \/ Crash

RunStep == (\E answer \in Answers : OnTick(answer)) \/ LoopStep

Next == UserCall \/ RunStep

Spec == Init /\ [][Next]_vars

\* run() is straight-line sequential code: while it is running it takes its
\* next step.  Nothing obliges the user to call anything.
FairSpec == Spec /\ WF_vars(RunStep)
=============================================================================
