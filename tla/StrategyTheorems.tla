--------------------------- MODULE StrategyTheorems ---------------------------
(***************************************************************************)
(* The strategies that drive the engines, for every file of trades, every  *)
(* price and every window.  The replay is shown to be a backtest, so that  *)
(* the theorems about Spec hold of it, and to keep to the schedule of its  *)
(* file; the crossover strategy to create its orders on the reversals of   *)
(* the trend, and at no other time.                                        *)
(***************************************************************************)
EXTENDS TradesReplay, Crossover, BacktestTheorems, FiniteSetTheorems

----------------------------------------------------------------------------
(* Steps of the engines and of the loop of run() neither change what the   *)
(* strategy sees nor call it; a value is recorded when run() goes on to    *)
(* the next snapshot, and a call of run() that ends leaves no index.       *)
LEMMA LoopStepMoves ==
  ASSUME LoopStep
  PROVE  /\ data' = data /\ runs' = runs /\ submitted' = submitted
         /\ has_strategy' = has_strategy
         /\ Busy' => Busy /\ (i \in Nat => Ticked' = Ticked)
         /\ run' = "idle" => i' = 1 \/ (run = "idle" /\ i' = i)
<1>1. CASE StartTick
  BY <1>1 DEF StartTick, BeginTick, Busy, Ticked
<1>2. CASE EngineStep
  <2>1. submitted' = submitted
    BY <1>2 DEF EngineStep, CallExecutor, RunExecutor, Keep, Trade, RunPortfolio, DropExecuted,
                EraseRemoved, engineVars
  <2> QED BY <1>2, <2>1 DEF EngineStep, runVars, Busy, Ticked
<1>3. CASE Exception \/ InvalidData \/ EndOfData
  BY <1>3 DEF Exception, Throw, InvalidData, EndOfData, Finish, Busy, engineVars
<1>4. CASE RecordValue
  BY <1>4 DEF RecordValue, TickDone, Busy, Ticked, engineVars
<1>5. CASE Crash
  BY <1>5 DEF Crash, Busy, engineVars
<1> QED BY <1>1, <1>2, <1>3, <1>4, <1>5 DEF LoopStep

(* And whatever it answers, the loop's own variables keep their types.     *)
LEMMA RunTypesKept ==
  ASSUME RunTypeOK,
         UNCHANGED runVars \/ LoopStep \/ UserCall \/ \E answer : Answer(answer)
  PROVE  RunTypeOK'
<1>1. CASE UNCHANGED runVars
  BY <1>1 DEF runVars, RunTypeOK
<1>2. CASE LoopStep
  BY <1>2 DEF LoopStep, StartTick, EngineStep, Exception, InvalidData, RecordValue, EndOfData,
              Crash, Finish, runVars, RunTypeOK, Positive
<1>3. ASSUME NEW answer, Answer(answer) PROVE RunTypeOK'
  BY <1>3 DEF Answer, RunTypeOK
<1>4. ASSUME NEW d \in DataSets, AddData(d) PROVE RunTypeOK'
  <2>1. data' \in Seq(Books)
    BY <1>4, DataSetsAssumption DEF AddData
  <2> QED BY <1>4, <2>1 DEF AddData, RunTypeOK
<1>5. CASE Run \/ RunWithoutStrategy \/ SetStrategy \/ \E balances \in Openings : LinkPortfolio(balances)
  <2>1. /\ data' = data /\ i' = i /\ runs' \in {runs, runs + 1}
        /\ linked' \in {linked, TRUE} /\ has_strategy' \in {has_strategy, TRUE}
        /\ run' \in {run, "tick"} /\ result' \in {result, "false"}
    BY <1>5 DEF Run, RunWithoutStrategy, SetStrategy, LinkPortfolio
  <2>2. has_strategy' \in BOOLEAN /\ linked' \in BOOLEAN
    BY <2>1 DEF RunTypeOK
  <2>3. data' \in Seq(Books) /\ i' \in Positive /\ runs' \in Nat
    BY <2>1 DEF RunTypeOK
  <2>4. /\ run' \in {"idle", "tick", "trade", "value", "crashed"}
        /\ result' \in {"none", "true", "false", "exception"}
    BY <2>1 DEF RunTypeOK
  <2> QED BY <2>2, <2>3, <2>4 DEF RunTypeOK
<1> QED BY <1>1, <1>2, <1>3, <1>4, <1>5 DEF UserCall

----------------------------------------------------------------------------
(* The replay is a backtest.  The general backtest bounds the orders its   *)
(* strategies create; a replay stays within the bound because it creates   *)
(* at most one order for each snapshot of each call of run().              *)

\* What the constants of the replay and of the backtest have to share.
ReplayFits(longest) ==
  /\ \A file \in TradeFiles : \A k \in 1..Len(file) : ReplayOrder(file[k]) \in OrderSet
  /\ \A d \in DataSets : Len(d) <= longest
  /\ MaxRuns * longest <= MaxOrders

FileInv ==
  /\ trades \in Seq(TradeData)
  /\ trade_it \in Positive
  /\ \A k \in 1..Len(trades) : ReplayOrder(trades[k]) \in OrderSet

\* The calls of run() that have ended.
Ended == IF Busy THEN runs - 1 ELSE runs

OneEachTick(longest) ==
  /\ run = "idle" => i = 1
  /\ run = "tick" => i <= Len(data) + 1
  /\ Busy => runs > 0
  /\ runs <= MaxRuns
  /\ Len(data) <= longest
  /\ submitted \in Nat
  /\ submitted <= Ended * longest + IF Busy THEN Ticked ELSE 0

ReplayInv(longest) == AccountInv /\ PoolInv /\ FileInv /\ OneEachTick(longest)

LEMMA ReplayStarts ==
  ASSUME NEW longest \in Nat, ReplayInit
  PROVE  ReplayInv(longest)
<1>1. AccountInv /\ PoolInv
  BY AccountInit, PoolInit DEF ReplayInit, Init
<1>2. FileInv
  BY DEF ReplayInit, FileInv, Positive
<1>3. run = "idle" /\ i = 1 /\ runs = 0 /\ data = << >> /\ submitted = 0
  BY DEF ReplayInit, Init, EngineInit
<1>4. 0 * longest = 0 /\ MaxRuns \in Nat
  BY BoundsAssumption
<1>5. OneEachTick(longest)
  BY <1>3, <1>4 DEF OneEachTick, Busy, Ended
<1> QED BY <1>1, <1>2, <1>5 DEF ReplayInv

\* Within a call of run() there is room for the order of one more tick.
LEMMA RoomForOne ==
  ASSUME NEW longest \in Nat, ReplayFits(longest), ReplayInv(longest), run = "tick", i <= Len(data)
  PROVE  submitted < MaxOrders
<1>1. Busy /\ Ticked = i - 1 /\ i \in Nat /\ Len(data) \in Nat /\ i - 1 < longest
  BY DEF ReplayInv, OneEachTick, AccountInv, RunTypeOK, Busy, Ticked, Positive
<1>2. runs \in Nat /\ runs > 0 /\ runs <= MaxRuns /\ Ended = runs - 1
  BY <1>1 DEF ReplayInv, OneEachTick, AccountInv, RunTypeOK, Ended
<1>3. submitted \in Nat /\ submitted <= (runs - 1) * longest + (i - 1)
  BY <1>1, <1>2 DEF ReplayInv, OneEachTick
<1>4. (runs - 1) * longest = runs * longest - 1 * longest /\ runs * longest \in Int
  BY <1>2, Distributes
<1>5. runs * longest <= MaxRuns * longest /\ MaxRuns * longest \in Int
  BY <1>2, BoundsAssumption, ProductsOrdered
<1>6. submitted < runs * longest
  BY <1>1, <1>3, <1>4
<1> QED BY <1>2, <1>3, <1>4, <1>5, <1>6, BoundsAssumption DEF ReplayFits

LEMMA ReplayStepIsAStep ==
  ASSUME NEW longest \in Nat, ReplayFits(longest), ReplayInv(longest),
         [ReplayNext]_<<vars, replayVars>>
  PROVE  [Next]_vars
<1>1. CASE OrderTrade
  <2>1. trade_it \in 1..Len(trades)
    BY <1>1 DEF OrderTrade, TradeDue, ReplayInv, FileInv, Positive
  <2>2. ReplayOrder(trades[trade_it]) \in OrderSet
    BY <2>1 DEF ReplayInv, FileInv
  <2>3. submitted < MaxOrders
    BY <1>1, RoomForOne DEF OrderTrade
  <2>4. <<ReplayOrder(trades[trade_it])>> \in Answers
    BY <2>2, <2>3 DEF Answers
  <2> QED BY <1>1, <2>4 DEF OrderTrade, Next, RunStep
<1>2. CASE NothingDue
  <2>1. << >> \in Answers
    BY DEF Answers
  <2> QED BY <1>2, <2>1 DEF NothingDue, Next, RunStep
<1>3. CASE \/ \E file \in TradeFiles : SetReplay(file)
           \/ RunReplay
           \/ \E balances \in Openings : LinkPortfolio(balances)
           \/ \E d \in DataSets : AddData(d)
           \/ RunWithoutStrategy
           \/ LoopStep
  BY <1>3 DEF SetReplay, RunReplay, Next, UserCall, RunStep
<1>4. CASE UNCHANGED <<vars, replayVars>>
  BY <1>4
<1> QED BY <1>1, <1>2, <1>3, <1>4 DEF ReplayNext

LEMMA ReplayStepKeepsFile ==
  ASSUME NEW longest, ReplayFits(longest), FileInv, [ReplayNext]_<<vars, replayVars>>
  PROVE  FileInv'
<1>1. ASSUME NEW file \in TradeFiles, SetReplay(file) PROVE FileInv'
  BY <1>1, TradeFilesAssumption DEF SetReplay, FileInv, ReplayFits, Positive
<1>2. CASE OrderTrade
  BY <1>2 DEF OrderTrade, FileInv, Positive
<1>3. CASE UNCHANGED <<trades, trade_it>>
  BY <1>3 DEF FileInv
<1> QED BY <1>1, <1>2, <1>3 DEF ReplayNext, RunReplay, NothingDue, replayVars

LEMMA ReplayStepKeepsCount ==
  ASSUME NEW longest \in Nat, ReplayFits(longest), ReplayInv(longest),
         [ReplayNext]_<<vars, replayVars>>
  PROVE  OneEachTick(longest)'
<1> DEFINE n == (runs - 1) * longest
<1>1. /\ runs \in Nat /\ i \in Nat /\ i >= 1 /\ Len(data) \in Nat /\ submitted \in Nat
      /\ (run = "idle" => i = 1) /\ (run = "tick" => i <= Len(data) + 1)
      /\ (Busy => runs > 0) /\ runs <= MaxRuns /\ Len(data) <= longest
  BY DEF ReplayInv, OneEachTick, AccountInv, RunTypeOK, Positive
<1>2. /\ n \in Int /\ runs * longest \in Int /\ runs * longest = n + longest
  <2>1. (runs - 1) * longest = runs * longest - 1 * longest /\ runs * longest \in Int
    BY <1>1, Distributes
  <2> QED BY <1>1, <2>1
<1>3. Busy => submitted <= n + Ticked
  BY DEF ReplayInv, OneEachTick, Ended
<1>4. ~Busy => submitted <= runs * longest
  <2>1. ~Busy => submitted <= runs * longest + 0
    BY DEF ReplayInv, OneEachTick, Ended
  <2> QED BY <1>2, <2>1
<1>5. Busy => Ticked \in Nat /\ Ticked <= longest
  <2>1. Busy => run \in {"tick", "trade", "value"}
    BY DEF ReplayInv, AccountInv, RunTypeOK, Busy
  <2> QED BY <1>1, <2>1 DEF Ticked, ReplayInv, AccountInv, InData
<1> HIDE DEF n
\* What has to be shown of the step.
<1>6. ASSUME runs' = runs, Len(data') <= longest, submitted' \in Nat,
             run' = "idle" => i' = 1,
             run' = "tick" => i' <= Len(data') + 1,
             Busy' => Busy /\ submitted' <= n + Ticked',
             ~Busy' => submitted' <= runs * longest
      PROVE  OneEachTick(longest)'
  <2>1. CASE Busy'
    <3>1. submitted' <= (runs' - 1) * longest + Ticked'
      BY <1>6, <2>1 DEF n
    <3> QED BY <1>1, <1>6, <2>1, <3>1 DEF OneEachTick, Ended
  <2>2. CASE ~Busy'
    <3>1. submitted' <= runs' * longest + 0
      BY <1>2, <1>6, <2>2
    <3> QED BY <1>1, <1>6, <2>2, <3>1 DEF OneEachTick, Ended
  <2> QED BY <2>1, <2>2
<1>7. CASE LoopStep
  <2>1. /\ data' = data /\ runs' = runs /\ submitted' = submitted
        /\ Busy' => Busy /\ (i \in Nat => Ticked' = Ticked)
        /\ run' = "idle" => i' = 1 \/ (run = "idle" /\ i' = i)
    BY <1>7, LoopStepMoves
  <2>2. run' = "tick" => i' <= Len(data) + 1
    BY <1>1, <1>7
       DEF ReplayInv, AccountInv, InData, LoopStep, StartTick, EngineStep, Exception, InvalidData,
           RecordValue, EndOfData, Crash, Finish, TickDone, runVars
  <2> QED BY <1>1, <1>2, <1>3, <1>4, <1>5, <1>6, <2>1, <2>2
<1>8. ASSUME NEW answer, OnTick(answer) PROVE OneEachTick(longest)'
  <2>1. /\ run = "tick" /\ run' = "trade" /\ i' = i /\ i <= Len(data)
        /\ data' = data /\ runs' = runs /\ submitted' \in {submitted, submitted + 1}
    BY <1>8 DEF OnTick, Answer, AddOrder, engineVars
  <2>2. Busy /\ Busy' /\ Ticked = i - 1 /\ Ticked' = i
    BY <2>1 DEF Busy, Ticked
  <2>3. submitted' \in Nat /\ submitted' <= n + i
    BY <1>1, <1>2, <1>3, <2>1, <2>2
  <2> QED BY <1>1, <1>6, <2>1, <2>2, <2>3
<1>9. CASE Run
  <2>1. /\ run = "idle" /\ run' = "tick" /\ i' = i /\ data' = data /\ runs' = runs + 1
        /\ submitted' = submitted /\ runs < MaxRuns
    BY <1>9 DEF Run, engineVars
  <2>2. ~Busy /\ Busy' /\ Ticked' = 0 /\ i' = 1
    BY <1>1, <2>1 DEF Busy, Ticked
  <2>3. Ended' = runs
    BY <1>1, <2>1, <2>2 DEF Ended
  <2>4. submitted' <= Ended' * longest + Ticked'
    BY <1>2, <1>4, <2>1, <2>2, <2>3
  <2> QED BY <1>1, <2>1, <2>2, <2>4, BoundsAssumption DEF OneEachTick
<1>10. CASE RunWithoutStrategy
  <2>1. /\ run = "idle" /\ run' = "idle" /\ i' = i /\ data' = data /\ runs' = runs + 1
        /\ submitted' = submitted /\ runs < MaxRuns
    BY <1>10 DEF RunWithoutStrategy, engineVars
  <2>2. ~Busy /\ ~Busy'
    BY <2>1 DEF Busy
  <2>3. Ended' = runs + 1
    BY <2>1, <2>2 DEF Ended
  <2>4. (runs + 1) * longest = runs * longest + 1 * longest
    BY <1>1, Distributes
  <2>5. submitted' <= Ended' * longest + 0
    BY <1>1, <1>2, <1>4, <2>1, <2>2, <2>3, <2>4
  <2> QED BY <1>1, <2>1, <2>2, <2>5, BoundsAssumption DEF OneEachTick
<1>11. CASE \/ \E balances \in Openings : LinkPortfolio(balances)
            \/ \E d \in DataSets : AddData(d)
            \/ SetStrategy
  <2>1. run = "idle" /\ run' = "idle" /\ i' = i /\ runs' = runs /\ submitted' = submitted
    BY <1>11 DEF LinkPortfolio, AddData, SetStrategy, engineVars
  <2>2. data' = data \/ data' \in DataSets
    BY <1>11 DEF LinkPortfolio, AddData, SetStrategy
  <2>3. Len(data') <= longest
    BY <1>1, <2>2 DEF ReplayFits
  <2>4. ~Busy /\ ~Busy'
    BY <2>1 DEF Busy
  <2> QED BY <1>1, <1>4, <1>6, <2>1, <2>3, <2>4
<1>12. CASE UNCHANGED vars
  <2>1. UNCHANGED <<run, i, data, runs, submitted>>
    BY <1>12 DEF vars, runVars, engineVars
  <2>2. Busy' = Busy /\ Ticked' = Ticked
    BY <2>1 DEF Busy, Ticked
  <2> QED BY <1>1, <1>3, <1>4, <1>6, <2>1, <2>2
<1> QED BY <1>7, <1>8, <1>9, <1>10, <1>11, <1>12
        DEF ReplayNext, SetReplay, RunReplay, OrderTrade, NothingDue

(* Every behaviour of the replay is a behaviour of the backtest, so what   *)
(* is proved of Spec holds of it, for every file of trades, provided the   *)
(* orders of the files are orders of the model and its bound on them is    *)
(* not below one for each snapshot of each call of run().                  *)
THEOREM ReplayIsABacktest ==
  ASSUME NEW longest \in Nat, ReplayFits(longest)
  PROVE  ReplaySpec => IsABacktest
<1>1. ReplayInit => Init /\ ReplayInv(longest)
  BY ReplayStarts DEF ReplayInit
<1>2. ReplayInv(longest) /\ [ReplayNext]_<<vars, replayVars>> => [Next]_vars
  BY ReplayStepIsAStep
<1>3. ReplayInv(longest) /\ [ReplayNext]_<<vars, replayVars>> => ReplayInv(longest)'
  <2> SUFFICES ASSUME ReplayInv(longest), [ReplayNext]_<<vars, replayVars>>
               PROVE  ReplayInv(longest)'
    OBVIOUS
  <2>1. [Next]_vars
    BY <1>2
  <2>2. AccountInv' /\ PoolInv'
    BY <2>1, StepKeepsAccount, StepKeepsPool DEF ReplayInv
  <2>3. FileInv'
    BY ReplayStepKeepsFile DEF ReplayInv
  <2>4. OneEachTick(longest)'
    BY ReplayStepKeepsCount
  <2> QED BY <2>2, <2>3, <2>4 DEF ReplayInv
<1> QED BY <1>1, <1>2, <1>3, PTL DEF ReplaySpec, IsABacktest, Spec

----------------------------------------------------------------------------
(* The schedule of a replay.  It is stated of the data and the trades as   *)
(* parameters, for a step changes neither while run() is running.          *)

Due(d, ts, j, t) == d[t].local_timestamp >= ts[j].local_timestamp

\* The ways to serve trades r to k in the first n ticks.
Plans(d, ts, r, k, n) ==
  {s \in [r..k -> 1..n] : /\ \A j \in r..k : Due(d, ts, j, s[j])
                          /\ \A j, l \in r..k : j < l => s[j] < s[l]}

LEMMA SchedulesArePlans ==
  \A k : Schedules(k) = Plans(data, trades, resumed, k, Ticked)
BY DEF Schedules, Plans, Due

\* A trade more, at a tick behind the others.
LEMMA PlanGrows ==
  ASSUME NEW d, NEW ts, NEW r \in Nat, NEW k \in Nat, r <= k, NEW t \in Nat, t >= 1,
         Due(d, ts, k, t), r = k \/ Plans(d, ts, r, k - 1, t - 1) # {}
  PROVE  Plans(d, ts, r, k, t) # {}
<1>1. PICK u : r = k \/ u \in Plans(d, ts, r, k - 1, t - 1)
  OBVIOUS
<1> DEFINE s == [j \in r..k |-> IF j = k THEN t ELSE u[j]]
<1>2. ASSUME NEW j \in r..k, j # k
      PROVE  /\ j \in r..(k-1) /\ u[j] \in 1..(t-1) /\ Due(d, ts, j, u[j])
             /\ \A l \in r..(k-1) : j < l => u[j] < u[l]
  <2>1. j \in r..(k-1) /\ r # k
    BY <1>2
  <2> QED BY <1>1, <2>1 DEF Plans
<1>3. s \in [r..k -> 1..t] /\ \A j \in r..k : Due(d, ts, j, s[j])
  BY <1>2
<1>4. ASSUME NEW j \in r..k, NEW l \in r..k, j < l PROVE s[j] < s[l]
  <2>1. j # k /\ s[j] = u[j]
    BY <1>4
  <2>2. CASE l = k
    BY <1>2, <2>1, <2>2
  <2>3. CASE l # k
    BY <1>2, <1>4, <2>1, <2>3
  <2> QED BY <2>2, <2>3
<1>5. s \in Plans(d, ts, r, k, t)
  BY <1>3, <1>4 DEF Plans
<1> QED BY <1>5

\* A plan that needs the last tick needs it for its last trade.
LEMMA PlanShrinks ==
  ASSUME NEW d, NEW ts, NEW r \in Nat, NEW k \in Nat, r <= k, NEW t \in Nat, t >= 1,
         Plans(d, ts, r, k, t) # {}, Plans(d, ts, r, k, t - 1) = {}
  PROVE  Due(d, ts, k, t) /\ (r < k => Plans(d, ts, r, k - 1, t - 1) # {})
<1>1. PICK s : s \in Plans(d, ts, r, k, t)
  OBVIOUS
<1>2. /\ s \in [r..k -> 1..t] /\ k \in r..k
      /\ \A j \in r..k : s[j] \in 1..t /\ Due(d, ts, j, s[j])
      /\ \A j, l \in r..k : j < l => s[j] < s[l]
  BY <1>1 DEF Plans
<1>3. s[k] = t
  <2> SUFFICES ASSUME s[k] # t PROVE FALSE
    OBVIOUS
  <2>1. ASSUME NEW j \in r..k PROVE s[j] \in 1..(t-1)
    <3>1. s[k] \in 1..(t-1) /\ s[j] \in 1..t
      BY <1>2
    <3>2. j = k \/ s[j] < s[k]
      BY <1>2
    <3> QED BY <3>1, <3>2
  <2>2. s \in Plans(d, ts, r, k, t - 1)
    BY <1>2, <2>1 DEF Plans
  <2> QED BY <2>2
<1>4. ASSUME r < k PROVE Plans(d, ts, r, k - 1, t - 1) # {}
  <2> DEFINE u == [j \in r..(k-1) |-> s[j]]
  <2>1. ASSUME NEW j \in r..(k-1) PROVE j \in r..k /\ s[j] \in 1..(t-1)
    <3>1. j \in r..k /\ j < k
      OBVIOUS
    <3> QED BY <1>2, <1>3, <3>1
  <2>2. u \in Plans(d, ts, r, k - 1, t - 1)
    BY <1>2, <2>1 DEF Plans
  <2> QED BY <2>2
<1> QED BY <1>2, <1>3, <1>4

(* The schedule over one tick: if before tick t exactly the trades before  *)
(* q could be served, and trade q is ordered in tick t just when it is     *)
(* due, then after it exactly the trades before the new q could.           *)
LEMMA OneTick ==
  ASSUME NEW d, NEW ts \in Seq(TradeData),
         NEW r \in Positive, NEW q \in Positive, r <= q, NEW t \in Positive,
         \A k \in r..Len(ts) : k < q <=> Plans(d, ts, r, k, t - 1) # {},
         NEW p, p = IF q <= Len(ts) /\ Due(d, ts, q, t) THEN q + 1 ELSE q
  PROVE  \A k \in r..Len(ts) : k < p <=> Plans(d, ts, r, k, t) # {}
<1> SUFFICES ASSUME NEW k \in r..Len(ts)
             PROVE  k < p <=> Plans(d, ts, r, k, t) # {}
  OBVIOUS
<1>1. /\ r \in Nat /\ q \in Nat /\ t \in Nat /\ t >= 1 /\ Len(ts) \in Nat
      /\ k \in Nat /\ r <= k /\ k <= Len(ts)
  BY DEF Positive
<1>2. CASE k < q
  <2>1. PICK s : s \in Plans(d, ts, r, k, t - 1)
    BY <1>2
  <2>2. s \in Plans(d, ts, r, k, t)
    <3>1. \A j \in r..k : s[j] \in 1..t
      BY <1>1, <2>1 DEF Plans
    <3> QED BY <2>1, <3>1 DEF Plans
  <2> QED BY <1>1, <1>2, <2>2
<1>3. CASE k = q /\ Due(d, ts, q, t)
  <2>1. r = k \/ Plans(d, ts, r, k - 1, t - 1) # {}
    <3> SUFFICES ASSUME r # k PROVE Plans(d, ts, r, k - 1, t - 1) # {}
      OBVIOUS
    <3>1. k - 1 \in r..Len(ts) /\ k - 1 < q
      BY <1>1, <1>3
    <3> QED BY <3>1
  <2>2. Plans(d, ts, r, k, t) # {}
    BY <1>1, <1>3, <2>1, PlanGrows
  <2> QED BY <1>1, <1>3, <2>2
<1>4. CASE k >= q /\ ~(k = q /\ Due(d, ts, q, t))
  <2>1. ~(k < p) /\ Plans(d, ts, r, k, t - 1) = {}
    BY <1>1, <1>4
  <2>2. ASSUME Plans(d, ts, r, k, t) # {} PROVE FALSE
    <3>1. Due(d, ts, k, t) /\ (r < k => Plans(d, ts, r, k - 1, t - 1) # {})
      BY <1>1, <2>1, <2>2, PlanShrinks
    <3>2. k > q /\ r < k /\ k - 1 \in r..Len(ts)
      BY <1>1, <1>4, <3>1
    <3>3. k - 1 < q
      BY <3>1, <3>2
    <3> QED BY <1>1, <3>2, <3>3
  <2> QED BY <2>1, <2>2
<1> QED BY <1>1, <1>2, <1>3, <1>4

\* While run() is running the trades ordered are those on schedule.
OnSchedule ==
  /\ trades \in Seq(TradeData)
  /\ trade_it \in Positive
  /\ resumed \in Positive
  /\ run = "idle" => i = 1
  /\ Busy => resumed <= trade_it
  /\ Busy => \A k \in resumed..Len(trades) :
               k < trade_it <=> Plans(data, trades, resumed, k, Ticked) # {}

LEMMA OnScheduleShows == ASSUME OnSchedule PROVE ReplayOnSchedule
BY SchedulesArePlans DEF OnSchedule, ReplayOnSchedule

LEMMA ReplayStepOnSchedule ==
  ASSUME RunTypeOK, OnSchedule, [ReplayNext]_<<vars, replayVars>>
  PROVE  OnSchedule'
<1>1. data \in Seq(LOBData) /\ i \in Nat /\ i >= 1
  <2>1. Seq(Books) \subseteq Seq(LOBData)
    BY BooksAssumption
  <2> QED BY <2>1 DEF RunTypeOK, Positive
<1>2. ASSUME NEW answer, OnTick(answer), UNCHANGED <<trades, resumed>>, i <= Len(data),
             trade_it' = IF TradeDue THEN trade_it + 1 ELSE trade_it
      PROVE  OnSchedule'
  <2>1. /\ run = "tick" /\ run' = "trade" /\ i' = i /\ data' = data
        /\ Busy /\ Busy' /\ Ticked = i - 1 /\ Ticked' = i
    BY <1>2 DEF OnTick, Answer, Busy, Ticked
  <2>2. trade_it' = IF trade_it <= Len(trades) /\ Due(data, trades, trade_it, i)
                    THEN trade_it + 1 ELSE trade_it
    BY <1>2 DEF TradeDue, Due
  <2>3. trade_it' \in Positive /\ resumed <= trade_it'
    BY <1>2, <2>1 DEF OnSchedule, Positive
  <2>4. \A k \in resumed..Len(trades) :
          k < trade_it' <=> Plans(data, trades, resumed, k, i) # {}
    <3>1. /\ i \in Positive /\ resumed <= trade_it
          /\ trades \in Seq(TradeData) /\ trade_it \in Positive /\ resumed \in Positive
      BY <2>1 DEF OnSchedule, RunTypeOK
    <3>2. \A k \in resumed..Len(trades) :
            k < trade_it <=> Plans(data, trades, resumed, k, i - 1) # {}
      BY <2>1 DEF OnSchedule
    <3> QED BY <2>2, <3>1, <3>2, OneTick
  <2> QED BY <1>2, <2>1, <2>3, <2>4 DEF OnSchedule
<1>3. CASE OrderTrade
  BY <1>2, <1>3 DEF OrderTrade
<1>4. CASE NothingDue
  BY <1>2, <1>4 DEF NothingDue, replayVars
<1>5. CASE RunReplay
  <2>1. /\ run = "idle" /\ run' = "tick" /\ i' = i /\ data' = data /\ i = 1
        /\ trades' = trades /\ trade_it' = trade_it /\ resumed' = trade_it
    BY <1>5 DEF RunReplay, Run, OnSchedule
  <2>2. Ticked' = 0 /\ resumed' \in Positive /\ resumed' <= trade_it'
    BY <2>1 DEF Ticked, OnSchedule, Positive
  <2>3. ASSUME NEW k \in trade_it..Len(trades)
        PROVE  ~(k < trade_it) /\ Plans(data, trades, trade_it, k, 0) = {}
    <3>1. trade_it \in Nat /\ Len(trades) \in Nat
      BY DEF OnSchedule, Positive
    <3>2. k \in trade_it..k /\ ~(k < trade_it)
      BY <3>1
    <3>3. ASSUME NEW s \in Plans(data, trades, trade_it, k, 0) PROVE FALSE
      BY <3>2 DEF Plans
    <3> QED BY <3>2, <3>3
  <2> QED BY <2>1, <2>2, <2>3 DEF OnSchedule
<1>6. ASSUME NEW file \in TradeFiles, SetReplay(file) PROVE OnSchedule'
  <2>1. /\ run = "idle" /\ run' = run /\ i' = i /\ resumed' = resumed
        /\ trades' = file /\ trade_it' = 1 /\ file \in Seq(TradeData)
    BY <1>6, TradeFilesAssumption DEF SetReplay, SetStrategy
  <2>2. ~Busy'
    BY <2>1 DEF Busy
  <2> QED BY <2>1, <2>2 DEF OnSchedule, Positive
<1>7. CASE /\ \/ \E balances \in Openings : LinkPortfolio(balances)
              \/ \E d \in DataSets : AddData(d)
              \/ RunWithoutStrategy
           /\ UNCHANGED replayVars
  <2>1. run = "idle" /\ run' = run /\ i' = i /\ UNCHANGED <<trades, trade_it, resumed>>
    BY <1>7 DEF LinkPortfolio, AddData, RunWithoutStrategy, replayVars
  <2>2. ~Busy'
    BY <2>1 DEF Busy
  <2> QED BY <2>1, <2>2 DEF OnSchedule
<1>8. CASE LoopStep /\ UNCHANGED replayVars
  <2>1. /\ data' = data /\ UNCHANGED <<trades, trade_it, resumed>>
        /\ Busy' => Busy /\ Ticked' = Ticked
        /\ run' = "idle" => i' = 1
    BY <1>1, <1>8, LoopStepMoves DEF replayVars, OnSchedule
  <2> QED BY <2>1 DEF OnSchedule
<1>9. CASE UNCHANGED <<vars, replayVars>>
  <2>1. UNCHANGED <<run, i, data, trades, trade_it, resumed>>
    BY <1>9 DEF vars, runVars, replayVars
  <2>2. Busy' = Busy /\ Ticked' = Ticked
    BY <2>1 DEF Busy, Ticked
  <2> QED BY <2>1, <2>2 DEF OnSchedule
<1> QED BY <1>3, <1>4, <1>5, <1>6, <1>7, <1>8, <1>9 DEF ReplayNext

LEMMA ReplayStepTypes ==
  ASSUME RunTypeOK, [ReplayNext]_<<vars, replayVars>>
  PROVE  RunTypeOK'
BY RunTypesKept DEF ReplayNext, SetReplay, RunReplay, OrderTrade, NothingDue, OnTick, UserCall, vars

(* Whatever the file, the data (times going back included) and the number  *)
(* of calls of run(), a trade has been ordered as soon as the ticks could  *)
(* serve it and the queue before it, and not before: the iterator neither  *)
(* skips a trade nor orders one early or late, also when a run resumes it. *)
THEOREM ReplaysAreOnSchedule == ReplaySpec => []ReplayOnSchedule
<1>1. ReplayInit => RunTypeOK /\ OnSchedule
  <2> SUFFICES ASSUME ReplayInit PROVE RunTypeOK /\ OnSchedule
    OBVIOUS
  <2>1. RunTypeOK
    BY AccountInit DEF ReplayInit, AccountInv
  <2>2. OnSchedule
    BY DEF ReplayInit, Init, OnSchedule, Busy, Positive
  <2> QED BY <2>1, <2>2
<1>2. RunTypeOK /\ OnSchedule /\ [ReplayNext]_<<vars, replayVars>> => (RunTypeOK /\ OnSchedule)'
  BY ReplayStepTypes, ReplayStepOnSchedule
<1>3. OnSchedule => ReplayOnSchedule
  BY OnScheduleShows
<1> QED BY <1>1, <1>2, <1>3, PTL DEF ReplaySpec

----------------------------------------------------------------------------
(* The crossover strategy.  A window is the end of all the prices so far.  *)

LastOf(s, w) == IF Len(s) <= w THEN s ELSE SubSeq(s, Len(s) - w + 1, Len(s))

LEMMA WindowIsLast ==
  ASSUME NEW s \in Seq(Int), NEW w \in Positive, NEW x \in Int
  PROVE  Window(LastOf(s, w), w, x) = LastOf(Append(s, x), w)
<1> DEFINE n == Len(s)
           t == Append(s, x)
           l == SubSeq(s, n - w + 1, n)
           m == Append(l, x)
           e == SubSeq(t, n - w + 2, n + 1)
<1>1. n \in Nat /\ w \in Nat /\ w >= 1
  BY DEF Positive
<1>2. t \in Seq(Int) /\ Len(t) = n + 1 /\ t[n+1] = x /\ \A k \in 1..n : t[k] = s[k]
  OBVIOUS
<1>3. CASE n < w
  <2>1. LastOf(s, w) = s /\ Len(t) <= w
    BY <1>1, <1>2, <1>3 DEF LastOf
  <2> HIDE DEF n
  <2> QED BY <1>1, <1>2, <2>1 DEF LastOf, Window
<1>4. CASE n >= w
  <2>1. LastOf(s, w) = l
    <3>1. CASE n = w
      <4>1. l = SubSeq(s, 1, n) /\ SubSeq(s, 1, n) = s
        BY <1>1, <3>1
      <4> QED BY <1>1, <3>1, <4>1 DEF LastOf
    <3>2. CASE n > w
      BY <1>1, <3>2 DEF LastOf
    <3> QED BY <1>1, <1>4, <3>1, <3>2
  <2>2. /\ l \in Seq(Int) /\ Len(l) = w
        /\ \A k \in 1..w : l[k] = s[n - w + k]
    <3>1. /\ n - w + 1 \in Int /\ n \in Int /\ n - w + 1 <= n /\ n - (n - w + 1) + 1 = w
          /\ \A k \in (n - w + 1)..n : s[k] \in Int
          /\ \A k \in 1..w : (n - w + 1) + k - 1 = n - w + k
      BY <1>1, <1>4
    <3> HIDE DEF n
    <3> QED BY <3>1, SubSeqProperties
  <2> HIDE DEF l
  <2>3. /\ m \in Seq(Int) /\ Len(m) = w + 1 /\ m # << >>
        /\ \A k \in 1..w : m[k] = l[k]
        /\ m[w+1] = x
    <3> HIDE DEF l
    <3>1. l \in Seq(Int) /\ Len(l) = w
      BY <2>2
    <3>2. m \in Seq(Int) /\ Len(m) = w + 1 /\ m[w+1] = x
      BY <1>1, <3>1
    <3>3. \A k \in 1..w : m[k] = l[k]
      BY <1>1, <3>1
    <3> HIDE DEF m
    <3>4. m # << >>
      BY <1>1, <3>2
    <3> QED BY <3>2, <3>3, <3>4
  <2> HIDE DEF m
  <2>4. /\ Tail(m) \in Seq(Int) /\ Len(Tail(m)) = w
        /\ \A k \in 1..w : Tail(m)[k] = m[k+1]
    <3>1. Len(Tail(m)) = Len(m) - 1 /\ \A k \in 1..Len(Tail(m)) : Tail(m)[k] = m[k+1]
      BY <2>3, HeadTailProperties
    <3>2. Tail(m) \in Seq(Int)
      BY <2>3
    <3> QED BY <1>1, <2>3, <3>1, <3>2
  <2>5. /\ e \in Seq(Int) /\ Len(e) = w
        /\ \A k \in 1..w : e[k] = t[n - w + 1 + k]
    <3>1. /\ n - w + 2 \in Int /\ n + 1 \in Int /\ n - w + 2 <= n + 1 /\ (n + 1) - (n - w + 2) + 1 = w
          /\ \A k \in (n - w + 2)..(n + 1) : k \in 1..Len(t)
          /\ \A k \in 1..w : (n - w + 2) + k - 1 = n - w + 1 + k
      BY <1>1, <1>2, <1>4
    <3>2. \A k \in (n - w + 2)..(n + 1) : t[k] \in Int
      BY <1>2, <3>1
    <3> HIDE DEF n, t
    <3> QED BY <3>1, <3>2, SubSeqProperties
  <2>6. \A k \in 1..w : Tail(m)[k] = e[k]
    <3> TAKE k \in 1..w
    <3>1. CASE k = w
      BY <1>1, <1>2, <2>3, <2>4, <2>5, <3>1
    <3>2. CASE k < w
      <4>1. k + 1 \in 1..w /\ n - w + 1 + k \in 1..n /\ n - w + (k + 1) = n - w + 1 + k
        BY <1>1, <1>4, <3>2
      <4> HIDE DEF n, t, e
      <4>2. Tail(m)[k] = l[k+1] /\ l[k+1] = s[n - w + (k + 1)]
        BY <2>2, <2>3, <2>4, <4>1
      <4>3. e[k] = t[n - w + 1 + k] /\ t[n - w + 1 + k] = s[n - w + 1 + k]
        BY <1>2, <2>5, <4>1
      <4> QED BY <4>1, <4>2, <4>3
    <3>3. k = w \/ k < w
      BY <1>1
    <3> HIDE DEF n, t, e
    <3> QED BY <3>1, <3>2, <3>3
  <2>7. Tail(m) = e
    <3> HIDE DEF e
    <3> QED BY <2>4, <2>5, <2>6, SeqEqual
  <2>8. Window(l, w, x) = Tail(m)
    BY <1>1, <2>3 DEF Window, m
  <2>9. LastOf(t, w) = e
    <3>1. ~(Len(t) <= w) /\ Len(t) - w + 1 = n - w + 2 /\ Len(t) = n + 1
      BY <1>1, <1>2, <1>4
    <3> HIDE DEF n, t
    <3> QED BY <3>1 DEF LastOf
  <2> QED BY <2>1, <2>7, <2>8, <2>9
<1> QED BY <1>1, <1>3, <1>4

\* The trend of a list of prices, and its reversals, by the list alone.
TrendIn(ms, n) ==
  IF n < FastWindow \/ n < SlowWindow THEN 0
  ELSE Trend(SubSeq(ms, n - FastWindow + 1, n), SubSeq(ms, n - SlowWindow + 1, n))

Trending(ms, n) == {k \in 1..n : TrendIn(ms, k) # 0}

LastIn(ms, n) == IF Trending(ms, n) = {} THEN 0 ELSE TrendIn(ms, Max(Trending(ms, n)))

Reversals(ms, n) == {k \in 1..n : TrendIn(ms, k) \notin {0, LastIn(ms, k - 1)}}

LEMMA TrendInIs ==
  /\ \A n : TrendAt(n) = TrendIn(mids, n)
  /\ \A n : LastTrend(n) = LastIn(mids, n)
  /\ \A n : {k \in 1..n : TrendAt(k) \notin {0, LastTrend(k - 1)}} = Reversals(mids, n)
<1>1. \A n : TrendAt(n) = TrendIn(mids, n)
  BY DEF TrendAt, TrendIn
<1>2. \A n : LastTrend(n) = LastIn(mids, n)
  BY <1>1 DEF LastTrend, LastIn, Trending
<1> QED BY <1>1, <1>2 DEF Reversals

(* A later price changes neither the trends before it nor the last one.    *)
LEMMA TrendKept ==
  ASSUME NEW s \in Seq(Int), NEW x \in Int, NEW k \in 0..Len(s)
  PROVE  TrendIn(Append(s, x), k) = TrendIn(s, k)
<1>1. ASSUME NEW w \in Positive, w <= k
      PROVE  SubSeq(Append(s, x), k - w + 1, k) = SubSeq(s, k - w + 1, k)
  <2> DEFINE t == Append(s, x)
             u == SubSeq(t, k - w + 1, k)
             v == SubSeq(s, k - w + 1, k)
  <2>1. /\ w \in Nat /\ w >= 1 /\ k \in Nat /\ k - w + 1 \in Int /\ k - w + 1 <= k
        /\ k - (k - w + 1) + 1 = w
        /\ \A j \in (k - w + 1)..k : j \in 1..Len(s)
        /\ \A j \in 1..w : (k - w + 1) + j - 1 \in 1..Len(s)
    BY <1>1 DEF Positive
  <2>2. \A j \in 1..Len(s) : t[j] = s[j] /\ s[j] \in Int
    OBVIOUS
  <2> HIDE DEF t
  <2>3. u \in Seq(Int) /\ Len(u) = w /\ \A j \in 1..w : u[j] = t[(k - w + 1) + j - 1]
    <3>1. \A j \in (k - w + 1)..k : t[j] \in Int
      BY <2>1, <2>2
    <3> QED BY <2>1, <3>1, SubSeqProperties
  <2>4. v \in Seq(Int) /\ Len(v) = w /\ \A j \in 1..w : v[j] = s[(k - w + 1) + j - 1]
    <3>1. \A j \in (k - w + 1)..k : s[j] \in Int
      BY <2>1, <2>2
    <3> QED BY <2>1, <3>1, SubSeqProperties
  <2> HIDE DEF u, v
  <2>5. \A j \in 1..w : u[j] = v[j]
    BY <2>1, <2>2, <2>3, <2>4
  <2>6. u = v
    BY <2>3, <2>4, <2>5, SeqEqual
  <2> QED BY <2>6 DEF t, u, v
<1>2. CASE k < FastWindow \/ k < SlowWindow
  BY <1>2 DEF TrendIn
<1>3. CASE FastWindow <= k /\ SlowWindow <= k
  BY <1>1, <1>3, WindowsAssumption DEF TrendIn
<1>4. k \in Nat /\ FastWindow \in Nat /\ SlowWindow \in Nat
  BY WindowsAssumption DEF Positive
<1> QED BY <1>2, <1>3, <1>4

LEMMA LastTrending ==
  ASSUME NEW ms, NEW n \in Nat, Trending(ms, n) # {}
  PROVE  /\ Max(Trending(ms, n)) \in Trending(ms, n)
         /\ \A k \in Trending(ms, n) : k <= Max(Trending(ms, n))
<1>1. Trending(ms, n) \in SUBSET (0..n)
  BY DEF Trending
<1> QED BY <1>1, GreatestOf

LEMMA LastKept ==
  ASSUME NEW s \in Seq(Int), NEW x \in Int, NEW n \in 0..Len(s)
  PROVE  LastIn(Append(s, x), n) = LastIn(s, n)
<1>1. n \in Nat /\ \A k \in 1..n : k \in 0..Len(s)
  OBVIOUS
<1>2. \A k \in 1..n : TrendIn(Append(s, x), k) = TrendIn(s, k)
  BY <1>1, TrendKept
<1>3. Trending(Append(s, x), n) = Trending(s, n)
  BY <1>2 DEF Trending
<1>4. ASSUME Trending(s, n) # {}
      PROVE  TrendIn(Append(s, x), Max(Trending(s, n))) = TrendIn(s, Max(Trending(s, n)))
  <2>1. Max(Trending(s, n)) \in 1..n
    BY <1>1, <1>4, LastTrending DEF Trending
  <2> QED BY <1>2, <2>1
<1> QED BY <1>3, <1>4 DEF LastIn

(* The last trend is that of the newest price, if it has one.              *)
LEMMA LastStep ==
  ASSUME NEW ms, NEW n \in Nat
  PROVE  LastIn(ms, n + 1) = IF TrendIn(ms, n + 1) # 0 THEN TrendIn(ms, n + 1) ELSE LastIn(ms, n)
<1>1. CASE TrendIn(ms, n + 1) = 0
  <2>1. Trending(ms, n + 1) = Trending(ms, n)
    BY <1>1 DEF Trending
  <2> QED BY <1>1, <2>1 DEF LastIn
<1>2. CASE TrendIn(ms, n + 1) # 0
  <2>1. n + 1 \in Nat /\ n + 1 \in Trending(ms, n + 1)
    BY <1>2 DEF Trending
  <2>2. Max(Trending(ms, n + 1)) \in 1..(n+1) /\ n + 1 <= Max(Trending(ms, n + 1))
    <3>1. Max(Trending(ms, n + 1)) \in Trending(ms, n + 1) /\ n + 1 <= Max(Trending(ms, n + 1))
      BY <2>1, LastTrending
    <3> QED BY <3>1 DEF Trending
  <2>3. Max(Trending(ms, n + 1)) = n + 1
    BY <2>2
  <2> QED BY <1>2, <2>1, <2>3 DEF LastIn
<1> QED BY <1>1, <1>2

LEMMA ReversalsStep ==
  ASSUME NEW s \in Seq(Int), NEW x \in Int
  PROVE  /\ Reversals(Append(s, x), Len(s) + 1)
              = Reversals(s, Len(s))
                \cup (IF TrendIn(Append(s, x), Len(s) + 1) \notin {0, LastIn(s, Len(s))}
                      THEN {Len(s) + 1} ELSE {})
         /\ IsFiniteSet(Reversals(s, Len(s))) /\ Len(s) + 1 \notin Reversals(s, Len(s))
<1> DEFINE n == Len(s)
           t == Append(s, x)
<1>1. n \in Nat
  OBVIOUS
<1>2. \A k \in 1..n : TrendIn(t, k) = TrendIn(s, k) /\ LastIn(t, k - 1) = LastIn(s, k - 1)
  <2> TAKE k \in 1..n
  <2>1. k \in 0..Len(s) /\ k - 1 \in 0..Len(s)
    OBVIOUS
  <2> QED BY <2>1, TrendKept, LastKept
<1>3. LastIn(t, (n + 1) - 1) = LastIn(s, n)
  <2>1. n \in 0..Len(s) /\ (n + 1) - 1 = n
    OBVIOUS
  <2>2. LastIn(t, n) = LastIn(s, n)
    BY <2>1, LastKept
  <2> QED BY <2>1, <2>2
<1> HIDE DEF n, t
<1>4. \A k : k \in 1..(n+1) <=> k \in 1..n \/ k = n + 1
  BY <1>1
<1>5. /\ \A k \in 1..n : k \in Reversals(t, n + 1) <=> k \in Reversals(s, n)
      /\ n + 1 \in Reversals(t, n + 1) <=> TrendIn(t, n + 1) \notin {0, LastIn(s, n)}
      /\ Reversals(t, n + 1) \subseteq 1..(n+1) /\ Reversals(s, n) \subseteq 1..n
  BY <1>2, <1>3, <1>4 DEF Reversals
<1>6. Reversals(t, n + 1)
        = Reversals(s, n) \cup (IF TrendIn(t, n + 1) \notin {0, LastIn(s, n)} THEN {n + 1} ELSE {})
  BY <1>4, <1>5
<1>7. IsFiniteSet(1..n)
  BY <1>1, FS_Interval
<1>8. IsFiniteSet(Reversals(s, n)) /\ n + 1 \notin Reversals(s, n)
  <2>1. Reversals(s, n) \in SUBSET (1..n) /\ n + 1 \notin 1..n
    BY <1>1, <1>5
  <2> QED BY <1>7, <2>1, FS_Subset
<1> QED BY <1>6, <1>8 DEF n, t

\* The windows are the ends of the prices so far; the position is the last
\* trend these show, and an order was created at each of its reversals.
CrossoverInv ==
  /\ RunTypeOK
  /\ mids \in Seq(Int)
  /\ fast_prices = LastOf(mids, FastWindow)
  /\ slow_prices = LastOf(mids, SlowWindow)
  /\ position = LastIn(mids, Len(mids))
  /\ created = Cardinality(Reversals(mids, Len(mids)))

LEMMA NoReversals ==
  /\ LastOf(<< >>, FastWindow) = << >> /\ LastOf(<< >>, SlowWindow) = << >>
  /\ LastIn(<< >>, 0) = 0 /\ Cardinality(Reversals(<< >>, 0)) = 0
<1>1. FastWindow \in Nat /\ SlowWindow \in Nat
  BY WindowsAssumption DEF Positive
<1>2. Trending(<< >>, 0) = {} /\ Reversals(<< >>, 0) = {}
  BY DEF Trending, Reversals
<1> QED BY <1>1, <1>2, FS_EmptySet DEF LastOf, LastIn

LEMMA PricesAreNumbers ==
  ASSUME RunTypeOK, i <= Len(data)
  PROVE  Mid2(data[i]) \in Int
<1>1. data[i] \in LOBData
  <2>1. data[i] \in Books
    BY DEF RunTypeOK, Positive
  <2> QED BY <2>1, BooksAssumption
<1>2. BestBid(data[i]) \in Int
  <2>1. data[i].bids \in Seq(OrderBookEntry)
    BY <1>1 DEF LOBData
  <2>2. data[i].bids # << >> => data[i].bids[1] \in OrderBookEntry
    BY <2>1
  <2> QED BY <2>2 DEF BestBid, OrderBookEntry, Positive
<1>3. BestAsk(data[i]) \in Int
  <2>1. data[i].asks \in Seq(OrderBookEntry)
    BY <1>1 DEF LOBData
  <2>2. data[i].asks # << >> => data[i].asks[1] \in OrderBookEntry
    BY <2>1
  <2> QED BY <2>2 DEF BestAsk, OrderBookEntry, Positive
<1> QED BY <1>2, <1>3 DEF Mid2

(* The step of the strategy: it sees the trend of all prices so far where  *)
(* its windows are full, and none where they are not.                      *)
LEMMA PushMidShows ==
  ASSUME CrossoverInv, PushMid, i <= Len(data)
  PROVE  /\ mids' \in Seq(Int)
         /\ fast_prices' = LastOf(mids', FastWindow)
         /\ slow_prices' = LastOf(mids', SlowWindow)
         /\ LET seen == TrendIn(mids', Len(mids'))
            IN  /\ WindowsFull => seen = Trend(fast_prices', slow_prices')
                /\ ~WindowsFull => seen = 0
                /\ LastIn(mids', Len(mids')) = IF seen # 0 THEN seen ELSE position
                /\ Cardinality(Reversals(mids', Len(mids')))
                     = IF seen \notin {0, position} THEN created + 1 ELSE created
<1> DEFINE x == Mid2(data[i])
           seen == TrendIn(mids', Len(mids'))
<1>1. x \in Int /\ mids \in Seq(Int) /\ mids' = Append(mids, x)
  BY PricesAreNumbers DEF CrossoverInv, PushMid
<1> HIDE DEF x
<1>2. mids' \in Seq(Int) /\ Len(mids) \in Nat /\ Len(mids') = Len(mids) + 1
  BY <1>1
<1>3. /\ fast_prices' = LastOf(mids', FastWindow)
      /\ slow_prices' = LastOf(mids', SlowWindow)
  BY <1>1, WindowIsLast, WindowsAssumption DEF CrossoverInv, PushMid, x
<1>4. \A w \in Positive :
        /\ Len(LastOf(mids', w)) >= w <=> ~(Len(mids') < w)
        /\ Len(mids') >= w => LastOf(mids', w) = SubSeq(mids', Len(mids') - w + 1, Len(mids'))
  <2> TAKE w \in Positive
  <2> DEFINE n == Len(mids')
             l == SubSeq(mids', n - w + 1, n)
  <2>1. n \in Nat /\ w \in Nat /\ w >= 1
    BY <1>2 DEF Positive
  <2>2. CASE n < w
    BY <2>1, <2>2 DEF LastOf
  <2>3. CASE n = w
    <3>1. n - w + 1 = 1 /\ SubSeq(mids', 1, n) = mids'
      BY <1>2, <2>1, <2>3
    <3> QED BY <2>1, <2>3, <3>1 DEF LastOf
  <2>4. CASE n > w
    <3>1. LastOf(mids', w) = l
      BY <2>1, <2>4 DEF LastOf
    <3>2. Len(l) = w
      <4>1. /\ n - w + 1 \in Int /\ n \in Int /\ n - w + 1 <= n /\ n - (n - w + 1) + 1 = w
            /\ \A k \in (n - w + 1)..n : mids'[k] \in Int
        BY <1>2, <2>1, <2>4
      <4> HIDE DEF n
      <4> QED BY <4>1, SubSeqProperties
    <3> QED BY <2>1, <2>4, <3>1, <3>2
  <2> HIDE DEF l, n
  <2>5. n < w \/ n = w \/ n > w
    BY <2>1
  <2> QED BY <2>2, <2>3, <2>4, <2>5 DEF l, n
<1>5. WindowsFull <=> ~(Len(mids') < FastWindow) /\ ~(Len(mids') < SlowWindow)
  BY <1>3, <1>4, WindowsAssumption DEF WindowsFull
<1>6. WindowsFull => seen = Trend(fast_prices', slow_prices')
  <2> SUFFICES ASSUME WindowsFull PROVE seen = Trend(fast_prices', slow_prices')
    OBVIOUS
  <2>1. Len(mids') >= FastWindow /\ Len(mids') >= SlowWindow
    BY <1>2, <1>5, WindowsAssumption DEF Positive
  <2>2. /\ fast_prices' = SubSeq(mids', Len(mids') - FastWindow + 1, Len(mids'))
        /\ slow_prices' = SubSeq(mids', Len(mids') - SlowWindow + 1, Len(mids'))
    BY <1>3, <1>4, <2>1, WindowsAssumption
  <2> QED BY <1>5, <2>2 DEF TrendIn
<1>7. ~WindowsFull => seen = 0
  BY <1>5 DEF TrendIn
<1> HIDE DEF seen
<1>8. LastIn(mids', Len(mids')) = IF seen # 0 THEN seen ELSE position
  <2>1. LastIn(mids', Len(mids) + 1) = IF seen # 0 THEN seen ELSE LastIn(mids', Len(mids))
    BY <1>2, LastStep DEF seen
  <2>2. LastIn(mids', Len(mids)) = position
    BY <1>1, <1>2, LastKept DEF CrossoverInv
  <2> QED BY <1>2, <2>1, <2>2
<1>9. Cardinality(Reversals(mids', Len(mids')))
        = IF seen \notin {0, position} THEN created + 1 ELSE created
  <2> DEFINE R == Reversals(mids, Len(mids))
  <2>1. /\ IsFiniteSet(R) /\ Len(mids) + 1 \notin R
        /\ Reversals(mids', Len(mids'))
             = R \cup (IF seen \notin {0, position} THEN {Len(mids) + 1} ELSE {})
    BY <1>1, <1>2, ReversalsStep DEF CrossoverInv, seen
  <2>2. created = Cardinality(R)
    BY DEF CrossoverInv
  <2> HIDE DEF R
  <2>3. CASE seen \in {0, position}
    <3>1. Reversals(mids', Len(mids')) = R
      BY <2>1, <2>3
    <3> QED BY <2>2, <2>3, <3>1
  <2>4. CASE seen \notin {0, position}
    <3>1. Reversals(mids', Len(mids')) = R \cup {Len(mids) + 1}
      BY <2>1, <2>4
    <3>2. Cardinality(R \cup {Len(mids) + 1}) = Cardinality(R) + 1
      BY <2>1, FS_AddElement
    <3> QED BY <2>2, <2>4, <3>1, <3>2
  <2> QED BY <2>3, <2>4
<1> QED BY <1>2, <1>3, <1>6, <1>7, <1>8, <1>9 DEF seen

LEMMA CrossoverStep ==
  ASSUME CrossoverInv, [CrossoverNext]_<<vars, crossoverVars>>
  PROVE  CrossoverInv'
<1>1. RunTypeOK'
  BY RunTypesKept
     DEF CrossoverInv, CrossoverNext, LinkFirst, SetCrossover, NoPrice, WarmUp, Decide, OnTick,
         UserCall, vars
<1>2. CASE UNCHANGED crossoverVars
  BY <1>1, <1>2 DEF crossoverVars, CrossoverInv
<1>3. CASE SetCrossover
  <2>1. /\ fast_prices' = << >> /\ slow_prices' = << >> /\ position' = 0 /\ mids' = << >>
        /\ created' = 0 /\ << >> \in Seq(Int) /\ Len(<< >>) = 0
    BY <1>3 DEF SetCrossover, NewStrategy
  <2> QED BY <1>1, <2>1, NoReversals DEF CrossoverInv
<1>4. ASSUME PushMid, i <= Len(data),
             LET seen == TrendIn(mids', Len(mids'))
             IN  IF seen \notin {0, position}
                 THEN position' = seen /\ created' = created + 1
                 ELSE position' = position /\ created' = created
      PROVE  CrossoverInv'
  BY <1>1, <1>4, PushMidShows DEF CrossoverInv
<1>5. CASE WarmUp
  <2>1. PushMid /\ i <= Len(data) /\ ~WindowsFull /\ position' = position /\ created' = created
    BY <1>5 DEF WarmUp, Ticking
  <2>2. TrendIn(mids', Len(mids')) = 0
    BY <2>1, PushMidShows
  <2> QED BY <1>4, <2>1, <2>2
<1>6. CASE Decide
  <2> DEFINE seen == TrendIn(mids', Len(mids'))
  <2>1. PushMid /\ i <= Len(data) /\ WindowsFull
    BY <1>6 DEF Decide, Ticking
  <2>2. seen = Trend(fast_prices', slow_prices')
    BY <2>1, PushMidShows
  <2>3. \/ seen = 1 /\ position <= 0 /\ position' = 1 /\ created' = created + 1
        \/ seen = -1 /\ position >= 0 /\ position' = -1 /\ created' = created + 1
        \/ (seen = 0 \/ seen = position) /\ position' = position /\ created' = created
    BY <1>6, <2>2 DEF Decide
  <2> HIDE DEF seen
  <2>4. IF seen \notin {0, position}
        THEN position' = seen /\ created' = created + 1
        ELSE position' = position /\ created' = created
    BY <2>3
  <2> QED BY <1>4, <2>1, <2>4 DEF seen
<1> QED BY <1>2, <1>3, <1>5, <1>6 DEF CrossoverNext, LinkFirst, NoPrice

(* Whatever its windows, the data and the number of calls of run(), the    *)
(* strategy creates one order at each reversal of the trend of all prices  *)
(* since it was constructed, and no other: the windows, which are rolled   *)
(* one price at a time and live through several runs, never show it a      *)
(* trend that is not there.                                                *)
THEOREM OrdersFollowReversals == CrossoverSpec => []OrdersOnReversals
<1>1. CrossoverInit => CrossoverInv
  <2> SUFFICES ASSUME CrossoverInit PROVE CrossoverInv
    OBVIOUS
  <2>1. RunTypeOK
    BY AccountInit DEF CrossoverInit, AccountInv
  <2>2. /\ fast_prices = << >> /\ slow_prices = << >> /\ position = 0 /\ mids = << >>
        /\ created = 0 /\ << >> \in Seq(Int) /\ Len(<< >>) = 0
    BY DEF CrossoverInit
  <2> QED BY <2>1, <2>2, NoReversals DEF CrossoverInv
<1>2. CrossoverInv /\ [CrossoverNext]_<<vars, crossoverVars>> => CrossoverInv'
  BY CrossoverStep
<1>3. CrossoverInv => OrdersOnReversals
  BY TrendInIs DEF CrossoverInv, OrdersOnReversals
<1> QED BY <1>1, <1>2, <1>3, PTL DEF CrossoverSpec
=============================================================================
