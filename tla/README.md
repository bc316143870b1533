# Formal models of the HFT backtesting library

The library replays snapshots of a limit order book, lets a strategy create
orders, executes them against the snapshots and keeps the books of a portfolio.
These modules model it in TLA+, from the code under `src/`; TLC checks the
models on small instances. For every instance TLAPS proves what executors obtain,
in exact and, of one of them, in rounded arithmetic, the books of the portfolio and
its metrics, the pool, that the engines together implement an abstract exchange,
what the two strategies do, and of the input the command line, the loaders of books
and of trades, and the reader of lines with its two threads, of rows, of cells, and
of numbers: every property the runs check but the three liveness properties.

## 1. The system

| component | state | operations | interaction |
|---|---|---|---|
| executors (`src/orders.cpp`) | locals of one call | `execute_order` for Market, LimitFok, LimitIoc, buy and sell | called by the market engine with one order and one snapshot; returns fills |
| portfolio (`src/portfolio.cpp`) | `cash_`, `asset_amount_`, `trade_history_`, `positions_` (FIFO lots), `portfolio_values_` | `can_buy`, `can_sell`, `update_after_buy`, `update_after_sell`, `calculate_realized_pnl`, `update_portfolio_value` | shared by the user, the strategies and the engines |
| market engine (`src/market_engine.cpp`) | `pending_orders_` | `add_order`, `tick` (a `std::remove_if` whose predicate is `execute`) | calls executors and portfolio; throws on an unsupported order type |
| backtest engine (`src/backtesting_engine.cpp`) | `portfolio_`, `p_strategy_`, `data_`, the market engine | `link_portfolio`, `add_data`, `set_strategy`, `run` | the loop: strategy, `add_order`, `tick`, record the value |
| strategies (`src/strategies.cpp`, `src/predefined_strategies.cpp`, `examples/custom_strategy.cpp`) | current snapshot, next trade, price windows | `set_current_data`, `on_tick` | called back by `run` |
| CSV loader (`src/csv_parser.cpp`) | locals of one call | `parse_lob`, `parse_trades` | produces the data of a run |
| vendored CSV reader (`include/data_loader/csv.h`) | a buffer of three blocks, what was asked of the thread and what it read; the order of the columns, pointers into the last line | `next_line`, destructor; `read_header`, `set_header`, `has_column`, `read_row`, the parsers of cells and numbers | a worker thread reads ahead for the caller; `src/csv_parser.cpp` includes the header and calls nothing of it |
| command line (`include/data_loader/args_parses.hpp`) | locals of one call | `parse_arguments` | the mains pass what it returns to the loaders |
| metrics (`src/predefined_metrics.cpp`, `src/metrics_calculator.cpp`) | `metrics_`, from names to metrics | `register_metric`, `calculate_metric`, `calculate_all_metrics` | reads history and values of the portfolio |
| logging, examples | - | - | glue |

The library's own code is sequential, and nothing is persisted. What is hard
there is the nesting of loops that change shared state while they iterate - the
pass of `remove_if` over the pool trades with the portfolio from inside its
predicate - together with early returns and an exception that leave those loops
half way, orders that outlive the tick and even the run that created them, and
the arithmetic of lots. The one part with two threads is `csv.h`: caller and
worker hand blocks of one buffer to each other through two condition variables,
with reads that may throw and a destructor at any time between calls. The
hazards are listed, each at its line, in `PROJECT.json`.

What makes each component correct:

* executors: an order obtains exactly the quantity its type promises, within
  its limit, at the best prices available;
* portfolio: no overdraft, books that balance, profits that are real and
  first-in-first-out, updates that end;
* market engine: no order is lost, executed twice or overtaken;
* strategies: the replay orders each trade when its time has come, the crossover
  strategy at each reversal of the trend and at no other tick;
* command line and loaders: words and lines are read as what is written in them;
* `csv.h`: every line of the file once and in order, whatever the threads do;
  every call returns; a cell goes to the variable of its column, and cells and
  numbers are read as written;
* metrics: the one-pass loops compute what their names say;
* backtest engine: values recorded after the trades they value, and a run that
  returns whatever the strategy does;
* all of it together: an exchange that executes each order atomically.

## 2. Modules

| module | models |
|---|---|
| `Sums` | sums over sequences (the accumulation loops), as recursive functions |
| `Types` | `include/types.hpp` |
| `Orders` | the executors and what an order is entitled to |
| `Portfolio` | the portfolio, one step per fill booked or lot matched |
| `PortfolioProperties` | the invariants of the books |
| `PortfolioClient` | the portfolio under any caller that asks `can_buy`/`can_sell` first, and sets balances between trades |
| `Rounding` | a fill-or-kill buy and its payment in floating point of few bits |
| `MarketEngine` | the pool and the pass of `tick()`, composing `Orders` and `Portfolio` |
| `BacktestEngine` | the user's calls and `run()`, composing all of the above |
| `BacktestProperties` | the properties of the whole, and the refinement mapping |
| `Exchange` | the abstract specification: accounts, waiting orders, atomic executions |
| `StrategyBase` | the helpers strategies create their orders with |
| `TradesReplay` | `StrategyFromTradesFile` driving the backtest engine |
| `Crossover` | the SMA crossover strategy of `examples/custom_strategy.cpp` driving it |
| `CsvRows`, `LobLoader`, `TradesLoader` | a line as `std::getline` reads it, and the two loaders |
| `CommandLine` | `parse_arguments`, and the opening of the files that follows it |
| `LineStream` | the abstract specification of a reader of lines |
| `LineReader` | `io::LineReader` and its thread, with the refinement of `LineStream` |
| `CsvReader`, `CsvCells`, `CsvNumbers` | `io::CSVReader`: headers and rows; the cells of a line; integers and exponents |
| `Metrics` | the predefined metrics and their calculator, over a portfolio that trades and records values |
| `SumTheorems`, `PortfolioLemmas` | lemmas: sums, induction, and every step of the portfolio; proved with TLAPS, as the theorems below |
| `OrdersTheorems`, `PortfolioTheorems`, `BacktestTheorems`, `StrategyTheorems`, `InputTheorems`, `RoundingTheorems` | the theorems of executors, portfolio with metrics, engines with the refinement of `Exchange`, strategies, input, and rounded arithmetic |
| `MCOrders`, `MCPortfolio`, `MCBacktest`, `MCReplay`, `MCCrossover`, `MCInput` | the instances TLC checks |

### How state and steps correspond to the code

*Executors.* The six `execute_buy_order`/`execute_sell_order` functions have one
shape: early returns, a sweep over the levels from the best price on, a final
test. `Orders` states the shape once and the tests by order type and side:
`NothingToMatch` and `Rejected` are the early returns (for fill-or-kill with its
availability pre-check `Available`), `SweepGoesOn` the `break` of the loop,
`TakeLevel` one iteration, `Returned` the final test, which differs only for a
market buy. The sweep pushes one fill per level, so the iterator is
`Len(fills) + 1`.

*Portfolio.* `ledger` says which update is running and `due` which fills it has
still to book. `BookBuy` is one iteration of `update_after_buy`; a sell runs
`calculate_realized_pnl` first, one `MatchLot` per lot with its local variables
in `unmatched` and `realised_pnl`, and books the fill when the loop has ended
(`BookSell`). `SetCash` and `SetAmount` are the setters, which anyone may call
between updates and which leave the lots as they are. `Eps` is `EPS_D`. `opening`
is a history variable: the cash and the assets the portfolio was given without a
trade, and the assets taken from it.

*Rounding.* The other modules calculate exactly. `Rounding` follows one
fill-or-kill buy through the pre-check (`CountLevel`), the sweep (`SweepLevel`),
the sum of `can_buy` (`AddCost`) and the payments of `update_after_buy` (`Pay`),
and rounds each operation to one of the `Significands`, to nearest and ties to
even; a double has 2^53 of them. Exponents are not bounded. In `MCOrders` it takes turns with the executors,
with which it shares nothing.

*Market engine.* `kept` is the part of the pool `remove_if` has already moved to
the front and `cursor` the element its predicate is at. `CallExecutor`, the
executor's steps, then `Keep` (predicate false) or `Trade`, the portfolio's
steps and `DropExecuted` (predicate true) handle one order; `EraseRemoved` is
the `erase` that ends the pass. `Throw` is the exception for an unsupported
type: nothing is erased, the pool is what the compaction has left, and control
leaves `run()` as well (`Exception`). Orders carry the number under which they
were added, so that two equal orders are told apart; the code has no such
number and no step reads it.

`Exchange` is what this comes to: the orders that wait, and executions that are
atomic and obtain exactly what the snapshot of the tick gives the order alone,
also when others of the same tick traded before it.

*Backtest engine.* The user may link a new portfolio, set data, set a strategy
and call `run()` in any order and repeatedly. The strategy is the most general
one: at each tick it returns any order of `OrderSet` or none, so every
particular strategy is covered. `run()` returns false without a strategy and on
a snapshot with an empty side, and uses `portfolio_` without a check: `Crash` is
the null dereference. Values are kept in halves of the price unit, because
the mid price is `(bid + ask) / 2`.

*Strategies.* `TradesReplay` and `Crossover` replace the general strategy by
theirs and keep everything else: `LoopStep` is the rest of `run()`. The replay
answers `OnTick` with `OrderTrade` or `NothingDue`, and `IsABacktest` states
that this is a behaviour of the general backtest, so what is shown of `Spec`
holds of it. The crossover strategy may record a value inside `on_tick`, which
the general strategy does not: its `Decide` is `Answer`, the part of `OnTick`
that does not speak of the portfolio, with the portfolio's own step. Its
averages are compared as sums, prices in halves. `resumed`, `mids` and `created`
are history variables.

*Loaders.* A cell is a number or not one, and names a side or none.
`CellAfter(row, k)` is what the variable `cell` holds after `k` calls of
`std::getline`: a call that finds nothing leaves the cell before in it. In
`LobLoader` `column` is the position of the stream. `ReadLevel` is an iteration
whose four cells convert; `SkipLevel` the handler, which goes on with the next
level from where the stream is. `sources` and `lines` are history variables.

*Command line.* One step of `CommandLine` is one iteration of the loop, which
moves its own index over the value of an option. `main` is where the process is:
the exception of `parse_arguments` ends it ("refused"), `--help` too, then the
book is opened and, by the mains that do, the trades.

*`csv.h`.* In `LineReader` a cell of the buffer holds the place in the file of its
byte, so that a byte overwritten, lost or served twice shows. `caller` is where
the owner is inside `next_line`, the constructor or the destructor, and `worker`
where the thread is; the thread holds the lock for the whole of a read
("reading"), the caller's critical sections are single steps. A wait tests its
predicate under the lock and sleeps without it; wakeups may be spurious.
`MayThrow` lets any read throw, `threaded` is FALSE in a build with
`CSV_IO_NO_THREAD`. `CsvReader` takes lines, as sequences of cells, from a stream
of lines; `col_order`, `column_names` and `pointers` (the member `row`) are the
members, a pointer into an earlier line is "stale" and what it points to is any
cell. A cell whose quote does not close ("open") ends the reading of its line where
it stands, in a header or a row; a cell that is no number may leave the first part of
itself in the variable before `parse` throws (`begun`). `CsvCells` takes the cells out of one line, and `CsvNumbers` a number out of
one cell, digit by digit, for types that end at `Limit`, which is 2^(w-1) for one of
w bits. `MCInput` runs one of these parts, of the
command line or of the loaders per behaviour: they share no state.

*Metrics.* `PnL`, `Peak`, `MaxDrawdown`, `TotalReturn` and `SumOfReturns` are the
loops as recursive functions; a ratio is a pair of terms, compared by
cross-multiplication, and a zero below makes it not a number. `MetricsCalculator`
is a function from names to metrics; `Report` is what `calculate_all_metrics`
answers once a main program has registered a total return, and the properties of
the metrics are stated about that report.

### What is abstracted

Prices and amounts are integers, i.e. multiples of the smallest unit in the
data; doubles round in `Rounding` only, and the crossover strategy's
amount is rounded down to the unit. Logging, and the executors' container (a map
from type to executor, here the set of types that have one) are left out.
Snapshots given to TLC are sorted and uncrossed, as `include/types.hpp:67-70`
documents. `Crossover` leaves out snapshots with bids and no asks, for which the
strategy divides by zero.

## 3. What is checked

| run | instance | shows |
|---|---|---|
| `orders` | every order with price 0..4 and amount -1..7, of every type and side, against each of the 27 books with amounts 0..2 at three prices; and with rounding to 3 bits, orders and levels of six amounts up to 14 at prices 1..3, with six purses | `QuantityAsPromised`: exactly the promised quantity; `BestExecution`: no other split of that quantity over the acceptable levels is better (all splits are enumerated); `AllButRounding`, `OverdraftIsRounding`: all or nothing, and no overdraft, up to the last bits |
| `books` | `Eps = 0`, three lists of one or two fills, two openings (with and without assets), cash and amount set to 5 between trades, updates start while fewer than 4 trades are recorded, values at three quotes while there are fewer than 3 values and trades | the books (`Solvent`, `HistoryExplainsBalances`, `LotsAccountForHoldings`, `ProfitIsReal`, `ProfitIsFifo`, `UpdatesReturn`) and the metrics (`PnLIsMoney`, `DrawdownIsLargestDecline`, `LossWithinDrawdown`, `NegativeSharpeIsALoss`) |
| `backtest` | eight orders of all types and sides, three books (one with an empty side), three data sets, two openings, at most 3 orders and 2 calls of `run()` | `ExecutedAtMostOnce` (and in order of submission), `ValueIsCurrent`, `TradingNeverGains`, and the refinement `ImplementsExchange` |
| `backtest_faults` | orders of a type without executor among market orders, `Eps = 1` so that lots are dropped with a unit left in them, 3 orders, 2 runs, under fairness | `NoOrderLost` across exceptions, `LotsAccountForHoldings` with dust, `RunReturns`: a run ends by a return, an exception included, and crashes only where no portfolio was ever linked |
| `replay` | three trade files (a burst, a late trade before older ones, an undefined side) over three data sets (with a gap, with two snapshots of one time, going back from time 4 to 1), 2 runs | `ReplayOnSchedule`: a trade is ordered as soon as the ticks can serve it and the queue before it, whatever the order of the times; `IsABacktest` |
| `crossover` | windows of 2 and 3, half of the cash at risk, prices up, down and sideways, thin books, an empty one, 3 runs | `OrdersOnReversals`: orders exactly where the trend of all prices so far reverses; `ValueIsCurrent` although the strategy records values itself |
| `input` | command lines of up to four words; for the loaders two lines out of all that have a bad cell anywhere in the first level or at the start of the second, end early, or end with a comma; for `LineReader` blocks of 3 bytes and all files of up to 9 bytes (a newline or not), some of 10, with byte order marks and carriage returns, reads that throw or not, with the thread and without; two columns and texts of four lines; two cells of up to two characters; literals of up to four characters for integers of 5 bits | `ParsedAsMeant`; `RowsReadAsMeant`, `FrontIsIntact`, `TradesReadAsMeant`; of the reader of lines the refinement `ImplementsStream`, `CallsReturn`, `NoDataRace`, `LineStays`, `AssertionsHold`; `RowsFollowHeader`, `ColumnsAreTold`; `CellsReadBack`; `NumberAsWritten`, `PowerAsWritten` |

and five runs in which the code does not do what the repository says of it:

| run | what the repository says | what the run shows |
|---|---|---|
| `market_doc` | `include/execution/orders.hpp:94-95`: market orders are filled "until fully executed or liquidity exhausted" | a market buy that exceeds the asks obtains nothing |
| `ioc_doc` | `include/types.hpp:8-10`: FOK "or cancel", IOC "cancel remainder" | an unexecuted limit order waits in the pool and is tried again |
| `pool_doc` | `include/execution/market_engine.hpp:70`: "orders waiting to be executed" | after an exception the pool holds executed orders, which a later run executes again |
| `limit_doc` | `include/vaults/strategies.hpp:64`: "Optional limit price" | an order created with a price is a market order and executes beyond it |
| `asks_doc` | `include/types.hpp:67-68`: asks is the "Ask side of the book" | after a bad cell inside a level, bid columns are loaded as asks |

Further disagreements, met while modelling, that no run of their own shows:

* `include/execution/market_engine.hpp:55-56` says `execute()` throws if "the side
  is undefined". `execute_order` (`src/orders.cpp:15-16`) returns no fills for such
  an order, `execute()` returns false before its `switch`, and the order stays in
  the pool (the model's `NothingToMatch`, then `Keep`).
* `include/vaults/predefined_strategies.hpp:17-18` says of the trades "Each trade
  will generate an order". A tick orders at most one; those still queued at the
  last snapshot are never ordered (`ReplayOnSchedule` says which).
* `examples/custom_strategy.cpp:19` comments `position_` "-1 = short, 0 = flat,
  1 = long". It follows the orders created (`OrdersOnReversals`), whether or not
  they are executed.
* `include/types.hpp:78` calls `amount` "Amount traded". On a line that ends after
  the price, `src/csv_parser.cpp:149` reads nothing, `cell` still holds the price,
  and the trade is loaded with it as its amount (`TradesLoader!Volume`; of a line
  that ends early `TradesReadAsMeant` claims that its trade, if it has one, takes its
  values from that line alone).
* `include/metrics/predefined_metrics.hpp:58` says the Sharpe ratio returns 0 for
  "zero volatility". For constant values of zero it is not a number
  (`SharpeRatio`).
* `include/data_loader/args_parses.hpp:13` and the usage call `--trades` optional.
  The mains of `examples/trade_from_files.cpp` and `examples/custom_metric.cpp`
  call `parse_trades` all the same, and the empty path throws
  (`CommandLine!OpenTrades`).
* `include/data_loader/csv.h:122` reports a line too long as exceeding "the maximum
  length of 2^24-1"; `block_len` is `1<<20`, and a line that with its newline
  exceeds a block is refused (`LineReader!TooLong`).
* `include/data_loader/csv.h:1001` negates an exponent that was set to the least
  int when it overflowed. That is undefined; where it wraps around, the loop
  does not end: its exponent comes to alternate between -1 and -2
  (`CsvNumbers!Negated`; `PowerAsWritten` speaks of the exponents for
  which it ends).
* `include/data_loader/csv.h:1151`: for a column that a second header no longer
  has, the member `row` still points into an earlier line, and `read_row` parses
  what the buffer holds there now (`CsvReader!ReadRow`; `RowsFollowHeader` claims
  only that a variable is left alone when no row had its column before).

Each property of a passing run comes with a mutant: a faulty variant of one
definition (marked *Mutant* in the modules, used nowhere else) under which TLC
finds the property violated.

### The bounds, and why they are enough

`MaxOrders`, `MaxRuns`, `MaxTrades`, `MaxEvents` and `MaxRows` bound how often a
strategy creates an order, a user calls `run()`, an update starts, a value is
recorded, and the lines of a file; `MaxGiven` how much `set_amount` gives and takes
before it is no longer called, `MaxCells` the cells of a line, `Capped` the
exponents; the sets of orders, books, openings and lines
are small. The interactions are between two or three things: an order
left in the pool and a later one, a lot cut by two sells, a sell cut by two
lots, a second run over a pool the first one left, a bad cell and the level
after it. Three orders, two ticks or more, two runs, and up to four trades (five,
when the last update has two fills) contain all of them; lines do not influence
each other, so two show that. The reader's buffer shifts by one block at a time
and its thread reads one block ahead, so files of three blocks and a little more,
of all contents, let newlines, blocks, reads and the end of the file meet in
every way, and the proofs below do not depend on the length. Integers of five bits have
limits whose last digits differ on both sides, as those of the real types do.
Eight significands (3 bits) make sums and differences round in every direction, ties
included, with amounts of two digits.
The instances reach, among others, orders executed
out of turn over two ticks, lots partly matched, refusals by the portfolio, gains
and losses, an order executed in the second run for another portfolio, a replay
that resumes, and an early `false` after trades.

### Fairness and deadlock

`FairSpec` asks weak fairness of `RunStep`: `run()` is straight-line sequential
code, so once called it takes its next step; no fairness is asked of the user.
`FairMetricsSpec` asks the same of the loop bodies of the portfolio's updates.
`FairInputSpec` asks it of `CallStep`, the rest of a call of the reader of lines
that has begun, and of `Work`, the steps of its thread: both threads are scheduled
while they can go on, and a read returns or throws. Nobody has to ask for a line
or destroy the reader, and no wakeup has to be spurious, so `CallsReturn` is owed
to the notifications. The lock needs no strong fairness: the worker gives it up
by itself and then cannot take it for a read before the caller asks.

Deadlock is not checked where the program really may stop: the user need not
call anything more (`books`: the bounds on trades and values are reached;
`backtest*`, `replay`, `crossover` and the documentation runs on them: the process
ended in `Crash`, or the bound on runs is reached; `input`, `asks_doc`: the input
is read; `orders`, `market_doc`: an order in rounded arithmetic has been paid or
refused, and is the last).

## 4. What is proved

For every value of the constants, under the assumptions the modules name: openings,
settings and `Eps` are natural numbers; orders, snapshots and fills have their
types; there is an even number of significands, and amounts and cash are among the
numbers they make; a block has at least two bytes; a window at least one price; the marks
"null" and "stale" are not cells; a type of integers holds every digit (with fewer
than ten the code's test for overflow would be wrong, and no such type exists).

| module | theorem | states |
|---|---|---|
| `OrdersTheorems` | `OrdersTypeCorrect` | `OrdersSpec => []OrdersTypeOK`: every fill has a positive amount, which the portfolio's theorems assume |
| | `OrdersObtainWhatTheyPromise`, `SweepExecutesBest` | `OrdersSpec =>` `[]QuantityAsPromised`, `[]BestExecution`, on sorted snapshots |
| `PortfolioLemmas` | `PortfolioInvInductive`, `FifoInvInductive` | every step any caller can make the portfolio take preserves the invariants of the books and of the queue of lots |
| `PortfolioTheorems` | `PortfolioTypeCorrect`, `NeverOverdrawn`, `HistoryIsComplete`, `LotsAreCovered`, `ProfitsAreReal`, `ProfitsAreFifo` | `MetricsSpec =>` `[]PortfolioTypeOK`, `[]Solvent`, `[]HistoryExplainsBalances`, `[]LotsAccountForHoldings`, `[]ProfitIsReal`, `[]ProfitIsFifo` |
| | `PnLMetricIsMoney`, `DrawdownMetricIsLargest`, `MetricsAgree`, `NegativeSharpeMeansLoss` | `MetricsSpec =>` `[]PnLIsMoney`, `[]DrawdownIsLargestDecline`, `[]LossWithinDrawdown`, `[]NegativeSharpeIsALoss` |
| `BacktestTheorems` | `OrdersAreNeverLost` | `Spec => []NoOrderLost`, exceptions included |
| | `NoneExecutedTwice` | `Spec => []ExecutedAtMostOnce`, where every order has an executor |
| | `BacktestTypeCorrect`, `BacktestNeverOverdrawn`, `BacktestLotsAreCovered`, `BacktestProfitsAreFifo` | `Spec =>` `[]TypeOK`, `[]Solvent`, `[]LotsAccountForHoldings`, `[]ProfitIsFifo` |
| | `ValuesAreCurrent` | `Spec => []ValueIsCurrent` |
| | `NoFreeTrading` | `Spec => TradingNeverGains`, where every snapshot is sorted and uncrossed |
| | `EnginesImplementExchange` | `Spec => ImplementsExchange`, on sorted snapshots and where every order has an executor |
| `StrategyTheorems` | `ReplayIsABacktest`, `ReplaysAreOnSchedule` | `ReplaySpec =>` `IsABacktest`, `[]ReplayOnSchedule` |
| | `OrdersFollowReversals` | `CrossoverSpec => []OrdersOnReversals` |
| `InputTheorems` | `LineTypeCorrect`, `AssertionsNeverFail`, `FreeOfRaces`, `LinesStay` | `LineSpec =>` `[]LineTypeOK`, `[]AssertionsHold`, `[]NoDataRace`, `[]LineStays` |
| | `LineReaderImplementsStream` | `LineSpec => ImplementsStream` |
| | `RowsAreReadAsMeant`, `FrontStaysIntact` | `LobSpec =>` `[]RowsReadAsMeant`, `[]FrontIsIntact` |
| | `TradesAreReadAsMeant` | `TradesSpec => []TradesReadAsMeant` |
| | `CommandLineIsParsed` | `CommandSpec => []ParsedAsMeant` |
| | `RowsGoByHeader`, `HeaderIsTold` | `CsvSpec =>` `RowsFollowHeader`, `[]ColumnsAreTold` |
| | `CellsAreReadBack` | `CellsSpec => []CellsReadBack` |
| | `NumbersAreAsWritten`, `PowersAreAsWritten` | `NumbersSpec =>` `[]NumberAsWritten`, `[]PowerAsWritten` |
| `RoundingTheorems` | `AllOrNothingButRounding`, `OverdraftOnlyByRounding` | `RoundingSpec =>` `[]AllButRounding`, `[]OverdraftIsRounding` |

Six theorems have hypotheses about the constants:

* `SortedBooks` and `OrderlyBooks` are what `include/types.hpp:67-70` says of a
  snapshot: bids descending, asks ascending, and, for `NoFreeTrading` alone, no bid
  above an ask. Without the order "the front of the book" is not the best of it.
* `AllHaveExecutors`: an order of a type without executor throws out of the pass
  half way, and `pool_doc` shows that orders are then executed twice. The theorems
  that do not need it (`OrdersAreNeverLost`, the books, `ValuesAreCurrent`) do
  without.
* `ReplayFits(longest)`: the bound `MaxOrders` of the model, which the code does not
  have, leaves room for one order per snapshot and run, and the trades of the files
  make orders of `OrderSet`. The instance of `replay` satisfies it.

Three properties have a condition on the books in their statement:
`ProfitIsReal`, `ProfitIsFifo` and `PnLIsMoney` speak of `ExactBooks`, that is
`Eps = 0` and no holdings that came without a purchase, through the opening or through
`set_amount`. The theorems on them (`ProfitsAreReal`, `ProfitsAreFifo`,
`BacktestProfitsAreFifo`, `PnLMetricIsMoney`) therefore say nothing of programs
that begin with holdings, as `examples/custom_strategy.cpp:93`
(`set_amount(10000)`) and `examples/custom_metric.cpp:44` (`set_amount(100000.)`)
do: what is sold beyond the lots there has no price it was bought at, and the
code counts no profit for it. `LotsAccountForHoldings` and
`HistoryExplainsBalances` hold for them too.

### The inductive invariants

None of the invariants that are checked is inductive alone.

*Executors.* `SweepInv` says that the fills of a sweep are `Greedy`: the front of the
levels, each but the last taken whole, none beyond the limit, and that what is taken
and what remains make up the order. It ends with the amount `Entitled`; that any
other split costs no less follows by comparing both level by level
(`SumTheorems`: a sum that is shifted towards cheaper levels is not larger).

*Portfolio.* `PortfolioInv` adds what the loops know: `InLoop` (when an update runs
there are fills left, `unmatched` is a part of the first one, and nothing is held
over when no update runs) and `Covered` (while buying, cash covers the cost of
every fill still due; while selling, the holdings cover their amounts) - which is
what asking `can_buy` or `can_sell` once for all the fills establishes, and what
each booked fill preserves. `PortfolioInvInductive` has one lemma per action, the
setters too; the client and the backtest engine only have to show that their steps
are such steps. The invariants that speak of sums over lots and history rest on
`SumTheorems`: how the total of a sequence changes when an element is appended,
dropped from the front, or replaced there.

*First in, first out.* `FifoInv` says that the lots in the queue are the purchases of
the history from the unit on that was sold last (`InOrder`), that every recorded
sale has its profit by that reckoning, and that the sale in progress has earned its
share so far. What the abstract reckoning gives for two adjacent stretches of units
adds up, so a lot matched extends the stretch.

*Metrics.* `ValuedInv` adds that values recorded are natural numbers and that
purchases earn nothing. The loops of the metrics are recursive functions, and no
installed prover has induction with an operator as parameter; `NatSetInduction`,
induction about a set, and `RecursionExists`, a recursive definition has the
function it describes, both proved in `SumTheorems`, take its place. The sign of the
Sharpe ratio needs more than one pass: were there values whose returns add up to less
than nothing, and which do not end below the first, there would be a shortest list of
such values. Its values cannot all rise, so some value `b` is the low or the high of
its neighbours `a` and `c`. Then `(b - a)(b - c) >= 0`, which says that the one return
from `a` to `c` is not more than the two over `b` (`TurnLeftOut`); without `b` the list
would be shorter still and its returns no larger.

*Rounding.* Rounding keeps the order of numbers and leaves representable ones alone,
so a value that is compared stays on its side of what it was compared with, and one
operation is off by half of the last bit of what it rounds, `Ulp` of a number that the
loop cannot exceed. `RoundingInv` adds this up: `Slack` is what so many operations may
be off, and each loop has a part that says how far its variable is from the exact
sum (`Counted`, `Swept`, `PaidFor`) or, for what `can_buy` adds up, that it is the
rounded sum (`Summed`). The count may find more than the levels offer, so that the
sweep ends with a rest, and the payments may take more than `can_buy` added up, but
neither by more than the slack of the levels or payments passed.

*Pool.* `PoolInv` adds where `remove_if` is (`Positions`): the part kept is shorter
than the part looked at, so the compaction, also when the exception leaves it half
way, only overwrites orders that were kept before. `TurnInv` adds for
`NoneExecutedTwice` that the pool is `Sorted` by the numbers orders were added
under, with the part kept before the part to be looked at, that only numbers
already `GivenOut` are in use, and that what was executed is `Gone` from both parts.

*Whole.* `AccountInv` joins the invariants of executors and portfolio with what
the loop of `run()` knows of its index (`InData`). What the parts' theorems assume
of each other is here a consequence: the fills the portfolio is given are those
of the executors. `CallInv` adds that an executor works only while `tick()` waits
for it, and for the order the pass is at; a value is recorded after the pass, and
until the next tick nothing it was computed from changes.

*Trading.* `PriceInv` follows the prices from the snapshot through the levels and
fills to the fills still due, and says that the portfolio books only while
`tick()` is settling an order; a fill at the price of an ask is then worth no more
than it costs, since no ask is below the mid price.

*Refinement of the exchange.* `MarketInv` joins the above with `SweepInv`. Every step
of the backtest is then mapped: the one that ends the pre-check of the portfolio
executes the order for the exchange, because the cash and assets "settled" are what
they will be when the fills still due are booked, and a sweep alone obtained what
the exchange computes from the snapshot; all steps of booking stutter.

*Strategies.* The replay's steps are steps of the general backtest while there is room
for its order (`OneEachTick` counts one per tick), and `OnSchedule` says that the
iterator is behind exactly the trades for which the ticks so far have room
(`Plans`): ticks, one per trade and in the order of the file, none of them before
the time of its trade. Serving the first of the queue at the first tick that can
is then as good as any plan (`PlanGrows`, `PlanShrinks`), so nothing is assumed of
the order of the times. `CrossoverInv` says that the windows are the
last of all prices and the position the last trend of them, however many runs they
came from.

*Lines.* `LineInv` has three parts beyond the types: `Threads` (a read is asked for
only while the owner keeps out of the third block, and no thread is left when the
reader is gone), `Bounds` (where the data and the next line lie in each phase of
`next_line`) and `Returned` (the last line lies in the first two blocks). For the
refinement `StreamInv` adds `Reads` (what was read and is still to be handed over,
and when reading has ended), `InPlace` (each byte of the buffer is the one of the
file that belongs there, also in a block that is being handed over) and `Counted`
(as many lines were returned as begin before the place reached).

*Loaders.* `LobInv` says where the stream is while the loop is in a row: as long as no
cell inside a level fails, `column` is the one at which the next level begins and
the entry is what the levels so far make (`InStep`); after a level whose cell fails,
whatever is read from shifted columns comes behind the levels before it
(`FrontRead`). Only `RowsReadAsMeant` needs that bad cells stand at the end of a level,
which is what `asks_doc` refutes without it. `TradesInv`: the trades are what the lines so far
add, one after the other, and what a line adds is read from its own cells only, also
when it ends early (`CellOfLine`); an entry grows in the same way, level by level, and both
rest on lemmas about `FlattenSeq`.

*Cells.* `CellsInv` says that the line always is the cells not taken yet with the
separators between them (`Remaining`), and what was taken the contents written. A
step then takes a whole column, and rests on lemmas about what may stand in it:
quotes behind a shut sequence open and close as they do alone (`OpenedJoined`), so a
padded cell is `Shut`, its separators are all between quotes, and the first other one
is the one that was put behind it (`ColumnIs`); of a doubled content the loop of
`unescape` passes exactly the quotes that were added (`CollapsedIs`).

*Command line, rows, numbers.* `CommandInv`: the loop is at the beginning of a pair,
and what it has is the last value of each option before it. `CsvInv`: the order of
the columns `Sorts` the header in force, pointers of columns that were never there
are `Untouched`, and no cell still to be read is a mark. `NumbersInv`: while `DigitsRead` the
number is what the digits so far are worth; the steps that stop before a limit stop
where the next value would have passed it. `ScalingInv`: the power applied, and what
the rest of the exponent makes of the current square, together are the exponent
read. Of an exponent that is the least int the loop only ever sees a negative one,
and does not end.

### What is model-checked only

The liveness properties `UpdatesReturn`, `RunReturns` and `CallsReturn`: reasoning
about fairness is left to TLC. That a step is possible, which the absence of
deadlocks would need, is too: no prover here reasons about `ENABLED`.

## 5. Not modelled

The parts with status `not_modelled` or `partly` in `PROJECT.json`, and why:

* logging writes text and has no state;
* of the two example programs `trade_from_files.cpp` and `custom_metric.cpp`, what
  they print; the order of their calls is one behaviour of `BacktestEngine`;
* of the metrics, the list of names (`get_available_metrics`) and the value of the
  Sharpe ratio, a square root, of which the sign is modelled;
* of `csv.h`, the texts of errors with their file names and line numbers, the
  sources of bytes other than one that gives what it has or throws (`fread`, which
  reports an error as a short count, cannot be told from a shorter file), a thread
  that cannot be created, cells kept as text, and the mantissa of a floating point
  number, whose value is a matter of rounding;
* the executors other than fill-or-kill in rounded arithmetic.

## 6. Plan

1. Done: all components above, the abstract exchange and the abstract stream of
   lines with their refinements, and the theorems of section 4.
2. Model: the other executors with rounding, for which the lemmas on one operation and
   on slack are there; exceptions of allocation, which every
   `push_back` of the library may throw and nothing of it handles.
