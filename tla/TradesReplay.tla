----------------------------- MODULE TradesReplay -----------------------------
(***************************************************************************)
(* StrategyFromTradesFile (src/predefined_strategies.cpp) driving the      *)
(* backtest engine: at each tick it orders the next trade of a file, once  *)
(* the snapshot is not older than the trade.                               *)
(***************************************************************************)
EXTENDS BacktestProperties

CONSTANT TradeFiles  \* what the strategies are constructed from

ASSUME TradeFilesAssumption == TradeFiles \subseteq Seq(TradeData)

VARIABLES
  trades,    \* trades_
  trade_it,  \* trade_it_, as an index
  resumed    \* history variable: trade_it when run() was last called

replayVars == <<trades, trade_it, resumed>>

----------------------------------------------------------------------------
ReplayInit == Init /\ trades = << >> /\ trade_it = 1 /\ resumed = 1

SetReplay(file) ==
  /\ SetStrategy
  /\ trades' = file
  /\ trade_it' = 1
  /\ UNCHANGED resumed

RunReplay ==
  /\ Run
  /\ resumed' = trade_it
  /\ UNCHANGED <<trades, trade_it>>

\* Mutant: the order keeps the default type.
MarketOrder(t) == [DefaultOrder EXCEPT !.side = t.side, !.price = t.price, !.amount = t.amount]

ReplayOrder(t) == [side |-> t.side, order_type |-> "LimitIoc", price |-> t.price, amount |-> t.amount]

\* Mutant: a trade at the very time of the snapshot is not yet due.
TradePassed ==
  /\ trade_it <= Len(trades)
  /\ data[i].local_timestamp > trades[trade_it].local_timestamp

TradeDue ==
  /\ trade_it <= Len(trades)
  /\ data[i].local_timestamp >= trades[trade_it].local_timestamp

OrderTrade ==
  /\ run = "tick" /\ i <= Len(data) /\ TradeDue
  /\ OnTick(<<ReplayOrder(trades[trade_it])>>)
  /\ trade_it' = trade_it + 1
  /\ UNCHANGED <<trades, resumed>>

NothingDue ==
  /\ run = "tick" /\ i <= Len(data) /\ ~TradeDue
  /\ OnTick(<< >>)
  /\ UNCHANGED replayVars

ReplayNext ==
  \/ \E file \in TradeFiles : SetReplay(file)
  \/ RunReplay
  \/ OrderTrade
  \/ NothingDue
  \/ /\ \/ \E balances \in Openings : LinkPortfolio(balances)
        \/ \E d \in DataSets : AddData(d)
        \/ RunWithoutStrategy
        \/ LoopStep
     /\ UNCHANGED replayVars

ReplaySpec == ReplayInit /\ [][ReplayNext]_<<vars, replayVars>>

----------------------------------------------------------------------------
(* The replay is one of the strategies the general backtest allows, so     *)
(* what is shown of Spec holds of it: in every state its answer is an      *)
(* order of OrderSet, here the limit immediate-or-cancel orders, or none.  *)
IsABacktest == Spec

\* The last tick whose on_tick was called.
Ticked == IF run = "tick" THEN i - 1 ELSE i

\* The ways to give each trade from the resumed one up to trade k a tick of
\* its own, in the order of the file and none older than the trade.
Schedules(k) ==
  {tick \in [resumed..k -> 1..Ticked] :
     /\ \A j \in resumed..k : data[tick[j]].local_timestamp >= trades[j].local_timestamp
     /\ \A j, l \in resumed..k : j < l => tick[j] < tick[l]}

(* The replay is on schedule on any data, also when it resumes in a second *)
(* run: trade k has been ordered as soon as, and not before, the ticks so  *)
(* far could serve it and the trades queued before it one by one.          *)
ReplayOnSchedule ==
  Busy => \A k \in resumed..Len(trades) : k < trade_it <=> Schedules(k) # {}
=============================================================================
