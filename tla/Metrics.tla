------------------------------- MODULE Metrics -------------------------------
(***************************************************************************)
(* The predefined metrics (src/predefined_metrics.cpp) and the calculator  *)
(* that reports them (src/metrics_calculator.cpp), for a portfolio that    *)
(* trades and records its value.  A ratio is kept as its two terms; with a *)
(* zero below it is not a number, and compares as false.  Of the Sharpe    *)
(* ratio, which takes a square root, the sign is kept.                     *)
(***************************************************************************)
EXTENDS PortfolioClient

CONSTANTS
  Quotes,    \* the best bid and ask when a value is recorded
  MaxEvents  \* bound: no value is recorded after this many values and trades

ASSUME QuotesAssumption    == Quotes \subseteq [bid : Positive, ask : Positive]
ASSUME MaxEventsAssumption == MaxEvents \in Nat

MetricsNext ==
  \/ ClientNext
  \/ /\ Len(portfolio_values) + Len(trade_history) < MaxEvents
     /\ \E q \in Quotes : UpdatePortfolioValue(q.bid, q.ask)

MetricsSpec == ClientInit /\ [][MetricsNext]_portfolioVars

(* The loops of the updates go on; nobody has to record a value or trade.  *)
FairMetricsSpec ==
  MetricsSpec /\ WF_portfolioVars(BookBuy) /\ WF_portfolioVars(MatchLot) /\ WF_portfolioVars(BookSell)

----------------------------------------------------------------------------
\* Mutant: the test of the side is the wrong way round.
PnLOfBuys(h) == Total([k \in 1..Len(h) |-> IF h[k].action_type = "Buy" THEN h[k].realised_pnl ELSE 0])

PnL(h) == Total([k \in 1..Len(h) |-> IF h[k].action_type = "Sell" THEN h[k].realised_pnl ELSE 0])

\* a.lost / a.peak > b.lost / b.peak
Exceeds(a, b) == a.peak # 0 /\ a.lost * b.peak > b.lost * a.peak

\* Mutant: the last value is taken for the peak.
LastPeak(vs, n) == vs[n]

\* max_peak after n values.
Peak(vs, n) ==
  LET peak[k \in 0..n] == IF k = 0 THEN vs[1]
                          ELSE IF vs[k] > peak[k-1] THEN vs[k] ELSE peak[k-1]
  IN  peak[n]

MaxDrawdown(vs) ==
  LET drawdown(k) == [lost |-> Peak(vs, k) - vs[k], peak |-> Peak(vs, k)]
      worst[k \in 0..Len(vs)] ==
        IF k = 0 THEN [lost |-> 0, peak |-> 1]
        ELSE IF Exceeds(drawdown(k), worst[k-1]) THEN drawdown(k) ELSE worst[k-1]
  IN  worst[Len(vs)]

\* Mutant: the change is taken the wrong way round.
TotalReturnReversed(vs, initial) ==
  [lost |-> IF vs = << >> THEN 0 ELSE vs[Len(vs)] - initial, peak |-> initial]

\* The loss relative to the initial value, i.e. the return with its sign
\* changed; both metrics leave out the factor 100.
TotalReturn(vs, initial) ==
  [lost |-> IF vs = << >> THEN 0 ELSE initial - vs[Len(vs)], peak |-> initial]

\* Mutant: a return is relative to the value after it.
ReturnOnNext(before, after) == [n |-> after - before, d |-> after]

Return(before, after) == [n |-> after - before, d |-> before]

\* The sum of all returns, as a fraction.
SumOfReturns(vs) ==
  LET sum[k \in 1..Len(vs)] ==
        IF k = 1 THEN [n |-> 0, d |-> 1]
        ELSE LET r == Return(vs[k-1], vs[k])
             IN  [n |-> sum[k-1].n * r.d + r.n * sum[k-1].d, d |-> sum[k-1].d * r.d]
  IN  sum[Len(vs)]

\* What kind of number the ratio is: a return on a value of zero leaves a
\* deviation that is not a number, and equal returns leave one of zero.
SharpeRatio(vs) ==
  LET returns == {Return(vs[k-1], vs[k]) : k \in 2..Len(vs)}
  IN  IF \E r \in returns : r.d = 0 THEN "NaN"
      ELSE IF \A r, q \in returns : r.n * q.d = q.n * r.d THEN "zero"
      ELSE IF SumOfReturns(vs).n > 0 THEN "positive"
      ELSE IF SumOfReturns(vs).n < 0 THEN "negative" ELSE "zero"

----------------------------------------------------------------------------
(* The calculator: metrics_, a function from names to objects.             *)

DefaultMetrics ==
  [name \in {"pnl", "max_drawdown", "sharpe_ratio"} |-> [class |-> name]]

\* A name registered again has the later object.
RegisterMetric(metrics, name, metric) ==
  [n \in DOMAIN metrics \cup {name} |-> IF n = name THEN metric ELSE metrics[n]]

\* The virtual call metric.calculate(portfolio).
Calculate(metric) ==
  CASE metric.class = "pnl"          -> PnL(trade_history)
    [] metric.class = "max_drawdown" -> MaxDrawdown(portfolio_values)
    [] metric.class = "sharpe_ratio" -> SharpeRatio(portfolio_values)
    [] metric.class = "total_return" -> TotalReturn(portfolio_values, metric.initial_value)

CalculateMetric(metrics, name) ==
  IF name \in DOMAIN metrics THEN Calculate(metrics[name]) ELSE -1

CalculateAllMetrics(metrics) == [name \in DOMAIN metrics |-> CalculateMetric(metrics, name)]

\* What a main program that adds the total return reports: for a portfolio
\* that traded and was valued as this one, the initial value being given.
Report(initial) ==
  CalculateAllMetrics(RegisterMetric(DefaultMetrics, "total_return",
    [class |-> "total_return", initial_value |-> initial]))

----------------------------------------------------------------------------
\* Values are in halves of the price unit.
Paid == cash + Total(LotCosts(positions))

(* The PnL metric is money: with exact books, and between updates, it is   *)
(* what the portfolio holds in cash and in lots at cost beyond its opening *)
(* cash, whatever was bought and sold in between.                          *)
PnLIsMoney == ledger = "idle" /\ ExactBooks => Report(opening.cash).pnl = Paid - opening.cash

(* include/metrics/predefined_metrics.hpp:34-35: the drawdown is the       *)
(* largest decline, relative to the higher value, from any value to any    *)
(* later one - found by the one pass over the values, and never more than  *)
(* what some pair of values shows.                                         *)
DrawdownIsLargestDecline ==
  LET vs == portfolio_values
      decline(k, l) == [lost |-> vs[k] - vs[l], peak |-> vs[k]]
      found == Report(opening.cash).max_drawdown
  IN  /\ \A l \in 1..Len(vs) : \A k \in 1..l : ~Exceeds(decline(k, l), found)
      /\ found.lost # 0 => \E l \in 1..Len(vs) : \E k \in 1..l : found = decline(k, l)

(* The metrics agree: measured from the first value recorded, the return   *)
(* is never worse than the drawdown.                                       *)
LossWithinDrawdown ==
  portfolio_values # << >> =>
    LET report == Report(portfolio_values[1])
    IN  ~Exceeds(report.total_return, report.max_drawdown)

(* A portfolio with a negative Sharpe ratio has lost money: if its last    *)
(* value is not below its first, the returns, each relative to the value   *)
(* just before it, do not average to a loss.                               *)
NegativeSharpeIsALoss ==
  LET vs == portfolio_values
  IN  Report(opening.cash).sharpe_ratio = "negative" => vs[Len(vs)] < vs[1]
=============================================================================
