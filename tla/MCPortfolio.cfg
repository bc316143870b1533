SPECIFICATION FairMetricsSpec
CONSTANTS
  FillLists <- MCFillLists
  Openings <- MCOpenings
  Quotes <- MCQuotes
  Settings <- MCSettings
  Eps = 0
  MaxGiven = 0
  MaxTrades = 4
  MaxEvents = 3
INVARIANTS
  Solvent
  HistoryExplainsBalances
  LotsAccountForHoldings
  ProfitIsReal
  ProfitIsFifo
  PnLIsMoney
  DrawdownIsLargestDecline
  LossWithinDrawdown
  NegativeSharpeIsALoss
PROPERTY UpdatesReturn
CHECK_DEADLOCK FALSE
