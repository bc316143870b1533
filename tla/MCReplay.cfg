SPECIFICATION ReplaySpec
CONSTANTS
  OrderSet <- MCOrderSet
  Books <- MCBooks
  DataSets <- MCDataSets
  Openings <- MCOpenings
  TradeFiles <- MCTradeFiles
  Eps = 0
  MaxOrders = 12
  MaxRuns = 2
INVARIANT ReplayOnSchedule
PROPERTY IsABacktest
CHECK_DEADLOCK FALSE
