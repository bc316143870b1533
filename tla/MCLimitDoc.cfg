SPECIFICATION CrossoverSpec
CONSTANTS
  OrderSet = {}
  Books <- MCBooks
  DataSets <- MCDataSets
  Openings <- MCOpenings
  Eps = 0
  FastWindow = 2
  SlowWindow = 3
  RiskShare = 2
  MaxOrders = 0
  MaxRuns = 3
INVARIANT LimitPriceRespected
CHECK_DEADLOCK FALSE
