SPECIFICATION FairSpec
CONSTANTS
  OrderSet <- MCCastOrderSet
  Books <- MCFaultBooks
  DataSets <- MCFaultDataSets
  Openings <- MCOpenings
  Eps = 1
  MaxOrders = 3
  MaxRuns = 2
INVARIANTS
  NoOrderLost
  LotsAccountForHoldings
PROPERTY RunReturns
CHECK_DEADLOCK FALSE
