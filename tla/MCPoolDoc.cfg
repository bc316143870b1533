SPECIFICATION Spec
CONSTANTS
  OrderSet <- MCCastOrderSet
  Books <- MCFaultBooks
  DataSets <- MCFaultDataSets
  Openings <- MCOpenings
  Eps = 0
  MaxOrders = 2
  MaxRuns = 1
INVARIANT PoolHoldsOnlyWaiting
CHECK_DEADLOCK FALSE
