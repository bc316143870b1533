SPECIFICATION Spec
CONSTANTS
  OrderSet <- MCOrderSet
  Books <- MCBooks
  DataSets <- MCDataSets
  Openings <- MCOpenings
  Eps = 0
  MaxOrders = 2
  MaxRuns = 1
INVARIANT ImmediateOrCancelled
CHECK_DEADLOCK FALSE
