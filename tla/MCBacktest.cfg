SPECIFICATION Spec
CONSTANTS
  OrderSet <- MCOrderSet
  Books <- MCBooks
  DataSets <- MCDataSets
  Openings <- MCOpenings
  Eps = 0
  MaxOrders = 3
  MaxRuns = 2
INVARIANTS
  TypeOK
  ExecutedAtMostOnce
  ValueIsCurrent
PROPERTIES
  TradingNeverGains
  ImplementsExchange
CHECK_DEADLOCK FALSE
