SPECIFICATION TradingSpec
CONSTANTS
  OrderSet <- MCOrderSet
  Books <- MCBooks
  Significands = 8
  Sizes = {1, 3, 5, 8, 10, 14}
  Quotes <- MCQuotes
  Purses = {8, 12, 14, 20, 28, 40}
INVARIANTS
  QuantityAsPromised
  BestExecution
  AllButRounding
  OverdraftIsRounding
CHECK_DEADLOCK FALSE
