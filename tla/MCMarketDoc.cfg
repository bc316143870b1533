SPECIFICATION TradingSpec
CONSTANTS
  OrderSet <- MCOrderSet
  Books <- MCBooks
  Significands = 8
  Sizes = {}
  Quotes <- MCQuotes
  Purses = {}
INVARIANT MarketTakesWhatThereIs
CHECK_DEADLOCK FALSE
