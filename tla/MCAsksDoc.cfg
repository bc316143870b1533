SPECIFICATION InputSpec
CONSTANTS
  CommandLines <- MCCommandLines
  Paths = {"a", "b"}
  LobRows <- MCLobRows
  TradeRows <- MCTradeRows
  MaxRows = 2
  Depth = 2
  Files <- MCFiles
  BlockLen = 3
  MayThrow = TRUE
  Wanted <- MCWanted
  Policies <- MCPolicies
  Texts <- MCTexts
  Numbers <- MCNumbers
  ColumnCount = 2
  Contents <- MCContents
  MaxCells = 2
  Limit = 16
  Literals <- MCLiterals
INVARIANT AsksAreAsks
CHECK_DEADLOCK FALSE
