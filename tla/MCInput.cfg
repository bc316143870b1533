SPECIFICATION FairInputSpec
CONSTANTS
  CommandLines <- MCCommandLines
  Paths = {"a", "b"}
  LobRows <- MCLobRows
  TradeRows <- MCTradeRows
  MaxRows = 2
  Depth = 2
  Files <- MCFiles
  BlockLen = 3
  MayThrow = TRUE
  Wanted <- MCWanted
  Policies <- MCPolicies
  Texts <- MCTexts
  Numbers <- MCNumbers
  ColumnCount = 2
  Contents <- MCContents
  MaxCells = 2
  Limit = 16
  Literals <- MCLiterals
INVARIANTS
  ParsedAsMeant
  RowsReadAsMeant
  FrontIsIntact
  TradesReadAsMeant
  AssertionsHold
  NoDataRace
  LineStays
  ColumnsAreTold
  CellsReadBack
  NumberAsWritten
  PowerAsWritten
PROPERTIES
  ImplementsStream
  CallsReturn
  RowsFollowHeader
CHECK_DEADLOCK FALSE
