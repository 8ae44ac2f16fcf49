SPECIFICATION RequestSpec
CONSTANTS
  GetId <- MCGetId
  Tokens <- MCTokens
  Requests <- MCRequests
  CatalogInfoConf <- MCCatalogInfoConf
  MaxFound = 5
  INT_MAX = 15
CHECK_DEADLOCK FALSE
INVARIANTS SecondLookup
