SPECIFICATION EngineSpec
CONSTANTS
  Lines <- MCLines
  FieldConf <- MCFieldConf
  TagFile <- MCTagFile
  CatalogId <- MCCatalogId
  Tokens <- MCTokens
  Databases <- MCDatabases
  Inserts <- MCInserts
  Decay <- MCDecay
  MaxLines = 3
  HitMod = 2
  Indexes = {}
  Queries <- MCQueries
  TagId <- MCTagId
  MaxRecall = 2
  MaxTerm = 2
CHECK_DEADLOCK FALSE
INVARIANTS TypeOK Aligned InvertedIndex HitRuns ListsDescend FailedBuildRefused SearchSound SearchComplete AnswersOnce ResourcesFound
