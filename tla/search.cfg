SPECIFICATION SearchSpec
CONSTANTS
  Indexes <- MCIndexes
  Queries <- MCQueries
  TagId <- MCTagId
  MaxRecall = 2
  MaxTerm = 2
INVARIANTS RecallExact RankedByWeight
