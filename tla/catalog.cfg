SPECIFICATION Spec
CONSTANTS
  Lines <- MCLines
  Words <- MCWords
  MaxLines = 5
CHECK_DEADLOCK FALSE
INVARIANTS ChildRanges NamesKnown GetIdExact CatalogIdButFirst
