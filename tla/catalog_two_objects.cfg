SPECIFICATION Spec
CONSTANTS
  Lines <- MCLines
  Words <- MCWords
  MaxLines = 2
CHECK_DEADLOCK FALSE
INVARIANTS OneObject
