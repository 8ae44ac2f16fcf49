SPECIFICATION Spec
CONSTANTS
  r1 = r1
  r2 = r2
  Runs = {r1, r2}
  Keep = 2
  Polls = 1
  MaxClock = 5
  FlagIsAtomic = TRUE
  BuildFails = TRUE
CHECK_DEADLOCK FALSE
INVARIANTS ConfDirExists FinishMeansServed BuildsOwnData PublishedFinished
PROPERTIES NoRollback ConfReachesServer
