SPECIFICATION Spec
CONSTANTS
  t1 = t1
  t2 = t2
  p1 = p1
  p2 = p2
  NoPath = NoPath
  NoFile = NoFile
  Threads = {t1, t2}
  Objects = {1, 2}
  Paths = {p1, p2}
  Broken = {p2}
  BootConf = {p1, NoPath, NoFile}
  MaxTime = 3
  MaxRef = 1
  GoesOnAfter = {"inc", "dec", "window"}
  FdLimit = 3
  OutOfMemory = TRUE
CHECK_DEADLOCK FALSE
SYMMETRY ThreadSymmetry
VIEW NoHistory
INVARIANTS TypeOK ServedComplete ConfNotMissed
PROPERTIES MonotonicServe VersionFileNamesServed
