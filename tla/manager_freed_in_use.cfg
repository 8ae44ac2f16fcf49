SPECIFICATION Spec
CONSTANTS
  t1 = t1
  t2 = t2
  p1 = p1
  p2 = p2
  NoPath = NoPath
  NoFile = NoFile
  Threads = {t1, t2}
  Objects = {1, 2}
  Paths = {p1, p2}
  Broken = {}
  BootConf = {p1}
  MaxTime = 3
  MaxRef = 1
  GoesOnAfter = {"inc", "dec", "window"}
  FdLimit = 5
  OutOfMemory = FALSE
CHECK_DEADLOCK FALSE
INVARIANTS CountsProtect
