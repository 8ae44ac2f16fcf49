SPECIFICATION Spec
CONSTANTS
  h1 = h1
  h2 = h2
  Handlers = {h1, h2}
CHECK_DEADLOCK FALSE
INVARIANTS KilledOnlyEarly DeafOnlyIfEarly
PROPERTIES StopHeard BootEnds
