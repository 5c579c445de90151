SPECIFICATION FairSpec
CONSTANTS
  Threads = 3
  MaxTasks = 3
CHECK_DEADLOCK FALSE
INVARIANTS
  PausedIsIdle
PROPERTIES
  ImplementsTaskPool
  WorkersStop
