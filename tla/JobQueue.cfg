SPECIFICATION FairSpec
CONSTANTS
  child = child
  Types = {1, 2, 3}
  Limit <- MCLimit
  Skip = {1, 3}
  Children = {child}
  Threads = 3
  MaxJobs = 4
CHECK_DEADLOCK FALSE
INVARIANTS
  WithinLimit
  TaskFindsJob
  NoJobStranded
  StoppedIsQuiet
PROPERTIES
  JobsRun
  QueueStops
