SPECIFICATION FairSpec
CONSTANTS
  Threads = 1
  MaxSessions = 4
  MaxTasks = 2
  StopRunnerFirst = TRUE
CHECK_DEADLOCK FALSE
INVARIANTS SessionPresent ConnectsCurrent NoneForgotten
PROPERTIES Restored
