SPECIFICATION Spec
CONSTANTS
  Threads = 2
  MaxSessions = 2
  MaxTasks = 0
  StopRunnerFirst = TRUE
CHECK_DEADLOCK FALSE
INVARIANT SessionPresent
