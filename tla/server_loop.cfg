SPECIFICATION FairSpec
CONSTANTS
  Threads = 1
  MaxSessions = 5
  MaxConns = 3
  MaxErrors = 1
  Fds = {5, 6, 7}
  StopRunnerFirst = TRUE
CHECK_DEADLOCK FALSE
INVARIANTS OneAccept HandlesDistinct
PROPERTIES Served
