SPECIFICATION FairSpec
CONSTANTS
  Calls = {"c1", "c2", "c3"}
  Req <- MCReq
  Res <- MCRes
  AppSubs <- NoSubs
  Threads = 1
  Strand = FALSE
CHECK_DEADLOCK FALSE
INVARIANTS ChecksHold NoFalseError FailedOnce
PROPERTIES Settled
