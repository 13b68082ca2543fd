SPECIFICATION Spec
CONSTANTS
  Pulses = {"root", "a", "b", "c", "d"}
  Root = "root"
  Parent <- Mixed
  Final = {"b"}
  Sessions = {"s1"}
  Topics = {"t1"}
  MaxSubs = 2
  OrderlyStop = TRUE
CHECK_DEADLOCK FALSE
INVARIANTS AllHeard ExactlyOnce DirectInterestsAlive SilentAfterStop
