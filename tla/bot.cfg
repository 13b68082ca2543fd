SPECIFICATION FairSpec
CONSTANTS
  Owners = {"bot", "tick", "alarm"}
  Repeats = {"bot", "tick"}
  Stranded = {"bot"}
  Scripts <- AllSignals
  Script <- Flows
  Alone <- Signals
  MaxActs = 20
  MaxSlots = 3
  MaxWaits = 3
CHECK_DEADLOCK FALSE
INVARIANTS FlowSound StopReachesAll SlotsDistinct
PROPERTIES TimersFire
