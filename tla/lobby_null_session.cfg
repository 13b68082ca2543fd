SPECIFICATION Spec
CONSTANTS
  Clients = {"c1", "c2"}
  MaxActors = 2
  MaxLosses = 1
PROPERTY LoginAnswered
CHECK_DEADLOCK FALSE
