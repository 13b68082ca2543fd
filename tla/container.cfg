SPECIFICATION Spec
CONSTANTS
  SeqRange = 4
  MaxActors = 3
  MaxIds = 5
  Kinds = {"name", "session"}
  Keys = {"x", "y"}
INVARIANTS IdsDistinct IndexSound FoundUnderOwn
CHECK_DEADLOCK FALSE
