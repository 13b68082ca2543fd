SPECIFICATION FairSpec
CONSTANTS
  Protocols = {"stream", "plain", "secure"}
  Base = 2
  TopicWidth = 1
  LenWidth = 2
  MaxSend = 3
  Nonces = 2
  Topics = {1}
  Payloads <- MCPayloads
  MaxSends = 2
  Resets = TRUE
CHECK_DEADLOCK FALSE
INVARIANTS InFlightDecodes
PROPERTIES ImplementsFrames FramesArrive
