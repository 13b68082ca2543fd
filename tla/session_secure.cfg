SPECIFICATION Spec
CONSTANTS
  Senders = {a, b}
  Threads = 2
  FrameLen = 2
  HandshakeSteps = 2
  MaxSends = 1
  MaxIn = 3
  Malformed = TRUE
CHECK_DEADLOCK FALSE
INVARIANTS StreamInOrder FramesDrained
PROPERTIES EstablishedFirst InFlightStable
