SPECIFICATION FairSpec
CONSTANTS
  Senders = {a, b}
  Threads = 1
  FrameLen = 2
  HandshakeSteps = 0
  MaxSends = 1
  MaxIn = 3
  Malformed = TRUE
CHECK_DEADLOCK FALSE
INVARIANTS NothingLost ClosedOnce
PROPERTIES NoFrameAfterClosed Received PeerLossNoticed
