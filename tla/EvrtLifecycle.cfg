SPECIFICATION FairSpec
CONSTANTS
  Candidates = 2
  SpinLimit = 2
INVARIANTS
  TypeOK
  ClientIsPeer
  StreamEndsPipeline
  EncoderEndsAlone
PROPERTIES
  ClientTeardown
  StopReturns
  PeerLossNoticed
  VideoFallsBack
CHECK_DEADLOCK FALSE
