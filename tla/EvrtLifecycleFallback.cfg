SPECIFICATION Spec
CONSTANTS
  Candidates = 2
  SpinLimit = 2
INVARIANT
  FallbackKeepsRelay
CHECK_DEADLOCK FALSE
