SPECIFICATION FairSpec
CONSTANTS
  Candidates = 2
  SpinLimit = 2
PROPERTY
  StopAlwaysReturns
CHECK_DEADLOCK FALSE
