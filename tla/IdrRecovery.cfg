SPECIFICATION FairSpec
CONSTANTS
  MinForced = 1
  MinRequested = 2
  Period = 3
  KfLimit = 2
  LossLimit = 1
  Capacity = 2
  MaxRuns = 3
  MaxRefused = 2
INVARIANTS
  TypeOK
  NoStaleDelta
  WaitBounded
PROPERTIES
  FreezeEnds
