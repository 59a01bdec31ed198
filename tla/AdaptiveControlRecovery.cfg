SPECIFICATION FairSpec
CONSTANTS
  Samples <- CalmOrCritical
  TargetFps = 60
  Capacity = 1
  MaxStrain = 6
PROPERTY
  ReliefRecovers
