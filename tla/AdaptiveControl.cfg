SPECIFICATION FairSpec
CONSTANTS
  Samples <- MixedSamples
  TargetFps = 60
  Capacity = 1
  MaxStrain = 6
INVARIANT
  TypeOK
PROPERTIES
  JitterSettles
  CalmNeverDegrades
