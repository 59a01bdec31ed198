SPECIFICATION FairSpec
CONSTANTS
  Configs <- AllConfigs
  Jitters = {0, 1}
  Sizes = {1, 2}
  MaxOffers = 4
INVARIANTS
  TypeOK
  BytesAgree
  InOrder
  Conserved
  LimitsHeld
  ClosedIsEmpty
  WaitHonoured
PROPERTIES
  FifoSpec
  EveryUnitLeaves
  StopEndsConsumer
