CONSTANT Wishes <- MCWishes
SPECIFICATION FairSpec
INVARIANTS TypeOK
PROPERTIES
  GameChoiceLocked
  GameCommits
  SchedulerReturns
