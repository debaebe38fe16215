SPECIFICATION FairSpec
CONSTANTS
  Lobes = 2
  McEvery = 2
  McPaths = TRUE
  HighWater = 2
  BatchSize = 2
  MaxPulses = 4
  MaxRuns = 2
INVARIANTS
  CountersAgree
  ReadoutsInOrder
  ReadoutsJoinVault
  ClosedVaultComplete
  OneRunPersisted
PROPERTIES
  QueueServed
CHECK_DEADLOCK FALSE
