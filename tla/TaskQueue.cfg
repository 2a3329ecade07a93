CONSTANTS
  k1 = k1
  k2 = k2
  k3 = k3
  Keys <- ThreeKeys
  NoKey = NoKey
SPECIFICATION FairSpec
INVARIANTS TypeOK QueueMatchesSets ShutdownDrains
PROPERTIES ShutdownReturns EveryKeyIsSynced ImplementsPool
CHECK_DEADLOCK FALSE
