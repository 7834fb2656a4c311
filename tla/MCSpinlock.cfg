CONSTANTS
  Cpus = {c1, c2, c3}
  NoCpu = NoCpu
  Empty = Empty
  Modulus = 3
  InOrder = TRUE
SPECIFICATION FairSpec
INVARIANTS MutualExclusion NeverPanics SeesEarlierUpdates
PROPERTIES ImplementsMutex Progress
