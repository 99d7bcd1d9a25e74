SPECIFICATION LockFairSpec
CONSTANTS
  Clients = {c1, c2, c3}
  NoClient = NoClient
  StaleTicks = 1
  HazardSets <- CalmOrDisturbed
INVARIANT NoLostUpdate
PROPERTY EveryUpdateEnds
CHECK_DEADLOCK FALSE
