SPECIFICATION JobsFairSpec
CONSTANTS
  Jobs = {j1, j2}
  Workers = {w1, w2}
  Keys = {k1, k2}
  NoWorker = NoWorker
  NoJob = NoJob
  NoKey = NoKey
  LeaseTicks = 2
  AttemptLimits = {1, 2}
INVARIANT SoleExecutor
PROPERTIES ImplementsCampaignSlot EveryJobSettles
CHECK_DEADLOCK FALSE
