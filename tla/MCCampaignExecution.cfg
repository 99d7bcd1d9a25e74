SPECIFICATION MCFairSpec
CONSTANTS
  Jobs = {"j1", "j2"}
  Workers = {"w1", "w2"}
  Keys = {"k1", "k2"}
  NoWorker = "none"
  NoJob = "none"
  NoKey = "none"
  LeaseTicks = 1
  AttemptLimits = {2}
  HazardSets <- CalmOrDisturbed
INVARIANTS NoOverlap SpawnedOnce OwnerEndsRun PassedRan
PROPERTIES ImplementsExecutionJobs EndedRunIsFinal EveryRunEnds StartupReconciles
CHECK_DEADLOCK FALSE
