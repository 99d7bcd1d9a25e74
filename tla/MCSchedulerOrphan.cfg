SPECIFICATION FairSpec
CONSTANTS
  s1 = s1
  Schedulers = {s1}
  NoScheduler = NoScheduler
  LastOccurrence = 1
  Lease = 1
  r1 = r1
  r2 = r2
  Runs = {r1, r2}
  NoRun = NoRun
  ManualRuns = 0
  on = on
  Configs = {on}
  Off = Off
  Unloaded = Unloaded
  MaxEdits = 0
  Policies = {"one_active_run"}
  HazardSets <- CrashesOnly
PROPERTY OccurrenceSettles
CHECK_DEADLOCK FALSE
