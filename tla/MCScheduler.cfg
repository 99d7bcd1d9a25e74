SPECIFICATION MCSpec
CONSTANTS
  s1 = s1
  s2 = s2
  Schedulers = {s1, s2}
  NoScheduler = NoScheduler
  LastOccurrence = 1
  Lease = 1
  r1 = r1
  r2 = r2
  Runs = {r1, r2}
  NoRun = NoRun
  ManualRuns = 1
  on = on
  Configs = {on}
  Off = Off
  Unloaded = Unloaded
  MaxEdits = 1
  Policies = {"skip", "one_active_run"}
  HazardSets <- CalmOrDisturbed
INVARIANTS OneJobPerOccurrence NoStaleEnqueue
PROPERTY SettlesWithoutHazards
CHECK_DEADLOCK FALSE
