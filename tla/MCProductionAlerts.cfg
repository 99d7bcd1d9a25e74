SPECIFICATION MCSpec
CONSTANTS
  LastRun = 4
  Scheduled = {4}
  Dispatchers = {d1, d2}
  MaxAttempts = 2
  Budget = 1
  KeyLife = 2
INVARIANTS OneEmail RecoveryEarned RecoveryReported
PROPERTY EveryNotificationEnds
