SPECIFICATION MCSpec
CONSTANTS
  Run = {"a", "b"}
  Seed <- Seeds
  Operator = {"o", "p"}
  Capsule = {"c1", "c2"}
  Media = {"m"}
  Pictured = {"a"}
  Outcome <- Outcomes
  Limit = 3
INVARIANTS ObligationKept
PROPERTIES StartsAccounted ResolutionEarned
