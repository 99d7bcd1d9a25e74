SPECIFICATION Spec
CONSTANTS Kinds = {"text", "media", "reveal-later"}
          Routes = {"token", "tokenless"}
INVARIANTS PassedPersisted CapsuleAccounted VerdictEarned
