SPECIFICATION ConsoleSpec
CONSTANTS Runs = {r1, r2}
          Old = {r2}
          Slots = {s1, s2}
          MaxLists = 1
          MaxConfirms = 1
          CacheLimit = 1
          Null = null
          Failed = failed
SYMMETRY AnyRequest
INVARIANTS ShowsSelected ForgottenAnswers RestsOnTheEnd
