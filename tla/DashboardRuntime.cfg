SPECIFICATION FairSpec
CONSTANTS Commands = {c1, c2}
          Children = {"worker", "dashboard"}
          Null = null
          Dead = dead
INVARIANTS OneOwner ServedBuild
PROPERTY EveryCommandAnswers
