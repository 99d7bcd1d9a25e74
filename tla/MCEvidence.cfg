SPECIFICATION MCSpec
CONSTANTS
  i1 = i1
  i2 = i2
  Items = {i1, i2}
  LastOccurrence = 2
  m1 = m1
  m2 = m2
  Operators = {m1, m2}
  NoOperator = NoOperator
INVARIANTS Readable SourceKept ReclaimedOnce
PROPERTIES RemovalCovered ImplementsEvidenceBundle OccurrenceCloses
CHECK_DEADLOCK FALSE
