\* One tick is 5 s; the defaults of readExecutionConfig.
SPECIFICATION Spec
CONSTANTS
  LeaseTicks = 24
  HeartbeatTicks = 3
  FailureLimit = 3
  RequestTicks = 2
  GraceTicks = 6
INVARIANT GoneBeforeExpiry
INVARIANT OverlapBounded
