\* Three workers, so that the scan of Next has something to skip and wraps; a
\* threshold of two, so that one failure alone does not trip; a cooldown of two
\* ticks, so that circuits opened at different instants expire at different
\* ticks.  The clock of the code outlives two cooldowns, its counts go beyond
\* the threshold.
CONSTANTS
  NumWorkers = 3
  FailureThreshold = 2
  Cooldown = 2
  FailureCap = 3
  Listed = 3
  Threshold = 2
  OpenTime = 2
  LastInstant = 6
  MostFailures = 4

SPECIFICATION PoolsSpec

INVARIANT CircuitConsistent
INVARIANT SnapshotShowsRouting
INVARIANT FairShare
INVARIANT ViewsAgree

PROPERTY ImplementsBreaker
PROPERTY ImplementsPool
