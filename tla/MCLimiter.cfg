\* Two clients, so that the calls of one clean up after the other.  A burst of
\* two tokens, half a token per tick, so that refills leave fractions.  The
\* idle limit is just enough to refill a bucket; cleanups are rarer than ticks.
\* The clock of the code runs until an age reaches the bound of Limiter and a
\* deleted bucket comes back.
CONSTANTS
  Clients = {alice, bob}
  Rate = 1
  Capacity = 4
  Cost = 2
  IdleLimit = 4
  CleanupEvery = 2
  AgeCap = 7
  Window = 5
  Keys = {alice, bob}
  PerTick = 1
  Burst = 4
  Whole = 2
  Hour = 4
  Minute = 2
  LastInstant = 14

SPECIFICATION LimitersSpec

INVARIANT IdleBucketsDropped
INVARIANT RateBounded

PROPERTY ImplementsTokenBucket
PROPERTY ImplementsLimiter
