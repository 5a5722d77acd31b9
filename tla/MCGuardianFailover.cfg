CONSTANTS
  NumWorkers = 2
  FailureThreshold = 2
  Cooldown = 1
  FailureCap = 2
  Modes = {"serving", "sick", "hung", "down"}
  Sound = {1}
  Requests = {r1, r2}
  MaxAttempts = 2
  Interruptions = {"stalled"}
  Stops = {}
SPECIFICATION GuardianSafetySpec
SYMMETRY HandlerSymmetry
CHECK_DEADLOCK FALSE
INVARIANT NoTrafficBeforeProbe
INVARIANT SoundNeverCharged
PROPERTY FailoverReachesSound
