CONSTANTS
  NumWorkers = 2
  FailureThreshold = 2
  Cooldown = 1
  FailureCap = 2
  Modes = {"serving", "down"}
  Sound = {}
  Requests = {r1}
  MaxAttempts = 2
  Interruptions = {}
  Stops = {}
SPECIFICATION GuardianSpec
CHECK_DEADLOCK FALSE
INVARIANT TimeoutMeansDeadline
