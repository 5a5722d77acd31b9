CONSTANTS
  NumWorkers = 2
  FailureThreshold = 1
  Cooldown = 1
  FailureCap = 1
  Modes = {"serving", "hung", "down"}
  Sound = {1}
  Requests = {r1}
  MaxAttempts = 2
  Interruptions = {"expired", "canceled", "stalled"}
  Stops = {"signal", "failure"}
SPECIFICATION GuardianSpec
CHECK_DEADLOCK FALSE
INVARIANT GuardianTypeOK
INVARIANT TimeoutHasCause
PROPERTY SoundChargedForCause
PROPERTY ShutdownCompletes
