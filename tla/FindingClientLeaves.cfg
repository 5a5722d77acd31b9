CONSTANTS
  NumWorkers = 2
  FailureThreshold = 2
  Cooldown = 1
  FailureCap = 2
  Modes = {"serving"}
  Sound = {0, 1}
  Requests = {r1}
  MaxAttempts = 2
  Interruptions = {"canceled"}
  Stops = {}
SPECIFICATION GuardianSpec
CHECK_DEADLOCK FALSE
INVARIANT SoundNeverCharged
