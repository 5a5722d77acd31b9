CONSTANTS
  NumWorkers = 2
  FailureThreshold = 2
  Cooldown = 1
  FailureCap = 2
  Modes = {"serving", "failing", "hung"}
  Sound = {1}
  Requests = {r1}
  MaxAttempts = 2
  Interruptions = {"expired", "canceled"}
  Stops = {}
SPECIFICATION GuardianSpec
CHECK_DEADLOCK FALSE
PROPERTY EveryRequestAnswered
PROPERTY RestoredWorkerReturns
PROPERTY DeadWorkerLeaves
PROPERTY ImplementsExchange
PROPERTY RequestsAdvance
