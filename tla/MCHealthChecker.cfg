\* Two workers, so that a round has a second probe that may be stale; every
\* mode; a threshold of two, so that one failed probe does not trip.
CONSTANTS
  NumWorkers = 2
  FailureThreshold = 2
  Cooldown = 1
  FailureCap = 2
  Modes = {"serving", "failing", "sick", "down", "hung"}
  Sound = {}

SPECIFICATION CheckerSpec

PROPERTY ProbesRespectCooldown
INVARIANT GaugeTracksPool

PROPERTY RotationSettles
