\* Two goroutines and a budget of two, so that both have a request under way
\* and both find it used up; a second instant, past the time to stop; two
\* observations, so that the target can be seen to fail and to recover.
CONSTANTS
  Goroutines = {g1, g2}
  MaxRequests = 2
  Duration = 1
  Horizon = 2
  MaxObservations = 2

SPECIFICATION AvailabilitySpec
CHECK_DEADLOCK FALSE

INVARIANT FaultDuringWorkload
INVARIANT ScanMeetsDefinition
INVARIANT ReportIsTrue

PROPERTY AvailabilityReturns
PROPERTY ImplementsWorkShare
