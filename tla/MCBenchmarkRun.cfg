\* Three goroutines, so that one can fail, one be canceled by it and one be
\* between two requests; as many slots, so that the shared index overshoots.
\* Three samples make lists of every length from none to three, whose
\* percentiles fall on an element, between two and beside the last one.
CONSTANTS
  Goroutines = {g1, g2, g3}
  Measured = 3
  Warmup = 1
  MaxSamples = 3
  Durations = {0, 1, 4}
  Tokens = {1, 3}

SPECIFICATION ReportSpec
CHECK_DEADLOCK FALSE

INVARIANT SlotsNotShared
INVARIANT ErrorIsGenuine
INVARIANT CompleteUnlessInterrupted
INVARIANT NeighboursInside

PROPERTY RunReturns
