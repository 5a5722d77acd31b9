\* Two workers, so that one can fail before the other is committed to; two
\* tokens, so that a stream can break between them.
CONSTANTS
  Workers = {w1, w2}
  Tokens = 2
  Framings = {"length", "chunked"}

SPECIFICATION StreamSpec
CHECK_DEADLOCK FALSE

INVARIANT OneWorkersStream
INVARIANT UnchargedMeansWhole
INVARIANT TruncationVisible
INVARIANT SuccessMeansWhole

PROPERTY EventsArrive
