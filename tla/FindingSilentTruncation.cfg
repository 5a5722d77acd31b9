CONSTANTS
  Workers = {w1}
  Tokens = 1
  Framings = {"length", "chunked"}
SPECIFICATION StreamSpec
CHECK_DEADLOCK FALSE
INVARIANT BreakEndsConnection
