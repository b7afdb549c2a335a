SPECIFICATION Spec
CONSTANTS
  proxy = proxy
  mcp = mcp
  loop = loop
  removal = removal
  Segments = {proxy}
  PidSegments = {}
  Drains = {loop, removal}
  BatchMax = 2
  MaxRounds = 2
  MaxRows = 3
  MaxHolds = 1
  AbortAt = {"saving"}
  MaxAborts = 1
  Poison <- Refused
  Invalid <- Drifted
INVARIANT NothingLost
CHECK_DEADLOCK FALSE
