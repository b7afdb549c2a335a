SPECIFICATION FairSpec
CONSTANTS
  proxy = proxy
  mcp = mcp
  loop = loop
  removal = removal
  Segments = {proxy, mcp}
  PidSegments = {mcp}
  Drains = {loop}
  BatchMax = 2
  MaxRounds = 2
  MaxRows = 2
  MaxHolds = 1
  AbortAt = {"reading", "pushing", "posted", "checking", "cleaning", "saving"}
  MaxAborts = 1
  Poison <- Refused
  Invalid <- Drifted
INVARIANTS NothingLost
PROPERTY EverythingSettles
CHECK_DEADLOCK FALSE
