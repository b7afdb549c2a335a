SPECIFICATION Spec
CONSTANTS
  proxy = proxy
  mcp = mcp
  loop = loop
  removal = removal
  Segments = {proxy, mcp}
  PidSegments = {}
  Drains = {loop}
  BatchMax = 2
  MaxRounds = 2
  MaxRows = 3
  MaxHolds = 0
  AbortAt = {"saving"}
  MaxAborts = 1
  Poison = {}
  Invalid = {}
INVARIANT ZeroLoss
CHECK_DEADLOCK FALSE
