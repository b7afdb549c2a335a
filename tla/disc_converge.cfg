SPECIFICATION FairSpec
CONSTANTS
  Bridges = {b1}
  Upgraded = {b1}
  Daemons = {d1, d2, d3}
  First = d1
  Scenes = {"stale"}
  MaxUpsets = 0
  None = None
PROPERTY UpgradeConnects
CHECK_DEADLOCK FALSE
