SPECIFICATION FairSpec
CONSTANTS
  Bridges = {b1, b2}
  Upgraded = {b1}
  Daemons = {d1, d2, d3}
  First = d1
  Scenes = {"cold", "served", "stale", "leftover"}
  MaxUpsets = 1
  None = None
INVARIANTS TypeOK LockHasSpawner
PROPERTIES AloneStays BridgeConnects ConnectsWhenServed
CHECK_DEADLOCK FALSE
