SPECIFICATION FairSpec
CONSTANTS
  Callers = {c1, c2}
  Bridges = {}
  MaxEntries = 5
  MaxCalls = 2
  Threshold = 1
  MaxUpsets = 1
  Leftovers = {"none", "crashed"}
  External = External
  None = None
INVARIANTS WaitersAreRegistered EntryIsBacked SettledOwesNobody
PROPERTIES OnlyLastWaiterKills EnsureAnswered
CHECK_DEADLOCK FALSE
