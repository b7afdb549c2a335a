SPECIFICATION FairSpec
CONSTANTS
  Callers = {c1}
  Bridges = {c1}
  MaxEntries = 3
  MaxCalls = 1
  Threshold = 1
  MaxUpsets = 2
  Leftovers = {"none", "ready", "dead", "two"}
  External = External
  None = None
PROPERTIES StopLeavesNone DuplicatesReaped
CHECK_DEADLOCK FALSE
