SPECIFICATION FairSpec
CONSTANTS
  Files = {f, g}
  MaxVersion = 2
  MaxRuns = 2
  FileLimit = 1
  CheckEvery = 1
  FullEvery = 2
  Upsets = {"infra", "data", "full", "late"}
  MaxUpsets = 1
INVARIANTS NoEditForgotten OneRebuildWhileCalm
PROPERTIES GraphCatchesUp DriftDrained
CHECK_DEADLOCK FALSE
