SPECIFICATION Spec
CONSTANTS
  Files = {f, g}
  MaxVersion = 2
  MaxRuns = 1
  FileLimit = 1
  CheckEvery = 2
  FullEvery = 3
  Upsets = {"late"}
  MaxUpsets = 1
INVARIANT EditsSurvive
CHECK_DEADLOCK FALSE
