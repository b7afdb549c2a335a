SPECIFICATION FairSpec
CONSTANTS
  w1 = w1
  w2 = w2
  r1 = r1
  t1 = t1
  x1 = x1
  None = None
  Writes = {w1, w2}
  Txs = {t1}
  Reads = {r1}
  Raws = {x1}
  Loads <- Mixes
  Statements = 2
  DegradeAfter = 1
  RecycleAfter = 2

PROPERTY GivenUpIsDiscarded
CHECK_DEADLOCK FALSE
