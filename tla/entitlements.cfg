SPECIFICATION FairSpec
CONSTANTS
  t1 = t1
  t2 = t2
  s1 = s1
  s2 = s2
  Job = Job
  None = None
  Tokens = {t1, t2}
  Shells = {s1}
  Grace = 1
  MaxSkew = 1
  MaxUpsets = 1
INVARIANTS NothingOutlivesLogin MarkerIsTrue
PROPERTIES ValidLoginStays LoginGetsPlan RevokedLapses
CHECK_DEADLOCK FALSE
