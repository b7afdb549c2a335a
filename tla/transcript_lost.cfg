SPECIFICATION Spec
CONSTANTS
  c1 = c1
  c2 = c2
  s1 = s1
  s2 = s2
  None = None
  Convs = {c1, c2}
  Sessions = {s1}
  Quiet = 1
  Ttl = 1
  Cap = 1
  MaxTurns = 2
  MaxFiles = 2
  MaxClaims = 2
  MaxUpsets = 1

INVARIANT Durable
CHECK_DEADLOCK FALSE
