SPECIFICATION ProxySpec
CONSTANTS
  Procs = {p1, p2}
  Torn = Torn
  Nobody = Nobody
INVARIANT SingleInstance
CHECK_DEADLOCK FALSE
