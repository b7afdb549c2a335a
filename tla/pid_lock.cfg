SPECIFICATION ProxyFairSpec
CONSTANTS
  Procs = {p1, p2, p3}
  Torn = Torn
  Nobody = Nobody
INVARIANTS HeldLockDenies WedgedIsKilled
PROPERTIES AcquireSettles FileComesBack
CHECK_DEADLOCK FALSE
