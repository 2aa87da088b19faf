SPECIFICATION MotionSpec
CONSTANTS
  poller = poller  o1 = o1  d1 = d1
  Poller = poller
  Operators = {o1}
  Dispatchers = {d1}
  StopInput = TRUE
  Stale = 1
  ReadTime = 1
  Period = 1
  Deadline = 0
  Timeout = 2
  n1 = n1  n2 = n2  t1 = t1
  Nodes = {n1, n2}
  Workers = {t1}
  Home <- PairHome
  None = None
  TTL = 2
  MaxTime = 3
  MaxFence = 3
INVARIANTS PermissionIsFresh TermHasOneHolder LeaderHoldsLease
PROPERTIES NoGrantUnderHalt ClearIsConfirmed WedgedPollHalts ImplementsLeadership
CHECK_DEADLOCK FALSE
