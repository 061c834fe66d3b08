\* Clocks, calls and requests are bounded, so a part may stop.
SPECIFICATION InfrastructureSpec
CONSTANTS
  x1 = x1
  x2 = x2
  None = None
  Capacity = 1
  Callers = {tab}
  Bodies = {x1, x2}
  Digest <- TheDigest
  MaxRetries = 1
  MaxCalls = 2
  Crashes = 1
  Workers = {x1, x2}
  Requests = {r1, r2, r3}
  Limit = 2
  Period = 3
  Wait = 1
  Horizon = 6
  Threads = {x1, x2}
  Kids = {k1}
  Ttl = 3
  MinRefresh = 2
  Backoff = 1
  MaxTime = 5
  Never = Never
CHECK_DEADLOCK FALSE
SYMMETRY Symmetry
INVARIANTS
  RevokedKeyWindow
  NewKeyWindow
  FetchesAreThrottled
  NoRequestIsRepeated
  WindowIsExact
