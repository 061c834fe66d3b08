\* Calls are bounded, so a part may stop.
SPECIFICATION FairProgress
CONSTANTS
  i1 = i1
  a1 = a1
  a2 = a2
  c1 = c1
  c2 = c2
  w1 = w1
  w2 = w2
  fee = fee
  buy = buy
  other = other
  t1 = t1
  t2 = t2
  NULL = NULL
  Identities = {i1}
  Attempts = {a1, a2}
  MaxRestarts = 1
  BodiesArrive = TRUE
CHECK_DEADLOCK FALSE
PROPERTIES
  RevokedViewIsHidden
  LockersAreAnswered
  CircuitRecovers
