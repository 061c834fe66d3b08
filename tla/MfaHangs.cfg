SPECIFICATION PageSpec
CONSTANTS
  i1 = i1
  i2 = i2
  a1 = a1
  a2 = a2
  f0 = f0
  b1 = b1
  NULL = NULL
  MaxRestarts = 1
  Identities = {i1}
  Attempts = {a1}
  BodiesArrive = TRUE
  Parts = {"refused"}
INVARIANT
  RefusedSignOutWins
