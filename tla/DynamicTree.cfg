SPECIFICATION Spec
CONSTANTS
  r = r
  x = x
  y = y
  u = u
  j = j
  None = None
  Idx = {r, x, y, u, j}
  Root = r
  Parent <- TreeParent
  Joiners = {j}
  Leavers = {x, y, u}
  MaxRounds = 2
  Careful = TRUE
INVARIANTS
  ResultsComplete
  TreeRestored
  NothingHangs
CHECK_DEADLOCK FALSE
