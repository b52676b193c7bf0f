SPECIFICATION FairSpec
CONSTANTS
  a = a
  b = b
  c = c
  d = d
  f = f
  NoIndex = NoIndex
  NumNodes = 4
  Elements <- RootedElements
  Place <- RootedPlace
  Initial <- Empty
  Batch <- RootedBatch
  MaxPhases = 1
  MaxMoves = 1
  Smp = TRUE
  SettleFirst = TRUE
INVARIANTS
  CountsBalance
  TreeWhenSettled
  NoAbort
PROPERTIES
  EventuallyClosed
CHECK_DEADLOCK FALSE
