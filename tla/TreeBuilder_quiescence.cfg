SPECIFICATION Spec
CONSTANTS
  a = a
  b = b
  c = c
  d = d
  f = f
  NoIndex = NoIndex
  NumNodes = 4
  Elements <- RemoteElements
  Place <- RemotePlace
  Initial <- Empty
  Batch <- FirstBatch
  MaxPhases = 0
  MaxMoves = 0
  Smp = TRUE
  SettleFirst = TRUE
INVARIANT ClosedMeansQuiescent
CHECK_DEADLOCK FALSE
