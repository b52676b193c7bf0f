SPECIFICATION QuietSpec
CONSTANTS
  a = a
  b = b
  c = c
  d = d
  f = f
  NoIndex = NoIndex
  NumNodes = 3
  Elements <- RivalElements
  Place <- RivalPlace
  Initial <- RivalInitial
  Batch <- FirstBatch
  MaxPhases = 0
  MaxMoves = 1
  Smp = FALSE
  SettleFirst = FALSE
INVARIANT UpstreamFindsItsChild
CHECK_DEADLOCK FALSE
