\* Two endpoints, blocks and buffers of two sizes.
SPECIFICATION FairSpec
CONSTANTS
  v1 = v1
  v2 = v2
  v3 = v3
  b1 = b1
  b2 = b2
  b3 = b3
  b4 = b4
  p = p
  q = q
  Values = {v1, v2, v3}
  Buffers = {b1, b2, b3, b4}
  Endpoints = {p, q}
  EpOf <- MixedEpOf
  Blocks <- MixedBlocks
  Size <- MixedSize
INVARIANTS
  NoMissedMatch
  BuffersUsedOnce
  DeliveredWhole
  QuiescenceSound
PROPERTIES
  EventuallyDelivered
\* the application may post the wrong buffers
CHECK_DEADLOCK FALSE
