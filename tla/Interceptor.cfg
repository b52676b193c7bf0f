SPECIFICATION FairSpec
CONSTANTS
  a = a
  b = b
  r = r
  x = x
  y = y
  m1 = m1
  m2 = m2
  None = None
  PE = {a, b}
  Idx = {r, x, y}
  Root = r
  Home <- ChainHome
  Msgs = {m1, m2}
  Target <- ChainTarget
  MaxLives = 1
  MaxMoves = 1
INVARIANTS
  Conserved
  ForwardedNotBuffered
  OnlyHeirsReceive
PROPERTIES
  EventuallySettled
CHECK_DEADLOCK FALSE
