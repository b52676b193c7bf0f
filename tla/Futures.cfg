SPECIFICATION FairSpec
CONSTANTS
  a = a
  b = b
  c = c
  f1 = f1
  f2 = f2
  f3 = f3
  f4 = f4
  f5 = f5
  None = None
  Element = {a, b, c}
  Future = {f1, f2, f3, f4, f5}
  Source <- MixedSource
  Wants <- MixedWants
  Plain = {b, c}
INVARIANTS
  ValuesConserved
  NothingStranded
PROPERTIES
  FirstValueTaken
  EventuallyResumed
CHECK_DEADLOCK FALSE
