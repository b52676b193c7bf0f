SPECIFICATION FairSpec
CONSTANTS
  None = None
  foo = foo
  bar = bar
  baz = baz
  p1 = p1
  p2 = p2
  p3 = p3
  x1 = x1
  a1 = a1
  b1 = b1
  a2 = a2
  b2 = b2
  d1 = d1
  e1 = e1
  Coms <- CaseComs
  Boxes = {foo, bar, baz}
  Ports = {p1, p2, p3}
  Inputs <- CaseInputs
  Out <- CaseOut
  Statements <- CaseStatements
  Persistent = {e1}
  Count <- CaseCount
INVARIANTS
  ValuesKept
  OneOfEach
  NoAbort
  NothingLingers
  PairedInOrder
PROPERTIES
  EventuallyAwake
CHECK_DEADLOCK FALSE
