CONSTANTS
  Kind <- MCKind
  Graphs <- MCGraphs
  Roots <- MCRoots
  ErrorChecking = FALSE
  MaxHops = 2
SPECIFICATION Spec
INVARIANTS
  CopyFaithful
  NoAbort
CHECK_DEADLOCK FALSE
