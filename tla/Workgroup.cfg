\* Two tasks, one after the other, on four workers.
SPECIFICATION FairSpec
CONSTANTS
  None = None
  N = 4
  MaxTasks = 2
  MaxIters = 2
  FirstIt <- SameIt
  Concurrent = FALSE
INVARIANTS
  ContributionsAgree
  GhostsOfThisIteration
  NothingOverlooked
PROPERTIES
  InLockstep
CHECK_DEADLOCK FALSE
