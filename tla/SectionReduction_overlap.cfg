SPECIFICATION FairSpec
CONSTANTS
  Sections <- Overlapping
  MaxRounds = 2
INVARIANTS
  ContributedOnce
  ResultsComplete
  NothingStranded
  PortsAwait
PROPERTIES
  EventuallyReduced
CHECK_DEADLOCK FALSE
