SPECIFICATION FairSpec
CONSTANTS
  Sect <- FourMembers
  Broadcasts = {b1, b2, b3}
  InOrder = TRUE
PROPERTIES TotallyOrdered EventuallyReceived
CHECK_DEADLOCK FALSE
