SPECIFICATION FairSpec
CONSTANTS
  Enabled <- AllCollectors
  HttpEnabled = TRUE
INVARIANTS
  PowerIsThisRound
  OrderlyExit
PROPERTIES
  StopIsFinal
  ImplementsService
  StopInLoopEnds
  NobodyStarves
