SPECIFICATION FairSpec
CONSTANTS
  cpu = cpu
  w1 = w1
  w2 = w2
  None = None
  Routes <- OneRoute
  Workers <- TwoWorkers
  MaxRounds = 2
INVARIANTS
  NothingRunsOn
PROPERTIES
  ImplementsRegister
  RequestsAreAnswered
  StopEnds
