SPECIFICATION DBSpec
CONSTANTS
  Sinks <- TwoSinks
  NumLabels <- TwoAndOne
  Keyed <- OnlySys
  MaxCalls = 3
  MaxTime = 2
INVARIANTS
  RoundIsAtomic
  SessionIsClean
  ReportIsTrue
  OneSilentLoss
