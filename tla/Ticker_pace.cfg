SPECIFICATION Spec
CONSTANTS
  Interval = 3
  MaxCollect = 8
  MaxLate = 2
  MaxTime = 30
INVARIANTS
  NoTickLost
  LatenessDoesNotAddUp
  StopIsPrompt
