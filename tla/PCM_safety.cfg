SPECIFICATION PCMSpec
CONSTANTS
  HangLimit = 3
  MaxTime = 4
  MaxEpoch = 3
INVARIANTS
  ElapsedIsTheInterval
  HangIsBounded
PROPERTIES
  IntervalsAdjoin
  SpikeNeedsFailedReset
