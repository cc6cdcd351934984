SPECIFICATION Spec
CONSTANTS
  Count <- TwoTwoOne
  MaxWatts = 2
INVARIANTS
  ContextIsThere
PROPERTIES
  TotalNeverTooHigh
