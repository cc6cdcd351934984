SPECIFICATION FairSpec
CONSTANTS
  Enabled <- AllCollectors
  HttpEnabled = FALSE
PROPERTIES
  CtrlCStops
