SPECIFICATION Spec
CONSTANTS
  Nodes = {o, a}
  Observer = o
  o = o
  a = a
  TTL = 5
  MaxDelay = 1
  MaxFlight = 2
  MaxPages = 2
PROPERTIES
  SteadyIsCounted
  DeadIsForgotten
  CountConverges
