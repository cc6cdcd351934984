SPECIFICATION Spec
CONSTANTS
  sda = sda
  eth0 = eth0
  Devices <- DiskAndNet
  W = 3
  MaxMoved = 2
SYMMETRY Symmetry
INVARIANTS
  RateIsTraffic
PROPERTIES
