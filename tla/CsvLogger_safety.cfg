SPECIFICATION Spec
CONSTANTS
  Devices = 2
  MaxRounds = 3
  MaxStarts = 2
INVARIANTS
  HeaderLeads
  TrueWhileGood
  LostAtTheEnd
