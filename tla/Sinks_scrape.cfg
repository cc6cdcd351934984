SPECIFICATION Spec
CONSTANTS
  NumFamilies = 2
  NumDevices = 3
  MaxRounds = 3
INVARIANTS
  SinksAgree
  ScrapeIsRecent
  FamilyHoldsTogether
