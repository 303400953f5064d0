SPECIFICATION FairSpec
CONSTANTS
  Null = Null
  k1 = k1
  k2 = k2
  Client <- TwoClients
  MaxLosses = 2
CHECK_DEADLOCK FALSE
PROPERTIES
  Recovers
