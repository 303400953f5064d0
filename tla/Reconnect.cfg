SPECIFICATION FairSpec
CONSTANTS
  Null = Null
  k1 = k1
  k2 = k2
  Client <- TwoClients
  MaxLosses = 4
CHECK_DEADLOCK FALSE
INVARIANTS
  TypeOK
  NobodyForgotten
PROPERTIES
  RecoversWhileAlive
