SPECIFICATION Spec
CONSTANTS
  Null = Null
  t1 = t1
  t2 = t2
  k1 = k1
  k2 = k2
  d1 = d1
  d2 = d2
  d3 = d3
  d4 = d4
  Thread <- Threads
  Client <- Clients
  Order <- TwoClients
  First = k1
  DeviceId <- AllDevices
  Devices <- OwnDevices
  MqttReliable = FALSE
  MaxCalls <- Calls
SYMMETRY Sym
INVARIANTS
  TypeOK
  SubscribedWhereMapped
  SubscribedIsHeld
  BooksAgree
PROPERTIES
  GivenToLight
  InfoCounts
