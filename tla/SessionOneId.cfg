SPECIFICATION Spec
CONSTANTS
  Null = Null
  LostTask = LostTask
  c1 = c1
  c2 = c2
  a1 = a1
  a2 = a2
  d1 = d1
  d2 = d2
  Channel <- Gateways2
  DeviceId <- Devices
  AddrId <- MCAddrId
  TokenIds <- OneId
  MqttReliable = FALSE
INVARIANTS
  TypeOK
  LiveSession
  OffIsLast
