SPECIFICATION RpcSpec
CONSTANTS
  Null = Null
  LostTask = LostTask
  c1 = c1
  c2 = c2
  a1 = a1
  a2 = a2
  d1 = d1
  b1 = b1
  Channel <- Gateways
  DeviceId <- Devices
  AddrId <- Addr
  TokenIds <- OneRegisters
  MqttReliable = TRUE
  Browser <- Browsers
  MaxRequests = 2
INVARIANTS
  RpcTypeOK
  SteadyIsReported
  CalmIsExact
  OnlyAfterLogin
