SPECIFICATION RelaySpec
CONSTANTS
  Null = Null
  LostTask = LostTask
  c1 = c1
  c2 = c2
  a1 = a1
  a2 = a2
  d1 = d1
  k1 = k1
  Channel <- Gateways
  DeviceId <- Devices
  AddrId <- Addr
  TokenIds <- OneRegisters
  MqttReliable = FALSE
  Mqtt <- Clients
  ClientOf <- OneClient
  MaxCommands = 1
INVARIANTS
  RelayTypeOK
  SteadyIsServed
  SteadyIsSafe
