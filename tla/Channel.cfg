SPECIFICATION FairSpec
CONSTANTS
  Addr <- MCAddr
  Ids <- MCIds
  Text <- MCText
  Messages <- MCMessages
  MqttReliable = FALSE
  MaxBytes = 10
CHECK_DEADLOCK FALSE
INVARIANTS
  ChannelTypeOK
  Transparent
  LinesRegister
PROPERTIES
  VanishedIsNoticed
