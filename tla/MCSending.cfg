SPECIFICATION MCSpec
CONSTANTS
  Clients = {c1}
  Strings <- Mixed
  MaxPut = 2
  WriteCap = 4
  ReadCap = 4
  WaitCap = 2
  Spacing = "sent"
PROPERTIES EveryByteSent SendsReceived
CHECK_DEADLOCK FALSE
