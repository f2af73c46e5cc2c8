SPECIFICATION NetworkSpec
CONSTANTS
  Buffers = {0, 1}
  EventBuffers = {1}
  SubCap = 2
  CplCap = 2
  MaxPacket = 7
  Reserved = 3
  MaxTrans = 2
  Commands = {"scan", "connect", "disconnect", "delete", "replace"}
  QueueLimit = 1
  TxLimit = 1
  TxBuffers = 1
  Rx = {1}
  CoreRetires = FALSE
  Cancellable = {1}
  MaxRequests = 2
  MaxLinks = 1
  MaxFrames = 1
  MaxRing = 1
  MaxQueue = 2
  MaxFaults = 1
INVARIANTS
  WifiSafe
PROPERTIES
  NetworkServed
CHECK_DEADLOCK FALSE
