SPECIFICATION Spec
CONSTANTS
  Byte = {1}
  NoByte = NoByte
  Depth = 1
  WarmUp = 1
  UsedMax = 1
  Commands <- AllTraffic
  MaxTx = 1
  MaxRx = 1
  MaxConfig = 0
  MaxReset = 0
PROPERTIES StatusReadReturnsSnapshot
CHECK_DEADLOCK TRUE
