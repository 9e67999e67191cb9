SPECIFICATION ClockedSpec
CONSTANTS
  Byte = {1}
  NoByte = NoByte
  Depth = 1
  WarmUp = 2
  UsedMax = 1
  Commands <- InterruptTraffic
  MaxTx = 2
  MaxRx = 1
  MaxConfig = 1
  MaxReset = 1
PROPERTIES WritesComplete BytesDelivered ReadsComplete StatusConverges
CHECK_DEADLOCK TRUE
