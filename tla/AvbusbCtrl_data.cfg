SPECIFICATION TrafficSpec
CONSTANTS
  Byte = {1,2,3,4}
  NoByte = NoByte
  Depth = 2
  WarmUp = 1
  UsedMax = 1
  Commands <- AllTraffic
  MaxTx = 4
  MaxRx = 3
  MaxConfig = 0
  MaxReset = 1
  FewTx = 1
  FewRx = 1
INVARIANTS IInv NoFifoError BytesConserved
PROPERTIES TxChannelSpec RxChannelSpec
CHECK_DEADLOCK TRUE
