SPECIFICATION PipesSpec
CONSTANTS
  InMax = 2
  OutMax = 2
  CtrlMax = 1
  Faults <- AllFaults
  MaxFaults = 2
  MaxIn = 3
  MaxOut = 3
  MaxCtrl = 1
  CTRL_MAXPACKETSIZE = 3
  CDC_DEV_DESCR_LENGTH = 4
  CDC_CONF_DESCR_LENGTH = 7
  CDC_LINE_CODING_LENGTH = 2
  LengthMax = 8
  HostAddresses = {0, 1}
  HostLengths = {3, 9}
  HostCodings = {1, 2}
  MaxTransfers = 4
  MaxLineFaults = 1
  MaxBusResets = 2
INVARIANTS OutExactlyOnce InExactlyOnce BulkInv HostAndDeviceAgree
PROPERTY TransfersRight
CHECK_DEADLOCK FALSE
