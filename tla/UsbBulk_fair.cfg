SPECIFICATION FairSpec
CONSTANTS
  InMax = 2
  OutMax = 2
  CtrlMax = 1
  Faults <- DataFaults
  MaxFaults = 1
  MaxIn = 2
  MaxOut = 3
  MaxCtrl = 1
PROPERTIES OutDelivered InDelivered TransferEnds
CHECK_DEADLOCK TRUE
