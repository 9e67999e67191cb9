SPECIFICATION Spec
CONSTANTS
  InMax = 2
  OutMax = 2
  CtrlMax = 1
  Faults = {"token crc"}
  MaxFaults = 1
  MaxIn = 0
  MaxOut = 2
  MaxCtrl = 1
INVARIANTS OutConserved
CHECK_DEADLOCK TRUE
