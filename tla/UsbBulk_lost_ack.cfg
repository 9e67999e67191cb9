SPECIFICATION Spec
CONSTANTS
  InMax = 2
  OutMax = 2
  CtrlMax = 1
  Faults = {"in handshake"}
  MaxFaults = 1
  MaxIn = 3
  MaxOut = 0
  MaxCtrl = 0
INVARIANTS InNotLost
CHECK_DEADLOCK TRUE
