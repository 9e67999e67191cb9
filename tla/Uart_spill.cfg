SPECIFICATION UartSpec
CONSTANTS
  BufLen = 3
  Labels = 3
  Bad = Bad
  Lengths = {0, 3}
  MaxTraffic = 4
INVARIANTS UartRxKept
CHECK_DEADLOCK FALSE
