SPECIFICATION FairSpec
CONSTANTS
  Base = 16
  NoByte = NoByte
  TxDepth = 3
  TxTimeoutPolls = 2
  ErrorRetryLimit = 2
  MaxErrors = 0
  Count = 5
  StartHeader <- MCStart
  NiosHeader <- MCNios
  PcHeader <- MCPc
  PassText <- MCPass
  FailText <- MCFail
  PcText <- MCText
  Newline <- MCLine
  Hex = 4
  Digit <- MCDigit
  NiosSeed = 7
  PcSeed = 12
  StateSize = 32
  RxDepth = 3
  HostIn = 1
  HostOut = 3
  Stale <- MCStale
  MaxStarts = 2
  MaxSessions = 2
  MaxFaults = 0
PROPERTIES WriteByteReturns
CHECK_DEADLOCK FALSE
