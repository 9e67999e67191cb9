SPECIFICATION BspSpec
CONSTANTS
  uart = uart
  jtag = jtag
  fs = fs
  file = file
  Units = {"uart", "jtag", "irq", "alarm"}
  BufLen = 2
  Labels = 3
  Bad = Bad
  Lengths = {2}
  MaxTraffic = 3
  JBufLen = 2
  JDepth = 1
  JAlmost = 0
  JLabels = 4
  JLengths = {3}
  JMaxTraffic = 3
  DefaultTimeout = 2
  INT_MAX = 5
  Devices = {uart, jtag}
  MountOf <- MCMountOf
  Null = null
  Provides <- MCProvides
  NoDev = none
  Stdout = jtag
  Stdin = jtag
  Stderr = null
  MaxFd = 5
  Modes = {{"write"}}
  NIrq = 3
  MaxNesting = 2
  MaxRaises = 3
  LineWords = 2
  NLines = 3
  DSets = 2
  ISets = 1
  Code = {0, 1, 2}
  Alarms = {a1, a2}
  ListHead = head
  Word = 4
  Intervals = {0, 1, 2}
  Rate = 2
  MaxTimeouts = 6
  TickWord = 32
  TickRate = 2
  US = 6
  Dates <- MCDates
  MaxSets = 2
  Half = 3
  ResetPeriod = 2
  HeapStart = 3
  HeapLimit = 22
  Increments = {1, 4, 5, 8}
  MaxBlocks = 4
  Functions = {f, g}
  Callers = {c}
  MaxLevels = 3
  MaxCalls = 3
  FifoDepth = 2
  CallLengths = {2}
  MaxChars = 3
  FixedBaud = FALSE
  Freq = 6
  Bauds = {1, 2}
PROPERTIES UartCallsReturn JtagCallsReturn IrqServed TicksEnd
CHECK_DEADLOCK FALSE
