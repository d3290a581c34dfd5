SPECIFICATION BootLiveSpec
CONSTANTS
  debug = debug
  other = other
  rp1 = rp1
  Uarts = {debug, other, rp1}
  Fixed = debug
  Rp1Uart = rp1
  Clock <- Clocks
  FIFO_DEPTH = 2
  Bauds <- Used
  MaxText = 3
  Reports <- Trees
  Pins = {14, 15, 18}
  Functions = {4}
  Before = {131225}
  KILO = 1
  COUNTER = 5
  MaxJump = 2
  Frequencies = {0, 2}
  Durations = {1}
INVARIANTS
  RateRight
  WrittenAfterInit
  PinsKept
PROPERTIES
  NothingLost
  SettledLine
  PanicHeard
  MainRuns
\* After its message the panic handler loops without a step.
CHECK_DEADLOCK FALSE
