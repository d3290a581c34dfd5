SPECIFICATION TimerSpec
CONSTANTS
  KILO = 2
  COUNTER = 24
  MaxJump = 3
  Frequencies = {0, 3, 4, 7, 8, 9}
  Durations = {0, 1, 2, 5}
PROPERTIES
  LongEnough
  NotLonger
  PanicHasCause
\* A panic of the timer is the end of the program it is part of.
CHECK_DEADLOCK FALSE
