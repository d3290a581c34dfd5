SPECIFICATION TestLiveSpec
CONSTANTS
  Readers = {r1}
  Writers = {w1}
  Slots = {s1, s2}
  WRITE_FLAG = 8
  Reentrant = TRUE
  Kinds = {}
  Rounds = 1
  r1 = r1
  w1 = w1
  s1 = s1
  s2 = s2

\* Deadlock checking is off so that TLC reports the property itself.
CHECK_DEADLOCK FALSE
PROPERTIES
  AllThreadsJoin
