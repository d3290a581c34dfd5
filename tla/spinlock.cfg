SPECIFICATION LiveSpec
CONSTANTS
  Threads = {t1, t2, t3, t4}
  Reentrant = FALSE
  t1 = t1
  t2 = t2
  t3 = t3
  t4 = t4
INVARIANTS
  TypeOK
  HolderSeesAll
PROPERTIES
  ImplementsMutex
  ImplementsLive
