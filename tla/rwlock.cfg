SPECIFICATION LiveSpec
CONSTANTS
  Readers = {r1, b}
  Writers = {w1, b}
  Slots = {s1}
  WRITE_FLAG = 8
  Reentrant = FALSE
  Kinds = {"read", "write"}
  r1 = r1
  b = b
  w1 = w1
  s1 = s1
INVARIANTS
  WordCountsGuards
  HoldersSeeWrites
  FreeLockCoversReads
PROPERTIES
  DoorShut
  ImplementsReadersWriter
  ImplementsLive
  LockProgress
