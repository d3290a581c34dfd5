SPECIFICATION Spec
CONSTANTS
  Readers = {r1}
  Writers = {w1}
  Slots = {s1}
  WRITE_FLAG = 4
  Reentrant = FALSE
  Kinds = {"read", "write"}
  r1 = r1
  w1 = w1
  s1 = s1
INVARIANTS
  WriterFollowsReaders
