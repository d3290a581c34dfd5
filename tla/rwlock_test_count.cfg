SPECIFICATION TestSpec
CONSTANTS
  Readers = {r1, r2}
  Writers = {w1, w2}
  Slots = {s1, s2}
  WRITE_FLAG = 16
  Reentrant = TRUE
  Kinds = {}
  Rounds = 2
  r1 = r1
  r2 = r2
  w1 = w1
  w2 = w2
  s1 = s1
  s2 = s2
SYMMETRY Symmetry
\* rw_lock_data can stop for good: see rwlock_test_join.cfg.
CHECK_DEADLOCK FALSE
INVARIANTS
  FinalCount
  MutualExclusion
