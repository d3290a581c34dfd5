SPECIFICATION LiveSpec
CONSTANTS
  a = a
  b = b
  NUL = NUL
  BAD = BAD
  Letters = {a, b}
  Length = 5
  Names <- Sought
INVARIANTS
  StaysInside
  SplitsRight
PROPERTIES
  ListEnds
