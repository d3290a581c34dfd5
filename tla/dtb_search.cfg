SPECIFICATION DocLiveSpec
CONSTANTS
  CELL = 64
  Searches <- AllSearches
INVARIANTS
  TypeOK
  NeverWrong
  OkIsComplete
  RefusalHasCause
  PointerOnToken
PROPERTIES
  SearchEnds
