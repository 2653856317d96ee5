SPECIFICATION Spec
CONSTANTS
  PrivateFrames = 18
  SharedFrames = 4
  HeapFrames = 6
  TableFrames <- Levels
  UnitsPerPage = 2
  Growths = {1, 4}
INVARIANTS
  TypeOK
  OverlapOnlyPastEnd
  TablesDisjoint
  CrashOnlyWhenExhausted
CHECK_DEADLOCK FALSE
