SPECIFICATION Spec
CONSTANTS
  PrivateFrames = 12
  SharedFrames = 2
  HeapFrames = 16
  TableFrames <- Levels
  UnitsPerPage = 2
  Growths = {1, 4}
INVARIANT
  SingleUse
CHECK_DEADLOCK FALSE
