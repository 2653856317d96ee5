SPECIFICATION Spec
CONSTANTS
  FrameCount = 5
  BitmapCount = 8
  RunLengths <- SingleAndLong
  FixedLengths = {1, 2}
  MaxExposed = 2
INVARIANTS
  TypeOK
  AccountingExact
  OwnedIffUsed
  ExclusiveFrames
PROPERTY
  RefinesOwnership
