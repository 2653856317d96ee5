SPECIFICATION Spec
CONSTANTS
  Header = 2
  MinSize = 8
  HeadSize = 20
  HeapSize = 30
  Requests = {1, 3, 6}
INVARIANTS
  TypeOK
  ListTiles
  GrowthOverlapsOnlyWhenShrinking
CHECK_DEADLOCK FALSE
