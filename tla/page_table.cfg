\* Four entries per table, a space at the second entry of level 0, five pages
\* mapped at boot: two blocks, the second one partly.
CONSTANTS
  Entries = 4
  StartPage = 64
  StartFrame = 10
  BootPages = 5
  PmdTables = 1
  Pt3Tables = 3
  Pages <- MCPages
  Frames <- MCFrames
  Flags = {0}
  BootFlags = 0
SPECIFICATION Spec
INVARIANTS TypeOK WalkFindsLeaf
PROPERTY RefinesAddressMap
