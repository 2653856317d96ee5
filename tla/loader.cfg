\* Two units per page, tables for eight pages, a stack of two pages below page
\* 7: pages 1 to 4 for segments, page 7 above the stack, page 8 out of reach.
CONSTANTS
  UnitsPerPage = 2
  TablePages = 8
  StackBase = 7
  StackPages = 2
  MaxFrames = 9
  Programs <- MCPrograms
  FreeFrames <- MCFree
SPECIFICATION LoaderSpec
INVARIANTS LoaderTypeOK ImageInPlace RegionsTrackMap OnePagePerFrame
PROPERTY WellFormedRuns
CHECK_DEADLOCK FALSE
