\* Addresses: the one the kernel is built for and another.
SPECIFICATION MachineSpec
CONSTANTS
  RamBlocks = 5
  SlotBlocks <- ThreeSlots
  Contents <- Pieces
  Zero = "zero"
  Elfs <- Kernels
  OldImages <- Before
  Offsets <- Words
  Base = 100
  KernelBase = 1000
  MaxRelocations = 3
  Addresses = {100, 200}
  EntryOffset = 4672
INVARIANTS
  MachineTypeOK
  ImageLaidOut
  MeasuredIsLoaded
  BuildFailureShows
  WordsFollowKernel
  LostExplained
PROPERTIES
  ComesUp
CHECK_DEADLOCK FALSE
