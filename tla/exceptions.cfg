\* Frames of 10 words; room for three of them and then no more.
SPECIFICATION Spec
CONSTANTS
  LastReg = 4
  StackWords = 37
  BaseWords = 4
  HandlerWords = 2
  MaxBlocks = 3
  MaxCalls = 4
INVARIANTS
  TypeOK
  OverrunExplained
PROPERTIES
  CallReturnsToCaller
  FaultEndsVM
CHECK_DEADLOCK FALSE
