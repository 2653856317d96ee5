SPECIFICATION FairSpec
CONSTANTS
  Blocks = {b1, b2, b3}
  Answers <- SomeAnswers
  AddressBytes = 8
  None = None
INVARIANTS
  TypeOK
  FramingAgrees
PROPERTIES
  RefinesRemoteCall
  RequestArrives
CHECK_DEADLOCK FALSE
