SPECIFICATION Spec
CONSTANTS
  UserFds = {0, 1, 2, 3}
  LastHostFd = 3
  FileLength = 3
  Counts = {0, 1, 2}
  ExitValues = {0, 42}
  None = None
INVARIANT
  ExitStatusArrives
CHECK_DEADLOCK FALSE
