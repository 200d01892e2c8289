SPECIFICATION Spec
CONSTANTS
  MaxFd = 3
  Timeout = 2
  MaxTime = 5
INVARIANTS
  TypeOK
  ExactUntilTimeout
  PositionsKept
PROPERTIES
  NoEarlyTimeout
CHECK_DEADLOCK FALSE
