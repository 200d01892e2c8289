SPECIFICATION ListSpec
CONSTANTS
  Members = {1, 2, 3}
  Scores = {1, 2}
  MaxLevel = 3
  MaxNodes = 4
CHECK_DEADLOCK FALSE
INVARIANTS SearchSound
PROPERTIES CleanRemoval
