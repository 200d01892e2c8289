SPECIFICATION FairSpec
CONSTANT MaxStarts = 3
INVARIANTS
  RunningHasProcess
  StartedOnce
  ButtonsUsable
PROPERTIES
  AutoConnects
