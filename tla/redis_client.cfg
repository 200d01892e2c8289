SPECIFICATION FairSpec
CONSTANTS
  MaxCommands = 3
  MaxConnects = 2
  MaxBad = 1
CHECK_DEADLOCK FALSE
INVARIANTS OwnResponse IssueOrder
PROPERTIES CallbackResolved
