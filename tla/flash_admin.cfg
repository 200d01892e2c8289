SPECIFICATION Spec
CONSTANTS
  d1 = d1
  d2 = d2
  Desktops = {d1, d2}
  Stock0 = 2
  Flash0 = 1
  Stocks = {3}
  BatchSize = 2
  Menu <- MCMenu
  MaxOrders = 3
  MaxJobs = 3
  None = None
  Mark = Mark
CHECK_DEADLOCK FALSE
INVARIANTS CounterIsLedger  FlashHasCounter QueueCountsOrders StressTestSettles
