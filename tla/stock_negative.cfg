SPECIFICATION Spec
CONSTANTS
  a = a
  b = b
  a1 = a1
  a2 = a2
  b1 = b1
  b2 = b2
  Clients = {a, b}
  Orders = {a1, a2, b1, b2}
  By <- MCBy
  Batch <- MCBatch
  Stock0 = 2
  MaxDrops = 1
CHECK_DEADLOCK FALSE
INVARIANT NeverNegativeAtRest
