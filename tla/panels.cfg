SPECIFICATION Spec
CONSTANTS
  product = product
  orders = orders
  r1 = r1
  r2 = r2
  Keys = {product, orders}
  Products = {product}
  Rows = {r1, r2}
  Initial <- MCInitial
  Others <- MCOthers
  MaxJobs = 4
  None = None
CHECK_DEADLOCK FALSE
INVARIANTS TreeIsListed ShownIsOwn SavedIsStored
