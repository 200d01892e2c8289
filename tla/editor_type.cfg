SPECIFICATION Spec
CONSTANTS
  product = product
  orders = orders
  r1 = r1
  r2 = r2
  Keys = {product, orders}
  Products = {product}
  Rows = {r1, r2}
  Initial <- MCInitial
  Others = {}
  MaxJobs = 2
  None = None
CHECK_DEADLOCK FALSE
PROPERTY SaveKeepsType
