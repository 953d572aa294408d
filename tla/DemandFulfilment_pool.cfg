\* A made product and the bought one it is made of, two clerks, two servers of which one may die.
SPECIFICATION Spec
CONSTANTS
  o1 = o1
  l1 = l1
  l2 = l2
  x1 = x1
  x2 = x2
  w1 = w1
  w2 = w2
  c1 = c1
  c2 = c2
  table = table
  chair = chair
  NoDoc = NoDoc
  NoLine = NoLine
  Free = Free
  Orders = {o1}
  Lines = {l1, l2}
  Products = {table, chair}
  OrderOf <- TwoOwner
  ProductOf <- TwoProduct
  ChannelOf <- Mixed
  Bom <- ShareBom
  Docs = {x1, x2}
  Workers = {w1, w2}
  Clerks = {c1, c2}
  ManualOps = {}
  LineWithFpId <- NoIds
  MaxRetries = 1
  MaxCrashes = 1
CHECK_DEADLOCK FALSE
SYMMETRY SymAll
INVARIANTS
  TypeOK
  OnePlanPerLine
  OneOpenDocPerDemand
  PlanDocSuppliesLine
PROPERTIES
  AllocatedStaysAllocated
  ImplementsPool
