\* One made line, the service calls, a server that may die.
SPECIFICATION FairSpec
CONSTANTS
  o1 = o1
  l1 = l1
  l2 = l2
  x1 = x1
  x2 = x2
  w1 = w1
  w2 = w2
  c1 = c1
  c2 = c2
  table = table
  chair = chair
  NoDoc = NoDoc
  NoLine = NoLine
  Free = Free
  Orders = {o1}
  Lines = {l1}
  Products = {table}
  OrderOf <- OneOwner
  ProductOf <- OneProduct
  ChannelOf <- OneMade
  Bom <- NoBom
  Docs = {x1}
  Workers = {w1}
  Clerks = {c1}
  ManualOps = {"confirm", "reject", "fulfill", "cancel", "reconcile"}
  LineWithFpId <- OneId
  MaxRetries = 2
  MaxCrashes = 1
CHECK_DEADLOCK FALSE
INVARIANTS
  ClaimReachesPlan
PROPERTIES
  EventsSettle
