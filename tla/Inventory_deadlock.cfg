SPECIFICATION FairSpec
CONSTANTS
  so1 = so1
  wo1 = wo1
  bolt = bolt
  nut = nut
  plant = plant
  shop = shop
  k1 = k1
  c1 = c1
  c2 = c2
  Products = {bolt, nut}
  Warehouses = {plant}
  SalesOrders = {so1}
  WorkOrders = {wo1}
  Factory = plant
  LinesOf <- Opposite
  Need <- OneEach
  BatchIdOwner <- OtherBatch
  NoSource = NoSource
  AnyWarehouse = AnyWarehouse
  Locks = {}
  Clerks = {c1, c2}
  Free = Free
  InitialStock <- Single
  MaxStock = 1
  MaxReturns = 0
PROPERTIES ReservingEnds
CHECK_DEADLOCK FALSE
