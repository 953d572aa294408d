SPECIFICATION Spec
CONSTANTS
  so1 = so1
  wo1 = wo1
  bolt = bolt
  nut = nut
  plant = plant
  shop = shop
  k1 = k1
  c1 = c1
  c2 = c2
  Products = {bolt}
  Warehouses = {plant}
  SalesOrders = {so1}
  WorkOrders = {wo1}
  Factory = plant
  LinesOf <- Shared
  Need <- TwoEach
  BatchIdOwner <- OtherBatch
  NoSource = NoSource
  AnyWarehouse = AnyWarehouse
  Locks = {}
  Clerks = {c1, c2}
  Free = Free
  InitialStock <- AllAtPlant
  MaxStock = 2
  MaxReturns = 1
PROPERTIES NeverOversold
CHECK_DEADLOCK FALSE
