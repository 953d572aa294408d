SPECIFICATION Spec
CONSTANTS
  so1 = so1
  wo1 = wo1
  bolt = bolt
  nut = nut
  plant = plant
  shop = shop
  k1 = k1
  c1 = c1
  c2 = c2
  Products = {bolt}
  Warehouses = {plant, shop}
  SalesOrders = {so1}
  WorkOrders = {wo1}
  Factory = plant
  LinesOf <- Shared
  Need <- TwoEach
  BatchIdOwner <- OtherBatch
  NoSource = NoSource
  AnyWarehouse = AnyWarehouse
  Locks = {k1}
  Clerks = {c1, c2}
  Free = Free
  InitialStock <- Single
  MaxStock = 1
  MaxReturns = 1
INVARIANTS TypeOK StockNeverNegative SalesWithinOrder
PROPERTIES PromiseFitsStock
SYMMETRY Symmetry
CHECK_DEADLOCK FALSE
