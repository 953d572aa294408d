SPECIFICATION LedgerSpec
CONSTANTS
  s1 = s1
  r1 = r1
  j1 = j1
  j2 = j2
  c1 = c1
  c2 = c2
  h1 = h1
  h2 = h2
  Shipments = {s1}
  Returns = {r1}
  Orders = {}
  Adjustments = {}
  Increases = {}
  Journals = {j1, j2}
  Amount <- TwoForShipments
  SourceOf <- ForShipment
  NoDoc = NoDoc
  Cashiers = {c1, c2}
  Free = Free
  Handlers = {h1, h2}
  CostLines <- TwoEntries
  MaxSettlements = 2
INVARIANTS LedgerTypeOK AppliedWithinAmount BooksBalance RevenueHasCost
SYMMETRY Symmetry
CHECK_DEADLOCK FALSE
