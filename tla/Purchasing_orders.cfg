SPECIFICATION Spec
CONSTANTS
  o1 = o1
  a1 = a1
  a2 = a2
  bolt = bolt
  nut = nut
  c1 = c1
  b1 = b1
  b2 = b2
  Shipments = {}
  Returns = {}
  Orders = {o1}
  Adjustments = {a1, a2}
  Increases = {a2}
  Journals = {}
  Amount <- One
  SourceOf <- Plain
  NoDoc = NoDoc
  Cashiers = {c1}
  Free = Free
  Handlers = {}
  CostLines <- NoCost
  MaxSettlements = 1
  Lines = {bolt, nut}
  Ordered <- OneOfEach
  Allowance = 0
  NeedsApproval = {o1}
  Buyers = {b1, b2}
  MaxQuantity = 2
INVARIANTS TypeOK PayableMatchesReceipts ReceivedWithinOrder ReceivedIsComplete
 
SYMMETRY Symmetry
CHECK_DEADLOCK FALSE
