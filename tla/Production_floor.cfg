\* One batch through all its steps, or two that wait for their receipts; two users.
SPECIFICATION MCSpec
CONSTANTS
  b1 = b1
  b2 = b2
  Batches = {b1, b2}
  BatchQty <- MCBatchQty
  Planned = 3
  Last = 2
  Inspected = {1}
  Outsourced = {2}
  Allowance = 1
  Pickings = {p1, p2}
  Workers = {w1, w2}
  Free = Free
  MaxReport = 2
  MaxPieces = 2
CONSTRAINTS Untorn OneAtWork FirstReported FewBad
SYMMETRY Symmetry
CHECK_DEADLOCK FALSE
INVARIANTS TypeOK StepsInOrder CompleteWhenDone LastStepWithinTolerance
PROPERTIES ClosesWithLastReceipt
