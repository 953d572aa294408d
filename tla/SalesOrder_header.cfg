SPECIFICATION Spec
CONSTANTS
  bolt = bolt
  nut = nut
  p1 = p1
  p2 = p2
  u1 = u1
  u2 = u2
  Lines = {bolt, nut}
  Quantity <- OneOfEach
  Pickings = {p1, p2}
  Users = {u1, u2}
  Free = Free
  MaxQuantity = 1
  Deliveries <- LineByLine
INVARIANTS HeaderIsTrue HeaderFollowsLines
PROPERTIES CancelledIsFinal
SYMMETRY Symmetry
CHECK_DEADLOCK FALSE
