SPECIFICATION Spec
CONSTANTS
  bolt = bolt
  nut = nut
  p1 = p1
  p2 = p2
  u1 = u1
  u2 = u2
  Lines = {bolt, nut}
  Quantity <- OneOfEach
  Pickings = {p1, p2}
  Users = {u1, u2}
  Free = Free
  MaxQuantity = 1
  Deliveries <- LineByLine
PROPERTIES CancelledShipsNoMore
CHECK_DEADLOCK FALSE
