SPECIFICATION DealSpec
CONSTANTS
  Party = {p1, p2}
  Owner = owner
  Call = {k1}
  Bought = 1
  MaxOrder = 2
PROPERTY ConfirmTakesOneResponder
CHECK_DEADLOCK FALSE
