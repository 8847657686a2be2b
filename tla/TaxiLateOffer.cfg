SPECIFICATION Spec
CONSTANTS
  Order = {o1}
  Driver = {d1, d2}
  Price = {p1}
  Request = {r1}
  Handlers = {"create", "offer_response"}
  StatusTargets = {}
  NoOrder = NoOrder
  NoDriver = NoDriver
  NoPrice = NoPrice
INVARIANT OthersClosedOnceAccepted
CHECK_DEADLOCK FALSE
