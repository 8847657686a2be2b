SPECIFICATION Spec
CONSTANTS
  Order = {o1}
  Driver = {d1}
  Price = {p1}
  Request = {r1, r2}
  Handlers = {"create", "offer_accept", "passenger_cancel"}
  StatusTargets = {}
  NoOrder = NoOrder
  NoDriver = NoDriver
  NoPrice = NoPrice
PROPERTY EndedStaysEnded
CHECK_DEADLOCK FALSE
