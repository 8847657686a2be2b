SPECIFICATION Spec
CONSTANTS
  Order = {o1}
  Courier = {c1, c2}
  Request = {r1, r2}
  StatusTargets = {"accepted", "in_progress", "canceled_by_sender"}
  NoOrder = NoOrder
  NoCourier = NoCourier
SYMMETRY Symmetry
INVARIANTS TypeOK SearchingIsDispatched
PROPERTIES ImplementsCourierBook CourierFixedOnceUnderWay AskedPriceKept
CHECK_DEADLOCK FALSE
