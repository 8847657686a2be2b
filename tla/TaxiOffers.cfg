SPECIFICATION Spec
CONSTANTS
  Order = {o1}
  Driver = {d1, d2}
  Price = {p1}
  Request = {r1, r2}
  Handlers = {"create", "offer_price", "offer_response", "offer_accept", "status",
              "passenger_cancel", "driver_cancel"}
  StatusTargets = {"accepted"}
  NoOrder = NoOrder
  NoDriver = NoDriver
  NoPrice = NoPrice
SYMMETRY Symmetry
INVARIANTS TypeOK DriverHasAcceptedOffer SearchingIsDispatched
PROPERTIES StatusFollowsGraph ImplementsOfferBook
CHECK_DEADLOCK FALSE
