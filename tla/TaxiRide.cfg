SPECIFICATION Spec
CONSTANTS
  Order = {o1}
  Driver = {d1}
  Price = {p1, p2}
  Request = {r1, r2}
  Handlers = {"create", "reprice", "offer_price", "offer_response", "offer_accept",
              "status", "passenger_cancel", "arrive", "waiting_advance",
              "start", "finish", "confirm_cash", "driver_cancel", "no_show",
              "webhook", "admin"}
  StatusTargets = {"accepted", "in_progress", "at_last_point", "completed", "closed"}
  NoOrder = NoOrder
  NoDriver = NoDriver
  NoPrice = NoPrice
SYMMETRY RequestSymmetry
INVARIANTS CompletedHasDriver ChargedHasAcceptedOffer
CHECK_DEADLOCK FALSE
