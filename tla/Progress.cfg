SPECIFICATION MCSpec
CONSTANTS
  Order = {o1}
  Driver = {d1}
  Fare = {p1}
  Courier = {k1}
  Request = {q1}
  Handlers = {"create", "reprice", "offer_price", "offer_response", "offer_accept",
              "status", "passenger_cancel", "arrive", "waiting_advance",
              "start", "finish", "confirm_cash", "driver_cancel", "no_show",
              "webhook", "admin"}
  RideTargets = {"accepted", "in_progress", "at_last_point", "completed", "closed"}
  DeliveryTargets = {"searching", "accepted", "waiting_free", "in_progress", "completed",
    "closed", "canceled_by_sender", "canceled_by_courier", "canceled_no_show"}
  NoOrder = NoOrder
  NoDriver = NoDriver
  NoFare = NoFare
  NoCourier = NoCourier
  User = {u1}
  City = {c1}
  NoCity = NoCity
  Sub = {sub}
  NoSub = NoSub
  Trait = {}
  Language = {}
  File = {f1, f2}
  Slot = {r1, r2}
  NewForms <- MCNewForms
  EditForms <- MCEditForms
  Search = {}
  MaxId = 1
  u1 = u1
  c1 = c1
  sub = sub
  f1 = f1
  f2 = f2
  r1 = r1
  r2 = r2
 
PROPERTIES
  SearchEnds DispatchEnds OffersResolve CourierDispatchEnds
  EditKeepsUnnamed OnlyPaidReturns LapsedIsArchived
CHECK_DEADLOCK FALSE
