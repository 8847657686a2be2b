SPECIFICATION FairSpec
CONSTANTS
  Order = {o1}
  Courier = {c1}
  Request = {r1}
  StatusTargets = {"searching", "accepted", "waiting_free", "in_progress", "completed",
    "closed", "canceled_by_sender", "canceled_by_courier", "canceled_no_show"}
  NoOrder = NoOrder
  NoCourier = NoCourier
PROPERTY SearchEnds
CHECK_DEADLOCK FALSE
