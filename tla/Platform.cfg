SPECIFICATION MCSpec
CONSTANTS
  User = {u1}
  City = {c1, c2}
  NoCity = NoCity
  Sub = {sub}
  NoSub = NoSub
  Trait = {trait, lang}
  Language = {lang}
  File = {}
  Slot = {r1}
  NewForms <- MCDrafts
  EditForms = {}
  Search <- MCSearch
  MaxId = 2
  Party = {p1, p2}
  Owner = p1
  Call = {k1, k2}
  Bought = 1
  MaxOrder = 2
  Desk = {d1, d2}
  Login = {l1, l2}
  MaxSeats = 2
  MaxWorker = 2
  Buyer = {b1, b2}
  StoreCall = {s1, s2}
  MaxTxn = 2
  MaxInfo = 1
  MaxGrant = 2
  MaxLink = 2
  Region = {g1, g2}
  Press = {h1, h2}
  MaxPay = 2
  LastPoint = 2
  FreeWindow = 3
  Policy <- MCPolicy
  Horizon = 6
  u1 = u1
  c1 = c1
  c2 = c2
  sub = sub
  trait = trait
  lang = lang
  r1 = r1
  p1 = p1
  p2 = p2
  k1 = k1
  k2 = k2
  d1 = d1
  d2 = d2
  g1 = g1
  g2 = g2
  l1 = l1
  l2 = l2
  b1 = b1
  b2 = b2
  s1 = s1
  s2 = s2
  h1 = h1
  h2 = h2
INVARIANTS
  MCTypeOK SearchesHideArchived ListsAgree PagesPartition
  ListedCanBeOpened OpenHours
  StandingIsPaidAndOpen SeatsCounted TakesEffectOnce AnsweredIsGranted
  LiveHubServes RideIsSettled RideAddsUp
PROPERTY HiredOnPaidSeat
CHECK_DEADLOCK FALSE
