------------------------------ MODULE MCPlatform ------------------------------
(***************************************************************************)
(* Small instances of the parts that do not share state with the orders:   *)
(* listings, responses, business seats, store purchases, live connections, *)
(* the money of a ride and the ride library.  A behaviour is a scene about *)
(* one of them, in which the others rest in an initial state.              *)
(***************************************************************************)
EXTENDS Market, Deals, BusinessSeats, StorePurchases, LiveHub, TaxiMoney,
        RideLibrary, TLC

CONSTANTS u1, c1, c2, sub, trait, lang, r1, p1, p2, k1, k2,
          d1, d2, g1, g2, l1, l2, b1, b2, s1, s2, h1, h2

VARIABLES
  scene,      \* what a behaviour is about; never changes
  spent       \* steps of the outside, up to Limit

\* What the outside does (people, clocks, failures) is bounded; the server's own
\* steps are not counted.
Budget ==
  [search |-> 0, deal |-> 4, seats |-> 0, store |-> 4, live |-> 3,
   money |-> 4, trip |-> 0]

\* Works have the scripts of services, a client's other two kinds nearly those of
\* ads, and the couriers' hub nearly that of drivers: one step less is spent on them.
Limit ==
  IF \/ scene = "deal" /\ trade \in {"work", "work_ad", "rent_ad"}
     \/ scene = "live" /\ hub = "courier"
    THEN Budget[scene] - 1 ELSE Budget[scene]

Outer(Act) == spent < Limit /\ Act /\ spent' = spent + 1
Inner(Act) == Act /\ UNCHANGED spent

marketOnly == UNCHANGED <<dealVars, seatVars, storeVars, liveVars, moneyVars, tripVars>>

MCPolicy == "pause" :> [cooldown |-> 1, presses |-> 2, ttl |-> 3]
-----------------------------------------------------------------------------
(* Listings to search for: drafts, and the searches that are tried.        *)

MCNoFiles == [add |-> {}, del |-> {}, list |-> {}, links |-> {}]

MCDrafts ==
  {MCNoFiles @@ d : d \in
    {[city |-> c1, sub |-> sub, price |-> 1, hours |-> "day", hide |-> TRUE],
     [city |-> c1, sub |-> sub, price |-> 2, hours |-> "night", traits |-> {trait, lang}],
     [city |-> c2, sub |-> sub, hours |-> "round", traits |-> {lang}],
     [sub |-> sub, price |-> 2, hours |-> "roundSec", status |-> "active"],
     [city |-> c1, price |-> 1],
     [city |-> c1, sub |-> sub, price |-> 2, status |-> "archive"]}}

Q(f) == f @@ AnyQuery
MCSearch ==
  {[AnyQuery EXCEPT !.limit = 1], [AnyQuery EXCEPT !.limit = 2, !.subs = {sub}],
   Q([city |-> c1, sort |-> 2, from |-> 1, to |-> 1]),
   Q([want |-> {trait, lang}, sort |-> 3]), Q([from |-> 2, stars |-> {1}])}

\* The first listing is rated or promoted when all are there.
SearchNext ==
  \/ \E u \in User, f \in NewForms, b \in Now : StartCreate(r1, u, f, b)
  \/ CheckPaid(r1) \/ Write(r1)
  \/ last = MaxId /\ tbl[1].top = "none" /\ Rate(1)
  \/ /\ last = MaxId /\ review[1] = 0
     /\ ActivateTop(1) \/ TopExpires(1) \/ ClearExpiredTop(1) \/ DeactivateTop(1)
-----------------------------------------------------------------------------
(* The other scenes.                                                       *)

\* A performer's listing is put away without any effect on responses.
DealSteps ==
  \/ Outer(\/ \E c \in Call, p \in Party : Respond(c, p) \/ Withdraw(c, p)
           \/ \E c \in Call : CallOff(c) \/ Fails(c)
           \/ \E o \in orders : Confirm(o)
           \/ \E n \in chats : DeleteChat(n)
           \/ Done /\ orders' # orders
           \/ \E s \in {"active", "archive"} :
                Shelve(s) /\ offered # s /\ trade \in Clients)
  \/ Inner(\E c \in Call : Statement(c) /\ ~ Fails(c))

StoreSteps ==
  \/ Outer(\/ \E c \in StoreCall, n \in Notice :
                \/ \E u \in Buyer : VerifyIOSPurchase(c, u, n) \/ VerifyAndroidPurchase(c, u, n)
                \/ AppleNotificationsV2(c, n) \/ GoogleNotifications(c, n)
           \/ \E c \in StoreCall : Dies(c)
           \/ Renew \/ \E n \in Txn : Refund(n))
  \/ Inner(\E c \in StoreCall :
             \/ CheckOwner(c) \/ CheckProcessed(c) \/ SaveRow(c) \/ Apply(c) \/ Undo(c)
             \/ DeleteRow(c) \/ ForceExpireSubscription(c))

LiveSteps ==
  \/ Outer(\/ \E n \in Links :
                \/ (\E s \in Status : Report(n, s))
                \/ UpdateLocation(n) \/ PingFails(n) \/ WritePump(n)
           \/ \E t \in 0 .. newest : Gives(t)
           \/ SafeWrite \/ RunChat \/ Enqueue \/ Stop)
  \/ Inner(\/ DriverServe \/ PassengerServe \/ CourierServe \/ SenderServe
           \/ ChatServe \/ LocationServe
           \/ \E n \in Links : ReadFails(n)
           \/ \E t \in 0 .. newest :
                \/ Unlist(t) \/ ZRem(t) \/ ClearLocation(t)
                \/ GeoPos(t) \/ GeoAdd(t) \/ ZRemFrom(t) \/ SafeUpdate(t)
           \/ Written)

MoneySteps ==
  \/ Outer(\/ \E r \in Press : Conflict(r) \/ \E s \in FSM!Status : handleStatus(r, s)
           \/ \E b \in Bills : MakerDies(b)
           \/ handleAirbaPayWebhook)
  \/ Inner(\/ \E r \in Press :
                \/ handleLifecycleFinish(r) \/ handleLifecycleConfirmCash(r)
                \/ UpdateStatusWithDriverCharge(r) \/ UpdateStatusCAS(r)
           \/ \E b \in Bills : Create(b) \/ AskProvider(b) \/ UpdateState(b)
           \/ UpdateStateByOrder)

\* The second slot is for what overlaps the first; the first buyer is b1.
DealNextHere ==
  /\ DealSteps
  /\ ~ Busy(k1) => call'[k2] = call[k2]
StoreNextHere ==
  /\ StoreSteps
  /\ ~ Running(s1) => pcall'[s2] = pcall[s2]
  /\ ~ Running(s1) /\ rows = <<>> /\ spoiled = {} => pcall'[s1].by # b2
MoneyNextHere == MoneySteps /\ (press[h1] = NoPress => press'[h2] = press[h2])
-----------------------------------------------------------------------------
Elsewhere(scenes, P) == scene \notin scenes => P

MCInit ==
  /\ spent = 0 /\ scene \in DOMAIN Budget
  /\ MarketInit
  /\ Elsewhere({"search"}, kind = "service" /\ paid[u1] = "none")
  /\ home[u1] # c2 /\ Elsewhere({"search"}, home[u1] = c1)
  /\ DealInit /\ Elsewhere({"deal"}, trade = "service")
  /\ SeatsInit /\ Elsewhere({"seats"}, account)
  /\ StoreInit /\ Elsewhere({"store"}, store = "apple" /\ product = "top" /\ hasAccount)
  /\ LiveInit /\ region[1] = g1 /\ Elsewhere({"live"}, hub = "driver")
  /\ MoneyInit /\ Elsewhere({"money"}, online)
  /\ RideInit

MCNext ==
  /\ UNCHANGED scene
  /\ \/ scene = "search" /\ SearchNext /\ UNCHANGED spent /\ marketOnly
     \/ /\ scene = "deal" /\ DealNextHere
        /\ UNCHANGED <<marketVars, seatVars, storeVars, liveVars, moneyVars, tripVars>>
     \/ /\ scene = "seats" /\ SeatsNext /\ UNCHANGED spent
        /\ UNCHANGED <<marketVars, dealVars, storeVars, liveVars, moneyVars, tripVars>>
     \/ /\ scene = "store" /\ StoreNextHere
        /\ UNCHANGED <<marketVars, dealVars, seatVars, liveVars, moneyVars, tripVars>>
     \/ /\ scene = "live" /\ LiveSteps
        /\ UNCHANGED <<marketVars, dealVars, seatVars, storeVars, moneyVars, tripVars>>
     \/ /\ scene = "money" /\ MoneyNextHere
        /\ UNCHANGED <<marketVars, dealVars, seatVars, storeVars, liveVars, tripVars>>
     \/ /\ scene = "trip" /\ RideNext /\ UNCHANGED spent
        /\ UNCHANGED <<marketVars, dealVars, seatVars, storeVars, liveVars, moneyVars>>

MCSpec ==
  /\ MCInit /\ [][MCNext]_<<marketVars, dealVars, seatVars, storeVars, liveVars,
                            moneyVars, tripVars, scene, spent>>
-----------------------------------------------------------------------------
\* Every part's variables keep their types.
MCTypeOK ==
  /\ MarketTypeOK /\ DealTypeOK /\ SeatsTypeOK /\ StoreTypeOK /\ LiveTypeOK /\ MoneyTypeOK
  /\ RideTypeOK
=============================================================================
