------------------------------ MODULE MCProgress ------------------------------
(***************************************************************************)
(* Small instances of what is to end at last, whatever is tried again: the *)
(* searches for a driver and for a courier, and the time on the market of  *)
(* a listing whose subscription has lapsed.  A behaviour is a scene about  *)
(* one of the three; the others rest in an initial state, in which none of *)
(* the steps that are given fairness is enabled.                           *)
(***************************************************************************)
EXTENDS Market, TLC

CONSTANTS
  Order, Driver, Fare, Courier, Request, Handlers, RideTargets, DeliveryTargets,
  NoOrder, NoDriver, NoFare, NoCourier,
  u1, c1, sub, f1, f2, r1, r2

VARIABLES
  scene,      \* what a behaviour is about; never changes
  spent,      \* what people did to the listing, up to Budget
  \* the taxi's and the courier's tables and dispatchers
  status, driver, price, offer, offerPrice, dispatch, due, timedOut, account,
  charged, disp, asking,
  courierStatus, courier, courierOffer, asked, courierDispatch, courierDue,
  courierTimedOut, courierDisp, courierAsking

Taxi == INSTANCE TaxiOrders WITH
  Price <- Fare, NoPrice <- NoFare, StatusTargets <- RideTargets, req <- asking

Delivery == INSTANCE CourierOrders WITH
  StatusTargets <- DeliveryTargets, status <- courierStatus, offer <- courierOffer,
  dispatch <- courierDispatch, due <- courierDue, timedOut <- courierTimedOut,
  disp <- courierDisp, req <- courierAsking

taxiVars == <<status, driver, price, offer, offerPrice, dispatch, due, timedOut,
              account, charged, disp, asking>>
courierVars == <<courierStatus, courier, courierOffer, asked, courierDispatch,
                 courierDue, courierTimedOut, courierDisp, courierAsking>>
-----------------------------------------------------------------------------
(* One listing to edit; the second slot is for what overlaps the first.    *)

Budget == 4
Outer(Act) == spent < Budget /\ Act /\ spent' = spent + 1
Inner(Act) == Act /\ UNCHANGED spent

MCNoFiles == [add |-> {}, del |-> {}, list |-> {}, links |-> {}]

MCNewForms ==
  {[MCNoFiles EXCEPT !.add = {f1}] @@ [city |-> c1, sub |-> sub, price |-> 1]}

\* The first picture as a client last saw it, and by its address alone.
MCFirst == [file |-> f1, url |-> "/images/services/", link |-> FALSE]

MCEditForms ==
  {[MCNoFiles EXCEPT !.add = {f2}, !.del = {f1}] @@ [price |-> 2],
   [MCNoFiles EXCEPT !.del = {f1}] @@ [status |-> ""],
   [MCNoFiles EXCEPT !.list = {MCFirst}, !.links = {[MCFirst EXCEPT !.link = TRUE]}]
     @@ [status |-> "active", city |-> NoCity]}

Asks ==
  \/ \E r \in Slot :
       \/ \E u \in User, f \in NewForms : StartCreate(r, u, f, 0)
       \/ \E i \in DOMAIN tbl : StartRestore(r, i) \/ \E f \in EditForms : StartEdit(r, i, f)
  \/ \E i \in DOMAIN tbl : Archive(i) \/ Delete(i) \/ OrderMoves(i)
  \/ \E u \in User : MoveHome(u) \/ Expires(u) \/ ExtendSubscription(u)

Serves ==
  \/ \E r \in Slot : Reread(r) \/ CheckPaid(r) \/ Lapse(r) \/ Write(r) \/ Drop(r)
  \/ \E u \in User : CleanerArchives(u)
  \/ CleanerReads \/ CleanerStops

EditNext ==
  /\ Outer(Asks) \/ Inner(Serves)
  /\ req[r1] = Idle => req'[r2] = req[r2]
-----------------------------------------------------------------------------
Elsewhere(s, P) == scene # s => P

MCInit ==
  /\ spent = 0 /\ scene \in {"taxi", "courier", "listing"}
  /\ Taxi!Init /\ Delivery!Init
  /\ MarketInit /\ Elsewhere("listing", kind = "service" /\ paid[u1] = "none" /\ home[u1] = c1)

InTaxi == scene = "taxi" /\ UNCHANGED <<scene, courierVars, marketVars, spent>>
InCourier == scene = "courier" /\ UNCHANGED <<scene, taxiVars, marketVars, spent>>
InListing == scene = "listing" /\ UNCHANGED <<scene, taxiVars, courierVars>>

MCNext ==
  \/ InTaxi /\ Taxi!Next
  \/ InCourier /\ Delivery!Next
  \/ InListing /\ EditNext

(***************************************************************************)
(* Taxi!DispatcherFairness, Taxi!ClockFairness, Delivery!ServerFairness    *)
(* and MarketFairness, for the scene that moves.  A step of another scene  *)
(* is not enabled, so fairness of the disjunction of one step of each      *)
(* scene is fairness of the step of the scene at hand; stated apart, they  *)
(* would make TLC tell 2048 cases of strong fairness apart instead of 32.  *)
(* The courier's AlreadyOffered and CreateOffer are fair together only,    *)
(* which is less than Delivery!ServerFairness.                             *)
(***************************************************************************)
all == <<scene, spent, taxiVars, courierVars, marketVars>>

Tickers ==
  /\ WF_all(\/ InTaxi /\ Taxi!DispatchTick
            \/ InCourier /\ Delivery!DispatchTick
            \/ InListing /\ Inner(CleanerReads))
  /\ WF_all(\E o \in Order : \/ InTaxi /\ Taxi!NextTickPasses(o)
                             \/ InCourier /\ Delivery!NextTickPasses(o))
  /\ WF_all(\E o \in Order : \/ InTaxi /\ Taxi!TimeoutPasses(o)
                             \/ InCourier /\ Delivery!TimeoutPasses(o))
  /\ WF_all(InTaxi /\ \E rows \in SUBSET Taxi!Pending : Taxi!ExpireOffers(rows))

Calls ==
  /\ SF_all(\/ InTaxi /\ (\E o \in Order : Taxi!ProcessRecord(o))
            \/ InCourier /\ (\E o \in Order : Delivery!ProcessRecord(o))
            \/ InListing /\ Inner(\E u \in User : CleanerArchives(u)))
  /\ SF_all(\/ InTaxi /\ (\E d \in Driver : Taxi!OfferDriver(d))
            \/ InCourier /\ (\E c \in Courier : Delivery!AlreadyOffered(c))
            \/ InCourier /\ Delivery!CreateOffer)
  /\ SF_all((InTaxi /\ Taxi!UpdateRadius) \/ (InCourier /\ Delivery!UpdateRadius))
  /\ SF_all((InTaxi /\ Taxi!TimeoutSearch) \/ (InCourier /\ Delivery!TimeoutSearch))
  /\ SF_all((InTaxi /\ Taxi!FinishDispatch) \/ (InCourier /\ Delivery!FinishDispatch))

MCSpec == MCInit /\ [][MCNext]_all /\ Tickers /\ Calls
-----------------------------------------------------------------------------
\* A search for a driver ends: somebody takes the order, it is canceled, or the
\* timeout writes not_found.
SearchEnds == Taxi!SearchEnds

\* The dispatcher lets go of every order that is no longer searching.
DispatchEnds == Taxi!DispatchEnds

\* No offer stays open for ever.
OffersResolve == Taxi!OffersResolve

\* So does the couriers' dispatcher.
CourierDispatchEnds == Delivery!DispatchEnds
=============================================================================
