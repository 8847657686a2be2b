----------------------------- MODULE TaxiOrders -----------------------------
(***************************************************************************)
(* Taxi orders from creation to their end: the tables orders,              *)
(* order_dispatch and driver_order_offers of the taxi module, the HTTP     *)
(* handlers of passengers and drivers that read and write them, the        *)
(* dispatcher's loop and the worker that expires offers.                   *)
(*                                                                         *)
(* One step is one database statement or one database transaction.  A      *)
(* handler reads, decides, and writes later; between the two any other     *)
(* handler, the dispatcher or the expiry worker may run.  A request in     *)
(* flight is a slot of `req' that remembers what the handler has read and  *)
(* which database call it makes next (its pc has the name of that call).   *)
(* Two reads of one handler that no other step can tell apart are one      *)
(* step.  Telemetry, distances, the minimum balance and request parsing    *)
(* only decide whether a handler goes on, and a client may always send a   *)
(* request that passes them: they are left open.                           *)
(***************************************************************************)
EXTENDS TaxiFSM, FiniteSets

CONSTANTS
  Order, Driver,    \* identities
  Price,            \* prices a client or a driver may name
  Request,          \* slots for requests in flight: bounds concurrency only
  Handlers,         \* handlers that take requests in this instance (bound)
  StatusTargets,    \* statuses sent to POST /orders/{id}/status (bound)
  NoOrder, NoDriver, NoPrice

AllHandlers ==
  {"create", "reprice", "offer_price", "offer_response", "offer_accept",
   "status", "passenger_cancel", "arrive", "waiting_advance", "start",
   "finish", "confirm_cash", "driver_cancel", "no_show", "webhook", "admin"}

ASSUME ConstantsAssumption ==
  /\ NoOrder \notin Order
  /\ NoDriver \notin Driver
  /\ NoPrice \notin Price
  /\ Handlers \subseteq AllHandlers
  /\ StatusTargets \subseteq Status

VARIABLES
  status,      \* orders.status, "none" before the row exists
  driver,      \* orders.driver_id
  price,       \* orders.client_price
  offer,       \* driver_order_offers.state, "none" when there is no row
  offerPrice,  \* driver_order_offers.driver_price
  dispatch,    \* order_dispatch.state
  due,         \* order_dispatch.next_tick_at has passed
  timedOut,    \* the search timeout has passed since order_dispatch.created_at
  account,     \* the driver's row: ban flag and approval status
  charged,     \* drivers whose balance paid a commission for the order
  disp,        \* the dispatcher goroutine
  req          \* HTTP requests in flight

orderVars == <<status, driver, price>>
offerVars == <<offer, offerPrice>>
dispatchVars == <<dispatch, due, timedOut>>
tables == <<orderVars, offerVars, dispatchVars, account, charged>>
vars == <<status, driver, price, offer, offerPrice, dispatch, due, timedOut,
          account, charged, disp, req>>

OfferState == {"none", "pending", "accepted", "declined", "expired", "closed"}
ReqPC ==
  {"idle", "TriggerImmediate", "SetDriverPrice", "AcceptOffer", "UpdatePrice",
   "AssignDriver", "DeclineOffer", "UpdateStatusCAS",
   "UpdateStatusWithDriverCharge"}

ReqRecord ==
  [pc : ReqPC, o : Order \cup {NoOrder}, d : Driver \cup {NoDriver},
   price : Price \cup {NoPrice},   \* the price read, or the price to write
   from : Status \cup {"none"},    \* the status read
   to : Status \cup {"none"},      \* the status the next call writes
   then : Status \cup {"none"}]    \* the rest of the sequence

DispRecord ==
  [pc : {"idle", "Get", "Offer", "Timeout", "Finish"},
   batch : SUBSET Order,           \* records of ListDue not yet processed
   late : SUBSET Order,            \* those whose timeout had passed at `now'
   o : Order \cup {NoOrder}, near : SUBSET Driver]

TypeOK ==
  /\ status \in [Order -> Status \cup {"none"}]
  /\ driver \in [Order -> Driver \cup {NoDriver}]
  /\ price \in [Order -> Price \cup {NoPrice}]
  /\ offer \in [Order -> [Driver -> OfferState]]
  /\ offerPrice \in [Order -> [Driver -> Price \cup {NoPrice}]]
  /\ dispatch \in [Order -> {"none", "searching", "finished"}]
  /\ due \in [Order -> BOOLEAN]
  /\ timedOut \in [Order -> BOOLEAN]
  /\ account \in [Driver -> {"approved", "blocked", "deleted"}]
  /\ charged \in [Order -> SUBSET Driver]
  /\ disp \in DispRecord
  /\ req \in [Request -> ReqRecord]

IdleReq ==
  [pc |-> "idle", o |-> NoOrder, d |-> NoDriver, price |-> NoPrice,
   from |-> "none", to |-> "none", then |-> "none"]
IdleDisp ==
  [pc |-> "idle", batch |-> {}, late |-> {}, o |-> NoOrder, near |-> {}]

Init ==
  /\ status = [o \in Order |-> "none"]
  /\ driver = [o \in Order |-> NoDriver]
  /\ price = [o \in Order |-> NoPrice]
  /\ offer = [o \in Order |-> [d \in Driver |-> "none"]]
  /\ offerPrice = [o \in Order |-> [d \in Driver |-> NoPrice]]
  /\ dispatch = [o \in Order |-> "none"]
  /\ due = [o \in Order |-> FALSE]
  /\ timedOut = [o \in Order |-> FALSE]
  /\ account = [d \in Driver |-> "approved"]
  /\ charged = [o \in Order |-> {}]
  /\ disp = IdleDisp
  /\ req = [r \in Request |-> IdleReq]
-----------------------------------------------------------------------------
(* Statements of the repositories.                                         *)

SetStatus(o, s) == status' = [status EXCEPT ![o] = s]

SetOffer(o, d, s) == offer' = [offer EXCEPT ![o][d] = s]

\* Slip: the assignment forgets the status column.
AssignDriverRow_KeepsStatus(o, d) ==
  /\ driver' = [driver EXCEPT ![o] = d]
  /\ UNCHANGED status

\* orders.driver_id and orders.status, whatever they were.
AssignDriverRow(o, d) ==
  /\ driver' = [driver EXCEPT ![o] = d]
  /\ SetStatus(o, "accepted")

\* The accepting driver's pending offer is taken, every other pending one of
\* the order is closed.
AcceptOfferRows(o, d) ==
  offer' = [offer EXCEPT ![o] =
              [e \in Driver |->
                 IF e = d THEN "accepted"
                 ELSE IF offer[o][e] = "pending" THEN "closed"
                 ELSE offer[o][e]]]

\* Slip: a state the column's enumeration does not have.
CreateOfferRow_UnknownState(o, d) == SetOffer(o, d, "sent")

\* INSERT ... ON DUPLICATE KEY UPDATE state = 'pending'.
CreateOfferRow(o, d) == SetOffer(o, d, "pending")

\* Slip: only a pending row counts as an offer.
AlreadyOffered_PendingOnly(o, d) == offer[o][d] = "pending"

AlreadyOffered(o, d) == offer[o][d] # "none"

\* Slip: the price is written to any offer of the driver.
Priceable_AnyRow(o, d) == offer[o][d] # "none"

\* Offers whose driver may still put a price on them.
Priceable(o, d) == offer[o][d] \in {"pending", "declined"}

\* Slip: the query joins orders and looks only at those still searching.
DueOrders_SearchingOnly ==
  {o \in Order : dispatch[o] = "searching" /\ due[o] /\ status[o] = "searching"}

DueOrders == {o \in Order : dispatch[o] = "searching" /\ due[o]}

HasOtherActiveOrder(d, o) ==
  \E p \in Order \ {o} : driver[p] = d /\ status[p] \in DriverActive

Eligible(d) == account[d] = "approved"
-----------------------------------------------------------------------------
(* Requests.                                                               *)

\* A free slot takes a request of handler h; the call in flight is `call'.
Begin(h, r, call) ==
  /\ h \in Handlers
  /\ req[r].pc = "idle"
  /\ req' = [req EXCEPT ![r] = call]

Goto(r, call) == req' = [req EXCEPT ![r] = call]

End(r) == req' = [req EXCEPT ![r] = IdleReq]

Exists(o) == status[o] # "none"

\* POST /orders: the order, its dispatch record and its status in one
\* transaction, then a trigger.
CreateOrder(r, o, p) ==
  /\ status[o] = "none"
  /\ Begin("create", r, [IdleReq EXCEPT !.pc = "TriggerImmediate", !.o = o])
  /\ SetStatus(o, "searching")
  /\ price' = [price EXCEPT ![o] = p]
  /\ dispatch' = [dispatch EXCEPT ![o] = "searching"]
  /\ due' = [due EXCEPT ![o] = TRUE]
  /\ UNCHANGED <<driver, offerVars, timedOut, account, charged, disp>>

\* POST /orders/{id}/reprice: the price is written whatever the status is.
\* An unchanged price affects no row, and the handler ends with an error.
Reprice(r, o, p) ==
  /\ Exists(o)
  /\ price[o] # p
  /\ Begin("reprice", r, [IdleReq EXCEPT !.pc = "TriggerImmediate", !.o = o])
  /\ price' = [price EXCEPT ![o] = p]
  /\ UNCHANGED <<status, driver, offerVars, dispatchVars, account, charged,
                 disp>>

\* next_tick_at = now, whatever the record's state is.
TriggerImmediate(r) ==
  /\ req[r].pc = "TriggerImmediate"
  /\ due' = [due EXCEPT ![req[r].o] = TRUE]
  /\ End(r)
  /\ UNCHANGED <<orderVars, offerVars, dispatch, timedOut, account, charged,
                 disp>>

\* POST /offers/propose_price: the handler's checks.
OfferPrice(r, o, d, p) ==
  /\ Eligible(d)
  /\ ~HasOtherActiveOrder(d, o)
  /\ status[o] = "searching"
  /\ Begin("offer_price", r,
           [IdleReq EXCEPT !.pc = "SetDriverPrice", !.o = o, !.d = d,
                           !.price = p])
  /\ UNCHANGED <<tables, disp>>

\* ... and its write, which reopens a declined offer.
SetDriverPrice(r) ==
  LET o == req[r].o
      d == req[r].d
  IN /\ req[r].pc = "SetDriverPrice"
     /\ IF Priceable(o, d)
          THEN /\ SetOffer(o, d, "pending")
               /\ offerPrice' = [offerPrice EXCEPT ![o][d] = req[r].price]
          ELSE UNCHANGED offerVars
     /\ End(r)
     /\ UNCHANGED <<orderVars, dispatchVars, account, charged, disp>>

\* POST /offers/respond: the passenger decides on one driver's offer.
OfferResponse(r, o, d, call) ==
  /\ call \in {"AcceptOffer", "DeclineOffer"}
  /\ status[o] = "searching"
  /\ Eligible(d)
  /\ Begin("offer_response", r,
           [IdleReq EXCEPT !.pc = call, !.o = o, !.d = d, !.price = price[o]])
  /\ UNCHANGED <<tables, disp>>

\* POST /offers/accept: the driver takes an offer; the order's status is
\* read and not looked at.
OfferAccept(r, o, d) ==
  /\ Eligible(d)
  /\ Exists(o)
  /\ Begin("offer_accept", r,
           [IdleReq EXCEPT !.pc = "AcceptOffer", !.o = o, !.d = d,
                           !.price = price[o]])
  /\ UNCHANGED <<tables, disp>>

\* The transaction both handlers share; a driver's own price is written to
\* the order before the driver is.
AcceptOffer(r) ==
  LET o == req[r].o
      d == req[r].d
      asked == offerPrice[o][d]
  IN /\ req[r].pc = "AcceptOffer"
     /\ IF offer[o][d] = "pending"
          THEN /\ AcceptOfferRows(o, d)
               /\ IF asked # NoPrice /\ asked # req[r].price
                    THEN Goto(r, [req[r] EXCEPT !.pc = "UpdatePrice",
                                                !.price = asked])
                    ELSE Goto(r, [req[r] EXCEPT !.pc = "AssignDriver"])
          ELSE End(r) /\ UNCHANGED offer
     /\ UNCHANGED <<orderVars, offerPrice, dispatchVars, account, charged,
                    disp>>

\* A failed write of the price is logged and the driver assigned all the same.
UpdatePrice(r) ==
  LET o == req[r].o
  IN /\ req[r].pc = "UpdatePrice"
     /\ \/ price' = [price EXCEPT ![o] = req[r].price]
        \/ UNCHANGED price
     /\ Goto(r, [req[r] EXCEPT !.pc = "AssignDriver"])
     /\ UNCHANGED <<status, driver, offerVars, dispatchVars, account, charged,
                    disp>>

AssignDriver(r) ==
  /\ req[r].pc = "AssignDriver"
  /\ AssignDriverRow(req[r].o, req[r].d)
  /\ End(r)
  /\ UNCHANGED <<price, offerVars, dispatchVars, account, charged, disp>>

DeclineOffer(r) ==
  LET o == req[r].o
      d == req[r].d
  IN /\ req[r].pc = "DeclineOffer"
     /\ IF offer[o][d] = "pending" THEN SetOffer(o, d, "declined")
                                   ELSE UNCHANGED offer
     /\ End(r)
     /\ UNCHANGED <<orderVars, offerPrice, dispatchVars, account, charged,
                    disp>>
-----------------------------------------------------------------------------
(* Handlers that change a status: they read it, check the graph, and write *)
(* on condition that it has not changed.                                   *)

\* The read of a status handler.  `d' is the driver the commission, if any,
\* will be taken from.
ReadStatus(h, r, call, o, d, to, then) ==
  /\ CanTransition(status[o], to)
  /\ Begin(h, r, [IdleReq EXCEPT !.pc = call, !.o = o, !.d = d,
                                 !.from = status[o], !.to = to,
                                 !.then = then])
  /\ UNCHANGED <<tables, disp>>

\* POST /orders/{id}/status, any caller, any target but "canceled".
HandleStatus(r, o, to) ==
  /\ Exists(o)
  /\ IF to = "completed"
       THEN /\ driver[o] # NoDriver
            /\ ReadStatus("status", r, "UpdateStatusWithDriverCharge", o,
                          driver[o], to, "none")
       ELSE ReadStatus("status", r, "UpdateStatusCAS", o, driver[o], to,
                       "none")

\* The passenger's cancel, of POST .../cancel and of status "canceled".
PassengerCancel(r, o) ==
  /\ status[o] \in {"searching", "accepted", "arrived", "waiting_free",
                    "waiting_paid", "in_progress"}
  /\ ReadStatus("passenger_cancel", r, "UpdateStatusCAS", o, driver[o],
                "canceled", "none")

\* Slip: the handler does not compare the order's driver with the caller.
OwnOrder_AnyDriver(o, d) == Eligible(d) /\ Exists(o)

\* A driver's lifecycle call: an eligible driver and the driver's own order.
OwnOrder(o, d) == Eligible(d) /\ driver[o] = d

\* applyStatusSequence: a target equal to the current status is skipped.
ApplyStatusSequence(h, r, o, d, to, then) ==
  /\ status[o] # to
  /\ ReadStatus(h, r, "UpdateStatusCAS", o, d, to, then)

LifecycleArrive(r, o, d) ==
  /\ OwnOrder(o, d)
  /\ status[o] \notin {"waiting_free", "waiting_paid", "in_progress"}
  /\ IF status[o] = "driver_at_pickup"
       THEN ApplyStatusSequence("arrive", r, o, d, "waiting_free", "none")
       ELSE ApplyStatusSequence("arrive", r, o, d, "driver_at_pickup",
                                "waiting_free")

LifecycleWaitingAdvance(r, o, d) ==
  /\ OwnOrder(o, d)
  /\ status[o] = "waiting_free"
  /\ ApplyStatusSequence("waiting_advance", r, o, d, "waiting_paid", "none")

LifecycleStart(r, o, d) ==
  /\ OwnOrder(o, d)
  /\ status[o] \in {"waiting_free", "waiting_paid", "driver_at_pickup",
                    "accepted", "assigned"}
  /\ ApplyStatusSequence("start", r, o, d, "in_progress", "none")

\* Completes the ride and takes the commission.
LifecycleFinish(r, o, d) ==
  /\ OwnOrder(o, d)
  /\ status[o] = "in_progress"
  /\ ReadStatus("finish", r, "UpdateStatusWithDriverCharge", o, d,
                "completed", "none")

\* Completes the ride and takes no commission.
LifecycleConfirmCash(r, o, d) ==
  /\ OwnOrder(o, d)
  /\ status[o] = "at_last_point"
  /\ ApplyStatusSequence("confirm_cash", r, o, d, "completed", "none")

LifecycleCancel(r, o, d) ==
  /\ OwnOrder(o, d)
  /\ ApplyStatusSequence("driver_cancel", r, o, d, "canceled_by_driver",
                         "none")

LifecycleNoShow(r, o, d) ==
  /\ OwnOrder(o, d)
  /\ status[o] \in {"waiting_free", "waiting_paid"}
  /\ ApplyStatusSequence("no_show", r, o, d, "no_show", "none")

\* Slip: the update has no "AND status = ?".
StatusUnchanged_NotCompared(r) == Exists(req[r].o)

\* The row still has the status the handler read.
StatusUnchanged(r) == status[req[r].o] = req[r].from

\* Write one status; go on with the rest of the sequence, if any.
UpdateStatusCAS(r) ==
  LET q == req[r]
  IN /\ q.pc = "UpdateStatusCAS"
     /\ IF StatusUnchanged(r)
          THEN /\ SetStatus(q.o, q.to)
               /\ IF q.then # "none" /\ CanTransition(q.to, q.then)
                    THEN Goto(r, [q EXCEPT !.from = q.to, !.to = q.then,
                                           !.then = "none"])
                    ELSE End(r)
          ELSE End(r) /\ UNCHANGED status
     /\ UNCHANGED <<driver, price, offerVars, dispatchVars, account, charged,
                    disp>>

\* The status and the driver's balance in one transaction.
UpdateStatusWithDriverCharge(r) ==
  LET q == req[r]
  IN /\ q.pc = "UpdateStatusWithDriverCharge"
     /\ IF StatusUnchanged(r)
          THEN /\ SetStatus(q.o, q.to)
               /\ charged' = [charged EXCEPT ![q.o] = @ \cup {q.d}]
          ELSE UNCHANGED <<status, charged>>
     /\ End(r)
     /\ UNCHANGED <<driver, price, offerVars, dispatchVars, account, disp>>

\* The provider's "paid" notification, in one statement.
AirbaPayWebhook(o) ==
  /\ "webhook" \in Handlers
  /\ status[o] = "completed"
  /\ SetStatus(o, "paid")
  /\ UNCHANGED <<driver, price, offerVars, dispatchVars, account, charged,
                 disp, req>>

\* The request's context ends (client gone, five seconds passed, a database
\* error): the calls that were left are not made.
Abort(r) ==
  /\ req[r].pc # "idle"
  /\ End(r)
  /\ UNCHANGED <<tables, disp>>
-----------------------------------------------------------------------------
(* The administrator.                                                      *)

\* Ban or unban, approve or reject.
SetAccount(d, a) ==
  /\ "admin" \in Handlers
  /\ a \in {"approved", "blocked"} \ {account[d]}
  /\ account[d] # "deleted"
  /\ account' = [account EXCEPT ![d] = a]
  /\ UNCHANGED <<orderVars, offerVars, dispatchVars, charged, disp, req>>

\* The foreign keys refuse to delete a driver that an order or an offer names.
DeleteDriver(d) ==
  /\ "admin" \in Handlers
  /\ account[d] # "deleted"
  /\ \A o \in Order : driver[o] # d /\ offer[o][d] = "none"
  /\ account' = [account EXCEPT ![d] = "deleted"]
  /\ UNCHANGED <<orderVars, offerVars, dispatchVars, charged, disp, req>>
-----------------------------------------------------------------------------
(* The dispatcher: one goroutine, one record at a time.                    *)

\* The next record of the batch, or the end of the tick.
NextRecord(batch, late) ==
  disp' = IF batch = {} THEN IdleDisp
          ELSE [IdleDisp EXCEPT !.pc = "Get", !.batch = batch, !.late = late]

\* The ticker fires and ListDue finds something.
DispatchTick ==
  /\ disp.pc = "idle"
  /\ DueOrders # {}
  /\ NextRecord(DueOrders, {o \in DueOrders : timedOut[o]})
  /\ UNCHANGED <<tables, req>>

\* processRecord reads the order and takes one of three ways; Nearby may
\* return any drivers.
ProcessRecord(o) ==
  LET at(pc, near) ==
        disp' = [disp EXCEPT !.pc = pc, !.o = o, !.near = near,
                             !.batch = @ \ {o}]
  IN /\ disp.pc = "Get"
     /\ o \in disp.batch
     /\ \/ status[o] # "searching" /\ at("Finish", {})
        \/ status[o] = "searching" /\ o \in disp.late /\ at("Timeout", {})
        \/ /\ status[o] = "searching" /\ o \notin disp.late
           /\ \E near \in SUBSET Driver : at("Offer", near)
     /\ UNCHANGED <<tables, req>>

\* One driver of those found: skipped if the row is gone or an offer exists.
OfferDriver(d) ==
  LET o == disp.o
  IN /\ disp.pc = "Offer"
     /\ d \in disp.near
     /\ disp' = [disp EXCEPT !.near = @ \ {d}]
     /\ IF account[d] # "deleted" /\ ~AlreadyOffered(o, d)
          THEN CreateOfferRow(o, d)
          ELSE UNCHANGED offer
     /\ UNCHANGED <<orderVars, offerPrice, dispatchVars, account, charged, req>>

\* All drivers done: next_tick_at moves into the future.
UpdateRadius ==
  /\ disp.pc = "Offer"
  /\ disp.near = {}
  /\ due' = [due EXCEPT ![disp.o] = FALSE]
  /\ NextRecord(disp.batch, disp.late)
  /\ UNCHANGED <<orderVars, offerVars, dispatch, timedOut, account, charged,
                 req>>

\* Slip: the write of "not_found" is refused and the record left as it was.
TimeoutSearch_Refused ==
  /\ disp.pc = "Timeout"
  /\ NextRecord(disp.batch, disp.late)
  /\ UNCHANGED <<tables, req>>

\* The search has lasted too long; losing the race to an acceptance or a
\* cancellation is no error.
TimeoutSearch ==
  /\ disp.pc = "Timeout"
  /\ IF status[disp.o] = "searching" THEN SetStatus(disp.o, "not_found")
                                     ELSE UNCHANGED status
  /\ disp' = [disp EXCEPT !.pc = "Finish"]
  /\ UNCHANGED <<driver, price, offerVars, dispatchVars, account, charged, req>>

FinishDispatch ==
  /\ disp.pc = "Finish"
  /\ dispatch' = [dispatch EXCEPT ![disp.o] = "finished"]
  /\ NextRecord(disp.batch, disp.late)
  /\ UNCHANGED <<orderVars, offerVars, due, timedOut, account, charged, req>>

\* A database or Redis error ends one record's processing, not the tick (one in
\* reading the order is one right after: nothing has been written).
DispatchError ==
  /\ disp.pc \in {"Offer", "Timeout", "Finish"}
  /\ NextRecord(disp.batch, disp.late)
  /\ UNCHANGED <<tables, req>>

\* The process dies and starts again: only the tables are left.
Crash ==
  /\ disp # IdleDisp \/ \E r \in Request : req[r] # IdleReq
  /\ disp' = IdleDisp
  /\ req' = [r \in Request |-> IdleReq]
  /\ UNCHANGED tables
-----------------------------------------------------------------------------
(* Time.                                                                   *)

NextTickPasses(o) ==
  /\ dispatch[o] = "searching"
  /\ ~due[o]
  /\ due' = [due EXCEPT ![o] = TRUE]
  /\ UNCHANGED <<orderVars, offerVars, dispatch, timedOut, account, charged,
                 disp, req>>

TimeoutPasses(o) ==
  /\ dispatch[o] = "searching"
  /\ ~timedOut[o]
  /\ timedOut' = [timedOut EXCEPT ![o] = TRUE]
  /\ UNCHANGED <<orderVars, offerVars, dispatch, due, account, charged, disp,
                 req>>

\* Slip: an offer that carries a price is not expired.
Pending_Unpriced ==
  {x \in Order \X Driver : /\ offer[x[1]][x[2]] = "pending"
                          /\ offerPrice[x[1]][x[2]] = NoPrice}

Pending == {x \in Order \X Driver : offer[x[1]][x[2]] = "pending"}

\* The cleanup worker expires the pending offers whose ttl_at has passed.
ExpireOffers(rows) ==
  /\ rows # {}
  /\ rows \subseteq Pending
  /\ offer' = [o \in Order |->
                 [d \in Driver |->
                    IF <<o, d>> \in rows THEN "expired" ELSE offer[o][d]]]
  /\ UNCHANGED <<orderVars, offerPrice, dispatchVars, account, charged, disp,
                 req>>
-----------------------------------------------------------------------------
HandlerStep(r) ==
  \/ \E o \in Order, p \in Price : CreateOrder(r, o, p) \/ Reprice(r, o, p)
  \/ TriggerImmediate(r)
  \/ \E o \in Order, d \in Driver, p \in Price : OfferPrice(r, o, d, p)
  \/ \E o \in Order, d \in Driver, call \in {"AcceptOffer", "DeclineOffer"} :
       OfferResponse(r, o, d, call)
  \/ \E o \in Order, d \in Driver : OfferAccept(r, o, d)
  \/ SetDriverPrice(r)
  \/ AcceptOffer(r)
  \/ UpdatePrice(r)
  \/ AssignDriver(r)
  \/ DeclineOffer(r)

RideStep(r) ==
  \/ \E o \in Order, to \in StatusTargets \ {"canceled"} :
       HandleStatus(r, o, to)
  \/ \E o \in Order : PassengerCancel(r, o)
  \/ \E o \in Order, d \in Driver :
       \/ LifecycleArrive(r, o, d)
       \/ LifecycleWaitingAdvance(r, o, d)
       \/ LifecycleStart(r, o, d)
       \/ LifecycleFinish(r, o, d)
       \/ LifecycleConfirmCash(r, o, d)
       \/ LifecycleCancel(r, o, d)
       \/ LifecycleNoShow(r, o, d)
  \/ UpdateStatusCAS(r)
  \/ UpdateStatusWithDriverCharge(r)
  \/ Abort(r)

DispatcherStep ==
  \/ DispatchTick
  \/ \E o \in Order : ProcessRecord(o)
  \/ \E d \in Driver : OfferDriver(d)
  \/ UpdateRadius
  \/ TimeoutSearch
  \/ FinishDispatch
  \/ DispatchError

Next ==
  \/ \E r \in Request : HandlerStep(r) \/ RideStep(r)
  \/ \E o \in Order : AirbaPayWebhook(o)
  \/ \E d \in Driver : DeleteDriver(d) \/ \E a \in {"approved", "blocked"} :
                                             SetAccount(d, a)
  \/ DispatcherStep
  \/ Crash
  \/ \E o \in Order : NextTickPasses(o) \/ TimeoutPasses(o)
  \/ \E rows \in SUBSET Pending : ExpireOffers(rows)

Spec == Init /\ [][Next]_vars

(***************************************************************************)
(* Fairness.  Clocks advance and both tickers fire for ever: weak          *)
(* fairness.  The dispatcher's own calls may fail or the process may die   *)
(* any number of times, but not at the same call for ever: strong          *)
(* fairness.  Nothing is assumed of clients: a request may never come, and *)
(* one in flight may be aborted.                                           *)
(***************************************************************************)
DispatcherFairness ==
  /\ WF_vars(DispatchTick)
  /\ \A o \in Order : SF_vars(ProcessRecord(o))
  /\ SF_vars(\E d \in Driver : OfferDriver(d))
  /\ SF_vars(UpdateRadius)
  /\ SF_vars(TimeoutSearch)
  /\ SF_vars(FinishDispatch)

ClockFairness ==
  /\ \A o \in Order : WF_vars(NextTickPasses(o)) /\ WF_vars(TimeoutPasses(o))
  /\ \A o \in Order, d \in Driver :
       WF_vars(\E rows \in SUBSET Pending :
                 <<o, d>> \in rows /\ ExpireOffers(rows))

FairSpec == Spec /\ DispatcherFairness /\ ClockFairness
-----------------------------------------------------------------------------
(* Safety.                                                                 *)

\* The driver an order names has that order's accepted offer, whatever the
\* dispatcher, the expiry worker, a decline or a new price did to the offers
\* between AcceptOffer and AssignDriver.
DriverHasAcceptedOffer ==
  \A o \in Order : driver[o] # NoDriver => offer[o][driver[o]] = "accepted"

\* An order that is searching has no driver, and its dispatch record is still
\* being worked on: the dispatcher, which decides on a status read earlier,
\* never finishes the record of an order that somebody is still waiting for.
SearchingIsDispatched ==
  \A o \in Order :
    status[o] = "searching" => driver[o] = NoDriver /\ dispatch[o] = "searching"

\* Statuses follow the graph although every handler checks the graph on a
\* status read earlier.  The one exception is AssignDriver, which writes
\* "accepted" over any status.
StatusFollowsGraph ==
  [][\A o \in Order :
       status'[o] # status[o] =>
         \/ status[o] = "none" /\ status'[o] = "searching"
         \/ <<status[o], status'[o]>> \in Edges
         \/ \E r \in Request : /\ req[r].pc = "AssignDriver"
                               /\ req[r].o = o
                               /\ status'[o] = "accepted"]_vars

\* The offer table, seen through this mapping, keeps the promises of
\* OfferBook: outcomes are final although offers are re-created, reopened and
\* expired by three different actors, acceptance is all or nothing, and an
\* order is handed only to a driver who won it.
Outcome(state) ==
  CASE state = "pending" -> "open"
    [] state = "accepted" -> "won"
    [] state \in {"closed", "expired"} -> "lost"
    [] OTHER -> state

BookOfOffers ==
  [o \in Order |-> [d \in Driver |-> Outcome(offer[o][d])]]

Book == INSTANCE OfferBook WITH book <- BookOfOffers, holder <- driver

ImplementsOfferBook == Book!Spec

\* A commission is only ever taken from a driver whose offer for that very
\* order was accepted, although the driver to charge is read before the
\* status is written and the order may change hands in between.
ChargedHasAcceptedOffer ==
  \A o \in Order : \A d \in charged[o] : offer[o][d] = "accepted"

\* A ride is completed, and paid, only with a driver on it, although POST
\* .../status may walk an order to in_progress with none.
CompletedHasDriver ==
  \A o \in Order :
    status[o] \in {"completed", "paid"} => driver[o] # NoDriver

\* What docs/taxi_frontend_api.md promises of statuses: once an order has
\* ended it is never under way again.
EndedStaysEnded ==
  [][\A o \in Order : status[o] \in Ended => status'[o] \in Ended]_vars

\* What docs/taxi_frontend_api.md promises of an acceptance: it closes the
\* other offers.
OthersClosedOnceAccepted ==
  \A o \in Order, d \in Driver :
    driver[o] \notin {NoDriver, d} => offer[o][d] # "pending"
-----------------------------------------------------------------------------
(* Liveness.                                                               *)

\* A search ends: somebody takes the order, it is canceled, or the timeout
\* writes not_found.
SearchEnds ==
  \A o \in Order : status[o] = "searching" ~> status[o] # "searching"

\* The dispatcher lets go of every order that is no longer searching.
DispatchEnds ==
  \A o \in Order :
    status[o] \notin {"none", "searching"} ~> dispatch[o] = "finished"

\* No offer stays open for ever.
OffersResolve ==
  \A o \in Order, d \in Driver :
    offer[o][d] = "pending" ~> offer[o][d] # "pending"
=============================================================================
