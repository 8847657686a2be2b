---------------------------- MODULE CourierOrders ----------------------------
(***************************************************************************)
(* Courier orders from creation to their end: the tables courier_orders,   *)
(* courier_order_dispatch and courier_offers, the HTTP handlers of senders *)
(* and couriers, and the courier dispatcher.                               *)
(*                                                                         *)
(* One step is one database statement or one database transaction, as in   *)
(* TaxiOrders.  What differs from the taxi: a status is read, checked and  *)
(* written in one transaction that locks the row; an acceptance is two     *)
(* transactions and closes no other offer; an offer never expires and its  *)
(* own courier may reopen it; and most handlers do not ask whose order it  *)
(* is.  Prices are left out but for one bit: whether the price of an offer *)
(* is the one its courier named.                                           *)
(***************************************************************************)
EXTENDS CourierFSM, FiniteSets

CONSTANTS
  Order, Courier,   \* identities
  Request,          \* slots for requests in flight: bounds concurrency only
  StatusTargets,    \* what POST .../status is asked for
  NoOrder, NoCourier

ASSUME ConstantsAssumption ==
  NoOrder \notin Order /\ NoCourier \notin Courier /\ StatusTargets \subseteq Status

VARIABLES
  status,     \* courier_orders.status, "none" before the row exists
  courier,    \* courier_orders.courier_id
  offer,      \* courier_offers.status, "none" when there is no row
  asked,      \* courier_offers.price is the courier's own
  dispatch,   \* courier_order_dispatch.state
  due,        \* courier_order_dispatch.next_tick_at has passed
  timedOut,   \* the search timeout has passed since its created_at
  disp,       \* the dispatcher goroutine
  req         \* HTTP requests in flight

orderVars == <<status, courier>>
offerVars == <<offer, asked>>
dispatchVars == <<dispatch, due, timedOut>>
tables == <<orderVars, offerVars, dispatchVars>>
vars == <<status, courier, offer, asked, dispatch, due, timedOut, disp, req>>

OfferStatus == {"none", "proposed", "accepted", "declined"}

ReqRecord ==
  [pc : {"idle", "TriggerImmediate", "AssignCourier", "UpdateStatus"},
   o : Order \cup {NoOrder}, c : Courier \cup {NoCourier},
   to : Status \cup {"none"}]

DispRecord ==
  [pc : {"idle", "Get", "Offer", "CreateOffer", "Timeout", "Finish"},
   batch : SUBSET Order,           \* records of ListDue not yet processed
   late : SUBSET Order,            \* those whose timeout had passed at `now'
   o : Order \cup {NoOrder}, near : SUBSET Courier,
   c : Courier \cup {NoCourier}]   \* the courier found without an offer

TypeOK ==
  /\ status \in [Order -> Status \cup {"none"}]
  /\ courier \in [Order -> Courier \cup {NoCourier}]
  /\ offer \in [Order -> [Courier -> OfferStatus]]
  /\ asked \in [Order -> [Courier -> BOOLEAN]]
  /\ dispatch \in [Order -> {"none", "searching", "finished"}]
  /\ due \in [Order -> BOOLEAN]
  /\ timedOut \in [Order -> BOOLEAN]
  /\ disp \in DispRecord
  /\ req \in [Request -> ReqRecord]

IdleReq == [pc |-> "idle", o |-> NoOrder, c |-> NoCourier, to |-> "none"]
IdleDisp ==
  [pc |-> "idle", batch |-> {}, late |-> {}, o |-> NoOrder, near |-> {},
   c |-> NoCourier]

Init ==
  /\ status = [o \in Order |-> "none"]
  /\ courier = [o \in Order |-> NoCourier]
  /\ offer = [o \in Order |-> [c \in Courier |-> "none"]]
  /\ asked = [o \in Order |-> [c \in Courier |-> FALSE]]
  /\ dispatch = [o \in Order |-> "none"]
  /\ due = [o \in Order |-> FALSE]
  /\ timedOut = [o \in Order |-> FALSE]
  /\ disp = IdleDisp
  /\ req = [r \in Request |-> IdleReq]
-----------------------------------------------------------------------------
(* Statements of the repositories.                                         *)

Exists(o) == status[o] # "none"

SetStatus(o, s) == status' = [status EXCEPT ![o] = s]

\* Slip: a missing row is no error.
OfferRowFound_Any(o, c) == Exists(o)

\* UPDATE courier_offers finds a row; if it affects none, the handler ends (as
\* it may when the row had the status already, in the same second).
OfferRowFound(o, c) == offer[o][c] # "none"

SetOfferStatus(o, c, s) ==
  offer' = [offer EXCEPT ![o][c] = IF @ = "none" THEN "none" ELSE s]

\* Slip: the stub overwrites the row that is there.
CreateOfferRow_Overwrites(o, c) ==
  /\ offer' = [offer EXCEPT ![o][c] = "proposed"]
  /\ asked' = [asked EXCEPT ![o][c] = FALSE]

\* INSERT of a stub at the client's price; a row that is there stays.
CreateOfferRow(o, c) ==
  IF offer[o][c] = "none"
    THEN /\ offer' = [offer EXCEPT ![o][c] = "proposed"]
         /\ asked' = [asked EXCEPT ![o][c] = FALSE]
    ELSE UNCHANGED offerVars

\* Slip: the lock is taken and the current status not looked at.
Assignable_Any(o) == Exists(o)

\* The graph lets AssignCourier write "accepted"; an order that is accepted
\* already passes, too.
Assignable(o) == Exists(o) /\ CanTransition(status[o], "accepted")

\* Slip: only the courier column is written.
AssignCourierRow_KeepsStatus(o, c) ==
  /\ courier' = [courier EXCEPT ![o] = c]
  /\ UNCHANGED status

AssignCourierRow(o, c) ==
  /\ courier' = [courier EXCEPT ![o] = c]
  /\ SetStatus(o, "accepted")

\* Slip: the query joins the orders and looks only at those still searching.
DueOrders_SearchingOnly ==
  {o \in Order : dispatch[o] = "searching" /\ due[o] /\ status[o] = "searching"}

DueOrders == {o \in Order : dispatch[o] = "searching" /\ due[o]}
-----------------------------------------------------------------------------
(* Requests.                                                               *)

Begin(r, call) ==
  /\ req[r].pc = "idle"
  /\ req' = [req EXCEPT ![r] = call]

End(r) == req' = [req EXCEPT ![r] = IdleReq]

\* POST /orders: the order and its dispatch record in one transaction, then a
\* trigger.
CreateOrder(r, o) ==
  /\ status[o] = "none"
  /\ Begin(r, [IdleReq EXCEPT !.pc = "TriggerImmediate", !.o = o])
  /\ SetStatus(o, "searching")
  /\ dispatch' = [dispatch EXCEPT ![o] = "searching"]
  /\ due' = [due EXCEPT ![o] = TRUE]
  /\ UNCHANGED <<courier, offerVars, timedOut, disp>>

TriggerImmediate(r) ==
  /\ req[r].pc = "TriggerImmediate"
  /\ due' = [due EXCEPT ![req[r].o] = TRUE]
  /\ End(r)
  /\ UNCHANGED <<orderVars, offerVars, dispatch, timedOut, disp>>

\* POST /offers/price: the courier's price, and "proposed" over any status,
\* in one statement; the order's status is not looked at.
OfferPrice(o, c) ==
  /\ Exists(o)
  /\ offer' = [offer EXCEPT ![o][c] = "proposed"]
  /\ asked' = [asked EXCEPT ![o][c] = TRUE]
  /\ UNCHANGED <<orderVars, dispatchVars, disp, req>>

\* POST /offers/accept, and "accept" of POST /offers/respond: first the
\* offer, whatever its status ...
OfferAccept(r, o, c) ==
  /\ OfferRowFound(o, c)
  /\ Begin(r, [IdleReq EXCEPT !.pc = "AssignCourier", !.o = o, !.c = c])
  /\ SetOfferStatus(o, c, "accepted")
  /\ UNCHANGED <<orderVars, asked, dispatchVars, disp>>

\* ... then, in a second transaction, the order.
AssignCourier(r) ==
  /\ req[r].pc = "AssignCourier"
  /\ IF Assignable(req[r].o)
       THEN AssignCourierRow(req[r].o, req[r].c)
       ELSE UNCHANGED orderVars
  /\ End(r)
  /\ UNCHANGED <<offerVars, dispatchVars, disp>>

\* POST /offers/decline, and "decline" of POST /offers/respond.
OfferDecline(o, c) ==
  /\ OfferRowFound(o, c)
  /\ SetOfferStatus(o, c, "declined")
  /\ UNCHANGED <<orderVars, asked, dispatchVars, disp, req>>

\* OrdersRepo.UpdateStatus: locks the row, compares with the graph, writes.
Movable(o, to) ==
  Exists(o) /\ status[o] # to /\ CanTransition(status[o], to)

\* The handlers that only call it: cancel, arrive, start, finish, confirm-cash
\* and no-show.  None asks whether the order is the caller's.
LifecycleUpdate(o, to) ==
  /\ to \in {"waiting_free", "in_progress", "completed", "closed"} \cup Canceled
  /\ Movable(o, to)
  /\ SetStatus(o, to)
  /\ UNCHANGED <<courier, offerVars, dispatchVars, disp, req>>

\* The handlers that read the order, decide, and call it later.
ReadOrder(r, o, to) ==
  /\ Exists(o)
  /\ Begin(r, [IdleReq EXCEPT !.pc = "UpdateStatus", !.o = o, !.to = to])
  /\ UNCHANGED <<tables, disp>>

\* POST /orders/{id}/status: any status the graph allows, from any caller.
HandleStatus(r, o, to) ==
  /\ CanTransition(status[o], to)
  /\ ReadOrder(r, o, to)

\* The two handlers that compare the order's courier with the caller.
WaitingAdvance(r, o) ==
  /\ courier[o] # NoCourier
  /\ \/ status[o] = "accepted" /\ ReadOrder(r, o, "waiting_free")
     \/ status[o] = "waiting_free" /\ ReadOrder(r, o, "in_progress")

WaypointNext(r, o) ==
  /\ courier[o] # NoCourier
  /\ status[o] = "in_progress"
  /\ ReadOrder(r, o, "completed")

UpdateStatus(r) ==
  /\ req[r].pc = "UpdateStatus"
  /\ IF Movable(req[r].o, req[r].to)
       THEN SetStatus(req[r].o, req[r].to)
       ELSE UNCHANGED status
  /\ End(r)
  /\ UNCHANGED <<courier, offerVars, dispatchVars, disp>>

\* The request's context ends: the calls that were left are not made.
Abort(r) ==
  /\ req[r].pc # "idle"
  /\ End(r)
  /\ UNCHANGED <<tables, disp>>
-----------------------------------------------------------------------------
(* The dispatcher: one goroutine, one record at a time.                    *)

NextRecord(batch, late) ==
  disp' = IF batch = {} THEN IdleDisp
          ELSE [IdleDisp EXCEPT !.pc = "Get", !.batch = batch, !.late = late]

DispatchTick ==
  /\ disp.pc = "idle"
  /\ DueOrders # {}
  /\ NextRecord(DueOrders, {o \in DueOrders : timedOut[o]})
  /\ UNCHANGED <<tables, req>>

\* processRecord reads the order and takes one of three ways; an order always
\* has route points, and Nearby may return any couriers.
ProcessRecord(o) ==
  LET at(pc, near) ==
        disp' = [disp EXCEPT !.pc = pc, !.o = o, !.near = near,
                             !.batch = @ \ {o}]
  IN /\ disp.pc = "Get"
     /\ o \in disp.batch
     /\ \/ status[o] # "searching" /\ at("Finish", {})
        \/ status[o] = "searching" /\ o \in disp.late /\ at("Timeout", {})
        \/ /\ status[o] = "searching" /\ o \notin disp.late
           /\ \E near \in SUBSET Courier : at("Offer", near)
     /\ UNCHANGED <<tables, req>>

\* AlreadyOffered for one courier of those found.
AlreadyOffered(c) ==
  /\ disp.pc = "Offer"
  /\ c \in disp.near
  /\ disp' = IF offer[disp.o][c] = "none"
               THEN [disp EXCEPT !.near = @ \ {c}, !.pc = "CreateOffer", !.c = c]
               ELSE [disp EXCEPT !.near = @ \ {c}]
  /\ UNCHANGED <<tables, req>>

\* ... and the stub that keeps it from a second offer.
CreateOffer ==
  /\ disp.pc = "CreateOffer"
  /\ CreateOfferRow(disp.o, disp.c)
  /\ disp' = [disp EXCEPT !.pc = "Offer", !.c = NoCourier]
  /\ UNCHANGED <<orderVars, dispatchVars, req>>

UpdateRadius ==
  /\ disp.pc = "Offer"
  /\ disp.near = {}
  /\ due' = [due EXCEPT ![disp.o] = FALSE]
  /\ NextRecord(disp.batch, disp.late)
  /\ UNCHANGED <<orderVars, offerVars, dispatch, timedOut, req>>

\* The search has lasted too long.  UpdateStatusCAS asks the graph about
\* "not_found" first; its refusal, and a lost race, come back as errors the
\* dispatcher does not forgive, and the record stays as it is.
TimeoutSearch ==
  /\ disp.pc = "Timeout"
  /\ IF /\ CanTransition("searching", "not_found")
        /\ status[disp.o] = "searching"
       THEN /\ SetStatus(disp.o, "not_found")
            /\ disp' = [disp EXCEPT !.pc = "Finish"]
       ELSE NextRecord(disp.batch, disp.late) /\ UNCHANGED status
  /\ UNCHANGED <<courier, offerVars, dispatchVars, req>>

FinishDispatch ==
  /\ disp.pc = "Finish"
  /\ dispatch' = [dispatch EXCEPT ![disp.o] = "finished"]
  /\ NextRecord(disp.batch, disp.late)
  /\ UNCHANGED <<orderVars, offerVars, due, timedOut, req>>

\* A database or Redis error ends one record's processing, not the tick.
DispatchError ==
  /\ disp.pc \in {"Offer", "Finish"}
  /\ NextRecord(disp.batch, disp.late)
  /\ UNCHANGED <<tables, req>>

\* The process dies and starts again: only the tables are left.
Crash ==
  /\ disp # IdleDisp \/ \E r \in Request : req[r] # IdleReq
  /\ disp' = IdleDisp
  /\ req' = [r \in Request |-> IdleReq]
  /\ UNCHANGED tables

NextTickPasses(o) ==
  /\ dispatch[o] = "searching"
  /\ ~due[o]
  /\ due' = [due EXCEPT ![o] = TRUE]
  /\ UNCHANGED <<orderVars, offerVars, dispatch, timedOut, disp, req>>

TimeoutPasses(o) ==
  /\ dispatch[o] = "searching"
  /\ ~timedOut[o]
  /\ timedOut' = [timedOut EXCEPT ![o] = TRUE]
  /\ UNCHANGED <<orderVars, offerVars, dispatch, due, disp, req>>
-----------------------------------------------------------------------------
HandlerStep(r) ==
  \/ \E o \in Order : \/ CreateOrder(r, o)
                      \/ WaitingAdvance(r, o)
                      \/ WaypointNext(r, o)
                      \/ \E to \in StatusTargets : HandleStatus(r, o, to)
                      \/ \E c \in Courier : OfferAccept(r, o, c)
  \/ TriggerImmediate(r)
  \/ AssignCourier(r)
  \/ UpdateStatus(r)
  \/ Abort(r)

\* Requests that are one statement or one transaction.
OneCallStep ==
  \E o \in Order :
    \/ \E c \in Courier : OfferPrice(o, c) \/ OfferDecline(o, c)
    \/ \E to \in Status : LifecycleUpdate(o, to)

DispatcherStep ==
  \/ DispatchTick
  \/ \E o \in Order : ProcessRecord(o)
  \/ \E c \in Courier : AlreadyOffered(c)
  \/ CreateOffer
  \/ UpdateRadius
  \/ TimeoutSearch
  \/ FinishDispatch
  \/ DispatchError

Next ==
  \/ \E r \in Request : HandlerStep(r)
  \/ OneCallStep
  \/ DispatcherStep
  \/ Crash
  \/ \E o \in Order : NextTickPasses(o) \/ TimeoutPasses(o)

Spec == Init /\ [][Next]_vars

(***************************************************************************)
(* Fairness, as for the taxi: the clocks and the ticker never stop, and no *)
(* call of the dispatcher fails for ever.  Nothing is assumed of clients.  *)
(***************************************************************************)
ServerFairness ==
  /\ WF_vars(DispatchTick)
  /\ \A o \in Order : SF_vars(ProcessRecord(o))
  /\ SF_vars(\E c \in Courier : AlreadyOffered(c))
  /\ SF_vars(CreateOffer)
  /\ SF_vars(UpdateRadius)
  /\ SF_vars(TimeoutSearch)
  /\ SF_vars(FinishDispatch)
  /\ \A o \in Order : WF_vars(NextTickPasses(o)) /\ WF_vars(TimeoutPasses(o))

FairSpec == Spec /\ ServerFairness
-----------------------------------------------------------------------------
(* Properties.                                                             *)

\* An order that is searching has no courier and an open dispatch record,
\* although the dispatcher acts on a status it read earlier and an acceptance
\* is two transactions.
SearchingIsDispatched ==
  \A o \in Order :
    status[o] = "searching" =>
      courier[o] = NoCourier /\ dispatch[o] = "searching"

\* The courier an order names has an offer for it, although the offer is
\* written before the order and the two may be apart.
CourierWasOffered ==
  \A o \in Order : courier[o] # NoCourier => offer[o][courier[o]] # "none"

\* Once the order has left "accepted", no acceptance, however late, gives it
\* to another courier or brings it back.
CourierFixedOnceUnderWay ==
  [][\A o \in Order :
       status[o] \notin {"none", "searching", "accepted"} =>
         /\ courier'[o] = courier[o]
         /\ status'[o] \notin {"searching", "accepted"}]_vars

\* How far an order is, and what was settled with a courier.
StageOf ==
  [s \in Status \cup {"none"} |->
     CASE s = "searching" -> "open"
       [] s = "accepted" -> "given"
       [] s \in {"waiting_free", "in_progress"} -> "underway"
       [] s \in {"completed", "closed"} -> "delivered"
       [] s \in Canceled -> "canceled"
       [] OTHER -> "none"]

TermsOf(row, named) ==
  CASE row = "none" -> "none"
    [] row # "none" /\ named -> "named"
    [] OTHER -> "invited"

Stages == [o \in Order |-> StageOf[status[o]]]
TermsOfOffers ==
  [o \in Order |-> [c \in Courier |-> TermsOf(offer[o][c], asked[o][c])]]

Book == INSTANCE CourierBook WITH
          stage <- Stages, holder <- courier, terms <- TermsOfOffers

\* Through this mapping orders and offers keep what CourierBook promises,
\* although nobody asks whose order it is, an acceptance is two transactions
\* and the dispatcher goes on inviting after the search.
ImplementsCourierBook == Book!Spec

\* The price a courier named is never replaced by the dispatcher's stub,
\* although AlreadyOffered may have looked before the courier spoke.
AskedPriceKept ==
  [][\A o \in Order, c \in Courier : asked[o][c] => asked'[o][c]]_vars

\* The dispatcher lets go of every order that is no longer searching.
DispatchEnds ==
  \A o \in Order :
    status[o] \notin {"none", "searching"} ~> dispatch[o] = "finished"

\* What the dispatcher's comment on its timeout promises: a search ends.
SearchEnds ==
  \A o \in Order : status[o] = "searching" ~> status[o] # "searching"
=============================================================================
