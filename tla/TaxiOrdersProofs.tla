--------------------------- MODULE TaxiOrdersProofs ---------------------------
(***************************************************************************)
(* Theorems about TaxiOrders for any sets of orders, drivers, prices and   *)
(* requests.  Everything rests on one inductive invariant, IndInv: what    *)
(* the tables say, what a request in flight may rely on (although it read  *)
(* the tables some steps ago), and what the dispatcher may rely on.        *)
(***************************************************************************)
EXTENDS TaxiOrders, TLAPS

OfferCalls ==
  {"SetDriverPrice", "AcceptOffer", "UpdatePrice", "AssignDriver",
   "DeclineOffer", "UpdateStatusWithDriverCharge"}

StatusCalls == {"UpdateStatusCAS", "UpdateStatusWithDriverCharge"}

\* What a request relies on when the tables are st, dr and of: its order
\* exists; a driver about to be assigned or charged has the accepted offer; a
\* status about to be written is a successor of the one that was read, and
\* "completed" is only written to an order that has had a driver.
Fit(q, st, dr, of) ==
  /\ q.pc # "idle" => q.o \in Order /\ st[q.o] # "none"
  /\ q.pc \in OfferCalls => q.d \in Driver
  /\ q.pc \in {"SetDriverPrice", "UpdatePrice"} => q.price \in Price
  /\ q.pc \in {"UpdatePrice", "AssignDriver", "UpdateStatusWithDriverCharge"} =>
       of[q.o][q.d] = "accepted"
  /\ q.pc \in StatusCalls =>
       /\ q.from \in Status \ {"created"}
       /\ q.to \in Status
       /\ CanTransition(q.from, q.to)
       /\ q.then \in {"none", "waiting_free"}
       /\ q.to = "completed" => dr[q.o] # NoDriver

RequestsOK == \A r \in Request : Fit(req[r], status, driver, offer)

\* What the dispatcher relies on: its orders exist, and the record it is
\* about to finish is of an order that is no longer searching.
DispatcherOK ==
  /\ \A o \in disp.batch : status[o] # "none"
  /\ disp.pc \in {"Offer", "Timeout", "Finish"} =>
       disp.o \in Order /\ status[disp.o] # "none"
  /\ disp.pc = "Finish" => status[disp.o] # "searching"

\* An order and its dispatch record are created together, no committed order
\* is "created", and one that does not exist has no driver.
RowsAgree ==
  \A o \in Order :
    /\ dispatch[o] = "none" <=> status[o] = "none"
    /\ status[o] # "created"
    /\ status[o] = "none" => driver[o] = NoDriver

TablesOK ==
  /\ RowsAgree
  /\ DriverHasAcceptedOffer
  /\ SearchingIsDispatched
  /\ ChargedHasAcceptedOffer
  /\ CompletedHasDriver

IndInv == TypeOK /\ TablesOK /\ RequestsOK /\ DispatcherOK

\* What no step undoes: an order that exists, a driver that was assigned, an
\* accepted offer, a search that is over.
Keeps ==
  \A o \in Order :
    /\ status[o] # "none" => status'[o] # "none"
    /\ status[o] \notin {"none", "searching"} => status'[o] # "searching"
    /\ driver[o] # NoDriver => driver'[o] # NoDriver
    /\ \A d \in Driver : offer[o][d] = "accepted" => offer'[o][d] = "accepted"
-----------------------------------------------------------------------------
(* Lemmas about the graph, the requests and the two kinds of steps that    *)
(* write no table.                                                         *)

\* Nothing leads back to "created" or to "searching", and "paid" only
\* follows "completed".
LEMMA GraphFacts ==
  ASSUME NEW f \in Status, NEW t \in Status, CanTransition(f, t)
  PROVE  /\ t = "created" => f = "created"
         /\ t = "searching" => f \in {"created", "searching"}
         /\ t = "paid" => f \in {"completed", "paid"}
  BY DEF CanTransition, Edges, Row, CanceledByEither, Status

\* What a request relies on stays true while the tables change under it.
LEMMA FitIsStable ==
  ASSUME NEW q \in ReqRecord, Fit(q, status, driver, offer), Keeps
  PROVE  Fit(q, status', driver', offer')
  BY DEF Fit, Keeps, OfferCalls, StatusCalls

\* An idle slot relies on nothing.
LEMMA IdleFits ==
  ASSUME NEW st, NEW dr, NEW of
  PROVE  IdleReq \in ReqRecord /\ Fit(IdleReq, st, dr, of)
  BY DEF Fit, IdleReq, ReqRecord, ReqPC, OfferCalls, StatusCalls

\* One slot gets a new call that may rely on what it relies on; the others
\* rely on what they relied on before.
LEMMA SlotStep ==
  ASSUME TypeOK, RequestsOK, Keeps,
         NEW r \in Request, NEW q \in ReqRecord,
         Fit(q, status', driver', offer'),
         req' = [req EXCEPT ![r] = q]
  PROVE  RequestsOK' /\ req' \in [Request -> ReqRecord]
  <1>1. req' \in [Request -> ReqRecord]
    BY DEF TypeOK
  <1>2. ASSUME NEW s \in Request
        PROVE  Fit(req'[s], status', driver', offer')
    <2>1. CASE s = r
      BY <2>1 DEF TypeOK
    <2>2. CASE s # r
      <3>1. req'[s] = req[s] /\ req[s] \in ReqRecord
        BY <2>2 DEF TypeOK
      <3>2. Fit(req[s], status, driver, offer)
        BY DEF RequestsOK
      <3> QED
        BY <3>1, <3>2, FitIsStable
    <2> QED
      BY <2>1, <2>2
  <1> QED
    BY <1>1, <1>2 DEF RequestsOK

\* No slot changes.
LEMMA SlotsKeep ==
  ASSUME TypeOK, RequestsOK, Keeps, UNCHANGED req
  PROVE  RequestsOK'
  <1>1. ASSUME NEW s \in Request
        PROVE  Fit(req'[s], status', driver', offer')
    <2>1. req'[s] = req[s] /\ req[s] \in ReqRecord
      BY DEF TypeOK
    <2>2. Fit(req[s], status, driver, offer)
      BY DEF RequestsOK
    <2> QED
      BY <2>1, <2>2, FitIsStable
  <1> QED
    BY <1>1 DEF RequestsOK

\* The dispatcher does not move.
LEMMA DispatcherKeeps ==
  ASSUME TypeOK, DispatcherOK, Keeps, UNCHANGED disp
  PROVE  DispatcherOK'
  BY DEF TypeOK, DispRecord, DispatcherOK, Keeps

\* The tables do not change.
LEMMA TablesKeep ==
  ASSUME TablesOK, UNCHANGED tables
  PROVE  TablesOK' /\ Keeps
  BY DEF TablesOK, tables, orderVars, offerVars, dispatchVars, Keeps,
         RowsAgree, DriverHasAcceptedOffer, SearchingIsDispatched,
         ChargedHasAcceptedOffer, CompletedHasDriver

\* A handler's read: a slot takes or changes a call, no table changes.
LEMMA ReadStep ==
  ASSUME IndInv, UNCHANGED <<tables, disp>>,
         NEW r \in Request, NEW q \in ReqRecord,
         Fit(q, status, driver, offer),
         req' = [req EXCEPT ![r] = q]
  PROVE  IndInv' /\ Keeps
  <1>1. TablesOK' /\ Keeps
    BY TablesKeep DEF IndInv
  <1>2. Fit(q, status', driver', offer')
    BY <1>1, FitIsStable
  <1>3. RequestsOK' /\ req' \in [Request -> ReqRecord]
    BY <1>1, <1>2, SlotStep DEF IndInv
  <1>4. TypeOK'
    BY <1>3 DEF IndInv, TypeOK, tables, orderVars, offerVars, dispatchVars
  <1>5. DispatcherOK'
    BY <1>1, DispatcherKeeps DEF IndInv
  <1> QED
    BY <1>1, <1>3, <1>4, <1>5 DEF IndInv
-----------------------------------------------------------------------------
(* Handlers that only read before they make their first write.             *)

\* The two reads of a driver's offer and the passenger's answer to it.
LEMMA OfferReads ==
  ASSUME IndInv, NEW r \in Request, NEW o \in Order, NEW d \in Driver,
         \/ \E p \in Price : OfferPrice(r, o, d, p)
         \/ \E call \in {"AcceptOffer", "DeclineOffer"} :
              OfferResponse(r, o, d, call)
         \/ OfferAccept(r, o, d)
  PROVE  IndInv' /\ Keeps
  <1>1. CASE \E p \in Price : OfferPrice(r, o, d, p)
    <2>1. PICK p \in Price : OfferPrice(r, o, d, p)
      BY <1>1
    <2> DEFINE q == [IdleReq EXCEPT !.pc = "SetDriverPrice", !.o = o, !.d = d,
                                    !.price = p]
    <2>2. q \in ReqRecord /\ Fit(q, status, driver, offer)
      BY <2>1 DEF OfferPrice, IdleReq, ReqRecord, ReqPC, Fit, OfferCalls,
                  StatusCalls
    <2>3. req' = [req EXCEPT ![r] = q] /\ UNCHANGED <<tables, disp>>
      BY <2>1 DEF OfferPrice, Begin
    <2> QED
      BY <2>2, <2>3, ReadStep
  <1>2. CASE \E call \in {"AcceptOffer", "DeclineOffer"} :
               OfferResponse(r, o, d, call)
    <2>1. PICK call \in {"AcceptOffer", "DeclineOffer"} :
            OfferResponse(r, o, d, call)
      BY <1>2
    <2> DEFINE q == [IdleReq EXCEPT !.pc = call, !.o = o, !.d = d,
                                    !.price = price[o]]
    <2>2. q \in ReqRecord /\ Fit(q, status, driver, offer)
      BY <2>1 DEF IndInv, TypeOK, OfferResponse, IdleReq, ReqRecord, ReqPC,
                  Fit, OfferCalls, StatusCalls
    <2>3. req' = [req EXCEPT ![r] = q] /\ UNCHANGED <<tables, disp>>
      BY <2>1 DEF OfferResponse, Begin
    <2> QED
      BY <2>2, <2>3, ReadStep
  <1>3. CASE OfferAccept(r, o, d)
    <2> DEFINE q == [IdleReq EXCEPT !.pc = "AcceptOffer", !.o = o, !.d = d,
                                    !.price = price[o]]
    <2>1. q \in ReqRecord /\ Fit(q, status, driver, offer)
      BY <1>3 DEF IndInv, TypeOK, OfferAccept, Exists, IdleReq, ReqRecord,
                  ReqPC, Fit, OfferCalls, StatusCalls
    <2>2. req' = [req EXCEPT ![r] = q] /\ UNCHANGED <<tables, disp>>
      BY <1>3 DEF OfferAccept, Begin
    <2> QED
      BY <2>1, <2>2, ReadStep
  <1> QED
    BY <1>1, <1>2, <1>3

\* The read of a status handler.
LEMMA StatusRead ==
  ASSUME IndInv, NEW r \in Request, NEW h, NEW call \in StatusCalls,
         NEW o \in Order, NEW d \in Driver \cup {NoDriver},
         NEW to \in Status, NEW then \in {"none", "waiting_free"},
         status[o] # "none",
         to = "completed" => driver[o] # NoDriver,
         call = "UpdateStatusWithDriverCharge" => d \in Driver /\ driver[o] = d,
         ReadStatus(h, r, call, o, d, to, then)
  PROVE  IndInv' /\ Keeps
  <1> DEFINE q == [IdleReq EXCEPT !.pc = call, !.o = o, !.d = d,
                                  !.from = status[o], !.to = to,
                                  !.then = then]
  <1>1. status[o] \in Status \ {"created"}
    BY DEF IndInv, TypeOK, TablesOK, RowsAgree
  <1>2. call = "UpdateStatusWithDriverCharge" => offer[o][d] = "accepted"
    BY ConstantsAssumption DEF IndInv, TablesOK, DriverHasAcceptedOffer
  <1>3. q \in ReqRecord
    BY <1>1 DEF IdleReq, ReqRecord, ReqPC, StatusCalls, Status
  <1>4. CanTransition(status[o], to)
    BY DEF ReadStatus
  <1>5. Fit(q, status, driver, offer)
    BY <1>1, <1>2, <1>4 DEF IdleReq, Fit, OfferCalls, StatusCalls
  <1>6. req' = [req EXCEPT ![r] = q] /\ UNCHANGED <<tables, disp>>
    BY DEF ReadStatus, Begin
  <1> QED
    BY <1>3, <1>5, <1>6, ReadStep

\* The status handlers that anybody may call.
LEMMA PublicStatusReads ==
  ASSUME IndInv, NEW r \in Request, NEW o \in Order,
         \/ \E to \in StatusTargets \ {"canceled"} : HandleStatus(r, o, to)
         \/ PassengerCancel(r, o)
  PROVE  IndInv' /\ Keeps
  <1>1. driver[o] \in Driver \cup {NoDriver}
    BY DEF IndInv, TypeOK
  <1>2. CASE PassengerCancel(r, o)
    <2>1. status[o] # "none"
      BY <1>2 DEF PassengerCancel
    <2>2. ReadStatus("passenger_cancel", r, "UpdateStatusCAS", o, driver[o],
                     "canceled", "none")
      BY <1>2 DEF PassengerCancel
    <2> QED
      BY <1>1, <2>1, <2>2, StatusRead DEF StatusCalls, Status
  <1>3. CASE \E to \in StatusTargets \ {"canceled"} : HandleStatus(r, o, to)
    <2>1. PICK to \in StatusTargets : HandleStatus(r, o, to)
      BY <1>3
    <2>2. status[o] # "none" /\ to \in Status
      BY <2>1, ConstantsAssumption DEF HandleStatus, Exists
    <2>3. CASE to = "completed"
      <3>1. driver[o] # NoDriver
        BY <2>1, <2>3 DEF HandleStatus
      <3>2. ReadStatus("status", r, "UpdateStatusWithDriverCharge", o,
                       driver[o], to, "none")
        BY <2>1, <2>3 DEF HandleStatus
      <3> QED
        BY <1>1, <2>2, <3>1, <3>2, StatusRead DEF StatusCalls
    <2>4. CASE to # "completed"
      <3>1. ReadStatus("status", r, "UpdateStatusCAS", o, driver[o], to,
                       "none")
        BY <2>1, <2>4 DEF HandleStatus
      <3> QED
        BY <1>1, <2>2, <2>4, <3>1, StatusRead DEF StatusCalls
    <2> QED
      BY <2>3, <2>4
  <1> QED
    BY <1>2, <1>3

\* The driver's lifecycle handlers: the order has the driver, so it exists.
LEMMA LifecycleReads ==
  ASSUME IndInv, NEW r \in Request, NEW o \in Order, NEW d \in Driver,
         \/ LifecycleArrive(r, o, d)
         \/ LifecycleWaitingAdvance(r, o, d)
         \/ LifecycleStart(r, o, d)
         \/ LifecycleFinish(r, o, d)
         \/ LifecycleConfirmCash(r, o, d)
         \/ LifecycleCancel(r, o, d)
         \/ LifecycleNoShow(r, o, d)
  PROVE  IndInv' /\ Keeps
  <1>1. driver[o] = d
    BY DEF OwnOrder, LifecycleArrive, LifecycleWaitingAdvance, LifecycleStart,
           LifecycleFinish, LifecycleConfirmCash, LifecycleCancel,
           LifecycleNoShow
  <1>2. status[o] # "none" /\ driver[o] # NoDriver
    BY <1>1, ConstantsAssumption DEF IndInv, TablesOK, RowsAgree
  <1>3. ASSUME NEW h, NEW to \in Status, NEW then \in {"none", "waiting_free"},
               ReadStatus(h, r, "UpdateStatusCAS", o, d, to, then)
        PROVE  IndInv' /\ Keeps
    BY <1>2, <1>3, StatusRead DEF StatusCalls
  <1>4. CASE LifecycleFinish(r, o, d)
    <2>1. ReadStatus("finish", r, "UpdateStatusWithDriverCharge", o, d,
                     "completed", "none")
      BY <1>4 DEF LifecycleFinish
    <2> QED
      BY <1>1, <1>2, <2>1, StatusRead DEF StatusCalls, Status
  <1>5. CASE ~LifecycleFinish(r, o, d)
    BY <1>3, <1>5
       DEF LifecycleArrive, LifecycleWaitingAdvance, LifecycleStart,
           LifecycleConfirmCash, LifecycleCancel, LifecycleNoShow,
           ApplyStatusSequence, Status
  <1> QED
    BY <1>4, <1>5

\* A request that is given up changes nothing and relies on nothing.
LEMMA AbortStep ==
  ASSUME IndInv, NEW r \in Request, Abort(r)
  PROVE  IndInv' /\ Keeps
  BY IdleFits, ReadStep DEF Abort, End
-----------------------------------------------------------------------------
(* The writes of a handler.                                                *)

\* After a write that undoes nothing, what requests and dispatcher rely on
\* still holds.
LEMMA WriteStep ==
  ASSUME IndInv, Keeps, UNCHANGED disp,
         NEW r \in Request, NEW q \in ReqRecord,
         Fit(q, status', driver', offer'),
         req' = [req EXCEPT ![r] = q]
  PROVE  RequestsOK' /\ req' \in [Request -> ReqRecord] /\ DispatcherOK'
  BY SlotStep, DispatcherKeeps DEF IndInv

\* What a request in flight may be assumed to hold.
LEMMA RequestFacts ==
  ASSUME IndInv, NEW r \in Request
  PROVE  req[r] \in ReqRecord /\ Fit(req[r], status, driver, offer)
  BY DEF IndInv, TypeOK, RequestsOK

LEMMA CreateOrderStep ==
  ASSUME IndInv, NEW r \in Request, NEW o \in Order, NEW p \in Price,
         CreateOrder(r, o, p)
  PROVE  IndInv' /\ Keeps
  <1> DEFINE q == [IdleReq EXCEPT !.pc = "TriggerImmediate", !.o = o]
  <1>1. /\ status[o] = "none"
        /\ status' = [status EXCEPT ![o] = "searching"]
        /\ price' = [price EXCEPT ![o] = p]
        /\ dispatch' = [dispatch EXCEPT ![o] = "searching"]
        /\ due' = [due EXCEPT ![o] = TRUE]
        /\ req' = [req EXCEPT ![r] = q]
        /\ UNCHANGED <<driver, offer, offerPrice, timedOut, account, charged,
                       disp>>
    BY DEF CreateOrder, SetStatus, Begin, offerVars
  <1>2. Keeps
    BY <1>1 DEF IndInv, TypeOK, Keeps
  <1>3. q \in ReqRecord /\ Fit(q, status', driver', offer')
    BY <1>1 DEF IndInv, TypeOK, IdleReq, ReqRecord, ReqPC, Fit, OfferCalls,
                StatusCalls
  <1>4. RequestsOK' /\ req' \in [Request -> ReqRecord] /\ DispatcherOK'
    BY <1>1, <1>2, <1>3, WriteStep
  <1>5. TypeOK'
    BY <1>1, <1>4 DEF IndInv, TypeOK, Status
  <1>6. TablesOK'
    BY <1>1 DEF IndInv, TypeOK, TablesOK, RowsAgree, DriverHasAcceptedOffer,
                SearchingIsDispatched, ChargedHasAcceptedOffer,
                CompletedHasDriver
  <1> QED
    BY <1>2, <1>4, <1>5, <1>6 DEF IndInv

\* The writes that touch neither a status, a driver, nor an offer's state.
LEMMA PriceAndClockSteps ==
  ASSUME IndInv, NEW r \in Request,
         \/ \E o \in Order, p \in Price : Reprice(r, o, p)
         \/ TriggerImmediate(r)
         \/ UpdatePrice(r)
  PROVE  IndInv' /\ Keeps
  <1> DEFINE unwritten == <<status, driver, offer, offerPrice, dispatch,
                            timedOut, account, charged, disp>>
  <1>1. UNCHANGED unwritten
    BY DEF Reprice, TriggerImmediate, UpdatePrice, orderVars, offerVars,
           dispatchVars
  <1>2. Keeps
    BY <1>1 DEF Keeps
  <1>3. TablesOK'
    BY <1>1 DEF IndInv, TablesOK, RowsAgree, DriverHasAcceptedOffer,
                SearchingIsDispatched, ChargedHasAcceptedOffer,
                CompletedHasDriver
  <1>4. PICK q \in ReqRecord : /\ Fit(q, status', driver', offer')
                              /\ req' = [req EXCEPT ![r] = q]
    <2>1. CASE \E o \in Order, p \in Price : Reprice(r, o, p)
      <3>1. PICK o \in Order, p \in Price : Reprice(r, o, p)
        BY <2>1
      <3> DEFINE q == [IdleReq EXCEPT !.pc = "TriggerImmediate", !.o = o]
      <3>2. q \in ReqRecord /\ Fit(q, status', driver', offer')
        BY <3>1, <1>1 DEF Reprice, Exists, IdleReq, ReqRecord, ReqPC, Fit,
                          OfferCalls, StatusCalls
      <3>3. req' = [req EXCEPT ![r] = q]
        BY <3>1 DEF Reprice, Begin
      <3> QED
        BY <3>2, <3>3
    <2>2. CASE TriggerImmediate(r)
      BY <2>2, IdleFits DEF TriggerImmediate, End
    <2>3. CASE UpdatePrice(r)
      <3> DEFINE q == [req[r] EXCEPT !.pc = "AssignDriver"]
      <3>1. q \in ReqRecord /\ Fit(q, status', driver', offer')
        BY <2>3, <1>1, RequestFacts
           DEF UpdatePrice, ReqRecord, ReqPC, Fit, OfferCalls, StatusCalls
      <3>2. req' = [req EXCEPT ![r] = q]
        BY <2>3 DEF UpdatePrice, Goto
      <3> QED
        BY <3>1, <3>2
    <2> QED
      BY <2>1, <2>2, <2>3
  <1>5. RequestsOK' /\ req' \in [Request -> ReqRecord] /\ DispatcherOK'
    BY <1>1, <1>2, <1>4, WriteStep
  <1>6. price' \in [Order -> Price \cup {NoPrice}] /\ due' \in [Order -> BOOLEAN]
    <2>1. CASE \E o \in Order, p \in Price : Reprice(r, o, p)
      BY <2>1 DEF IndInv, TypeOK, Reprice, dispatchVars
    <2>2. CASE TriggerImmediate(r)
      BY <2>2 DEF IndInv, TypeOK, TriggerImmediate, orderVars
    <2>3. CASE UpdatePrice(r)
      <3>1. req[r].price \in Price
        BY <2>3, RequestFacts DEF UpdatePrice, Fit
      <3> QED
        BY <2>3, <3>1 DEF IndInv, TypeOK, UpdatePrice, dispatchVars
    <2> QED
      BY <2>1, <2>2, <2>3
  <1>7. TypeOK'
    BY <1>1, <1>5, <1>6 DEF IndInv, TypeOK
  <1> QED
    BY <1>2, <1>3, <1>5, <1>7 DEF IndInv
\* Writes to the offers of one order that leave every accepted one alone.
LEMMA OfferWrite ==
  ASSUME IndInv, offer' \in [Order -> [Driver -> OfferState]],
         \A o \in Order, d \in Driver :
           offer[o][d] = "accepted" => offer'[o][d] = "accepted",
         UNCHANGED <<status, driver, dispatch, charged>>
  PROVE  Keeps /\ TablesOK'
  <1>1. Keeps
    BY DEF Keeps
  <1>2. DriverHasAcceptedOffer' /\ ChargedHasAcceptedOffer'
    BY DEF IndInv, TypeOK, TablesOK, DriverHasAcceptedOffer,
           ChargedHasAcceptedOffer
  <1>3. RowsAgree' /\ SearchingIsDispatched' /\ CompletedHasDriver'
    BY DEF IndInv, TablesOK, RowsAgree, SearchingIsDispatched,
           CompletedHasDriver
  <1> QED
    BY <1>1, <1>2, <1>3 DEF TablesOK

\* A request's write to the offers and the call it makes next, if any.
LEMMA OfferStep ==
  ASSUME IndInv, NEW r \in Request, NEW q \in ReqRecord,
         offer' \in [Order -> [Driver -> OfferState]],
         offerPrice' \in [Order -> [Driver -> Price \cup {NoPrice}]],
         \A o \in Order, d \in Driver :
           offer[o][d] = "accepted" => offer'[o][d] = "accepted",
         Fit(q, status, driver, offer'),
         req' = [req EXCEPT ![r] = q],
         UNCHANGED <<orderVars, dispatchVars, account, charged, disp>>
  PROVE  IndInv' /\ Keeps
  <1>1. UNCHANGED <<status, driver, price, dispatch, due, timedOut>>
    BY DEF orderVars, dispatchVars
  <1>2. Keeps /\ TablesOK'
    BY <1>1, OfferWrite
  <1>3. Fit(q, status', driver', offer')
    BY <1>1
  <1>4. RequestsOK' /\ req' \in [Request -> ReqRecord] /\ DispatcherOK'
    BY <1>2, <1>3, WriteStep
  <1>5. TypeOK'
    BY <1>1, <1>4 DEF IndInv, TypeOK
  <1> QED
    BY <1>2, <1>4, <1>5 DEF IndInv

\* What setting one offer's state does to the table.
LEMMA SetOfferFacts ==
  ASSUME TypeOK, NEW o \in Order, NEW d \in Driver, NEW s \in OfferState,
         SetOffer(o, d, s)
  PROVE  /\ offer' \in [Order -> [Driver -> OfferState]]
         /\ \A x \in Order, e \in Driver :
              offer'[x][e] = IF x = o /\ e = d THEN s ELSE offer[x][e]
  <1> DEFINE row == [offer[o] EXCEPT ![d] = s]
  <1>1. offer[o] \in [Driver -> OfferState]
    BY DEF TypeOK
  <1>2. /\ row \in [Driver -> OfferState]
        /\ \A e \in Driver : row[e] = IF e = d THEN s ELSE offer[o][e]
    BY <1>1
  <1>3. offer' = [offer EXCEPT ![o] = row]
    BY DEF SetOffer
  <1> HIDE DEF row
  <1>4. offer' \in [Order -> [Driver -> OfferState]]
    BY <1>2, <1>3 DEF TypeOK
  <1>5. \A x \in Order : offer'[x] = IF x = o THEN row ELSE offer[x]
    BY <1>3 DEF TypeOK
  <1> QED
    BY <1>2, <1>4, <1>5

LEMMA SetDriverPriceStep ==
  ASSUME IndInv, NEW r \in Request, SetDriverPrice(r)
  PROVE  IndInv' /\ Keeps
  <1> DEFINE o == req[r].o
             d == req[r].d
  <1>1. o \in Order /\ d \in Driver /\ req[r].price \in Price
    BY RequestFacts DEF SetDriverPrice, Fit, OfferCalls
  <1>2. /\ offer' \in [Order -> [Driver -> OfferState]]
        /\ offerPrice' \in [Order -> [Driver -> Price \cup {NoPrice}]]
        /\ \A x \in Order, e \in Driver :
             offer[x][e] = "accepted" => offer'[x][e] = "accepted"
    <2>1. CASE Priceable(o, d)
      <3>1. /\ SetOffer(o, d, "pending")
            /\ offerPrice' = [offerPrice EXCEPT ![o][d] = req[r].price]
        BY <2>1 DEF SetDriverPrice
      <3>2. offerPrice' \in [Order -> [Driver -> Price \cup {NoPrice}]]
        BY <1>1, <3>1 DEF IndInv, TypeOK
      <3>3. "pending" \in OfferState /\ offer[o][d] # "accepted"
        BY <2>1 DEF OfferState, Priceable
      <3> QED
        BY <1>1, <3>1, <3>2, <3>3, SetOfferFacts DEF IndInv
    <2>2. CASE ~Priceable(o, d)
      BY <2>2 DEF SetDriverPrice, offerVars, IndInv, TypeOK
    <2> QED
      BY <2>1, <2>2
  <1>3. req' = [req EXCEPT ![r] = IdleReq]
    BY DEF SetDriverPrice, End
  <1> QED
    BY <1>2, <1>3, IdleFits, OfferStep DEF SetDriverPrice

LEMMA DeclineOfferStep ==
  ASSUME IndInv, NEW r \in Request, DeclineOffer(r)
  PROVE  IndInv' /\ Keeps
  <1> DEFINE o == req[r].o
             d == req[r].d
  <1>1. o \in Order /\ d \in Driver
    BY RequestFacts DEF DeclineOffer, Fit, OfferCalls
  <1>2. /\ offer' \in [Order -> [Driver -> OfferState]]
        /\ \A x \in Order, e \in Driver :
             offer[x][e] = "accepted" => offer'[x][e] = "accepted"
    <2>1. CASE offer[o][d] = "pending"
      BY <1>1, <2>1, SetOfferFacts DEF DeclineOffer, IndInv, OfferState
    <2>2. CASE offer[o][d] # "pending"
      BY <2>2 DEF DeclineOffer, IndInv, TypeOK
    <2> QED
      BY <2>1, <2>2
  <1>3. req' = [req EXCEPT ![r] = IdleReq]
    BY DEF DeclineOffer, End
  <1>4. offerPrice' \in [Order -> [Driver -> Price \cup {NoPrice}]]
    BY DEF DeclineOffer, IndInv, TypeOK
  <1> QED
    BY <1>2, <1>3, <1>4, IdleFits, OfferStep DEF DeclineOffer

LEMMA AcceptOfferStep ==
  ASSUME IndInv, NEW r \in Request, AcceptOffer(r)
  PROVE  IndInv' /\ Keeps
  <1> DEFINE o == req[r].o
             d == req[r].d
             asked == offerPrice[o][d]
  <1>1. /\ req[r] \in ReqRecord
        /\ o \in Order /\ status[o] # "none" /\ d \in Driver
    BY RequestFacts DEF AcceptOffer, Fit, OfferCalls
  <1>2. /\ offerPrice' \in [Order -> [Driver -> Price \cup {NoPrice}]]
        /\ asked \in Price \cup {NoPrice}
    BY <1>1 DEF AcceptOffer, IndInv, TypeOK
  <1>3. CASE offer[o][d] # "pending"
    <2>1. UNCHANGED offer /\ req' = [req EXCEPT ![r] = IdleReq]
      BY <1>3 DEF AcceptOffer, End
    <2>2. offer' \in [Order -> [Driver -> OfferState]]
      BY <2>1 DEF IndInv, TypeOK
    <2> QED
      BY <1>2, <2>1, <2>2, IdleFits, OfferStep DEF AcceptOffer
  <1>4. CASE offer[o][d] = "pending"
    <2>1. offer' = [offer EXCEPT ![o] =
                      [e \in Driver |->
                         IF e = d THEN "accepted"
                         ELSE IF offer[o][e] = "pending" THEN "closed"
                         ELSE offer[o][e]]]
      BY <1>4 DEF AcceptOffer, AcceptOfferRows
    <2>2. /\ offer' \in [Order -> [Driver -> OfferState]]
          /\ offer'[o][d] = "accepted"
          /\ \A x \in Order, e \in Driver :
               offer[x][e] = "accepted" => offer'[x][e] = "accepted"
      BY <1>1, <2>1 DEF IndInv, TypeOK, OfferState
    <2>3. PICK q \in ReqRecord : /\ Fit(q, status, driver, offer')
                                /\ req' = [req EXCEPT ![r] = q]
      <3>1. CASE asked # NoPrice /\ asked # req[r].price
        <4> DEFINE q == [req[r] EXCEPT !.pc = "UpdatePrice", !.price = asked]
        <4>1. q \in ReqRecord /\ Fit(q, status, driver, offer')
          BY <1>1, <1>2, <2>2, <3>1
             DEF ReqRecord, ReqPC, Fit, OfferCalls, StatusCalls
        <4>2. req' = [req EXCEPT ![r] = q]
          BY <1>4, <3>1 DEF AcceptOffer, Goto
        <4> QED
          BY <4>1, <4>2
      <3>2. CASE ~(asked # NoPrice /\ asked # req[r].price)
        <4> DEFINE q == [req[r] EXCEPT !.pc = "AssignDriver"]
        <4>1. q \in ReqRecord /\ Fit(q, status, driver, offer')
          BY <1>1, <2>2 DEF ReqRecord, ReqPC, Fit, OfferCalls, StatusCalls
        <4>2. req' = [req EXCEPT ![r] = q]
          BY <1>4, <3>2 DEF AcceptOffer, Goto
        <4> QED
          BY <4>1, <4>2
      <3> QED
        BY <3>1, <3>2
    <2> QED
      BY <1>2, <2>2, <2>3, OfferStep DEF AcceptOffer
  <1> QED
    BY <1>3, <1>4
\* The driver whose offer was accepted gets the order, whatever its status.
LEMMA AssignDriverStep ==
  ASSUME IndInv, NEW r \in Request, AssignDriver(r)
  PROVE  IndInv' /\ Keeps
  <1> DEFINE o == req[r].o
             d == req[r].d
  <1>1. o \in Order /\ status[o] # "none" /\ d \in Driver
        /\ offer[o][d] = "accepted" /\ d # NoDriver
    BY RequestFacts, ConstantsAssumption DEF AssignDriver, Fit, OfferCalls
  <1>2. /\ driver' = [driver EXCEPT ![o] = d]
        /\ status' = [status EXCEPT ![o] = "accepted"]
        /\ req' = [req EXCEPT ![r] = IdleReq]
        /\ UNCHANGED <<price, offer, offerPrice, dispatch, due, timedOut,
                       account, charged, disp>>
    BY DEF AssignDriver, AssignDriverRow, SetStatus, End, offerVars,
           dispatchVars
  <1>3. /\ driver' \in [Order -> Driver \cup {NoDriver}]
        /\ status' \in [Order -> Status \cup {"none"}]
    BY <1>1, <1>2 DEF IndInv, TypeOK, Status
  <1>4. \A x \in Order : /\ driver'[x] = IF x = o THEN d ELSE driver[x]
                         /\ status'[x] = IF x = o THEN "accepted" ELSE status[x]
    BY <1>2 DEF IndInv, TypeOK
  <1>5. Keeps
    BY <1>1, <1>2, <1>4 DEF Keeps
  <1>6. RequestsOK' /\ req' \in [Request -> ReqRecord] /\ DispatcherOK'
    BY <1>2, <1>5, IdleFits, WriteStep
  <1>7. TypeOK'
    BY <1>2, <1>3, <1>6 DEF IndInv, TypeOK
  <1>8. TablesOK'
    BY <1>1, <1>2, <1>4
       DEF IndInv, TablesOK, RowsAgree, DriverHasAcceptedOffer,
           SearchingIsDispatched, ChargedHasAcceptedOffer, CompletedHasDriver
  <1> QED
    BY <1>5, <1>6, <1>7, <1>8 DEF IndInv

\* What a conditional write of a status does to the tables: the row goes from
\* one status along the graph, or stays.
LEMMA StatusWrite ==
  ASSUME IndInv, NEW o \in Order, NEW t \in Status,
         status[o] \in Status, CanTransition(status[o], t),
         t = "completed" => driver[o] # NoDriver,
         status' = [status EXCEPT ![o] = t],
         charged' \in [Order -> SUBSET Driver],
         \A x \in Order : \A d \in charged'[x] :
           d \in charged[x] \/ offer[x][d] = "accepted",
         UNCHANGED <<driver, price, offerVars, dispatchVars>>
  PROVE  /\ status' \in [Order -> Status \cup {"none"}]
         /\ Keeps
         /\ TablesOK'
  <1>1. \A x \in Order : status'[x] = IF x = o THEN t ELSE status[x]
    BY DEF IndInv, TypeOK
  <1>2. status' \in [Order -> Status \cup {"none"}]
    BY DEF IndInv, TypeOK
  <1>3. UNCHANGED <<driver, offer, dispatch>>
    BY DEF offerVars, dispatchVars
  <1>4. /\ t # "none" /\ status[o] # "none" /\ t # "created"
        /\ t = "searching" => status[o] = "searching"
        /\ t = "paid" => driver[o] # NoDriver
    <2>1. status[o] # "created"
      BY DEF IndInv, TablesOK, RowsAgree
    <2>2. t # "none" /\ status[o] # "none"
      BY DEF Status
    <2>3. status[o] \in {"completed", "paid"} => driver[o] # NoDriver
      BY DEF IndInv, TablesOK, CompletedHasDriver
    <2> QED
      BY <2>1, <2>2, <2>3, GraphFacts
  <1>5. Keeps
    BY <1>1, <1>3, <1>4 DEF Keeps
  <1>6. RowsAgree' /\ SearchingIsDispatched' /\ CompletedHasDriver'
    BY <1>1, <1>3, <1>4
       DEF IndInv, TablesOK, RowsAgree, SearchingIsDispatched,
           CompletedHasDriver
  <1>7. DriverHasAcceptedOffer' /\ ChargedHasAcceptedOffer'
    BY <1>3 DEF IndInv, TypeOK, TablesOK, DriverHasAcceptedOffer,
                ChargedHasAcceptedOffer
  <1> QED
    BY <1>2, <1>5, <1>6, <1>7 DEF TablesOK
\* What a request about to write a status relies on.
LEMMA StatusCallFacts ==
  ASSUME IndInv, NEW r \in Request, req[r].pc \in StatusCalls
  PROVE  /\ req[r] \in ReqRecord
         /\ req[r].o \in Order /\ status[req[r].o] # "none"
         /\ req[r].from \in Status \ {"created"} /\ req[r].to \in Status
         /\ CanTransition(req[r].from, req[r].to)
         /\ req[r].then \in {"none", "waiting_free"}
         /\ req[r].to = "completed" => driver[req[r].o] # NoDriver
  BY RequestFacts DEF Fit, StatusCalls

LEMMA UpdateStatusCASStep ==
  ASSUME IndInv, NEW r \in Request, UpdateStatusCAS(r)
  PROVE  IndInv' /\ Keeps
  <1> DEFINE q == req[r]
  <1> USE DEF StatusUnchanged
  <1>1. /\ q.pc = "UpdateStatusCAS" /\ q.pc \in StatusCalls
        /\ UNCHANGED <<driver, price, offerVars, dispatchVars, account,
                       charged, disp>>
    BY DEF UpdateStatusCAS, StatusCalls
  <1>2. /\ q \in ReqRecord /\ q.o \in Order /\ status[q.o] # "none"
        /\ q.from \in Status \ {"created"} /\ q.to \in Status
        /\ CanTransition(q.from, q.to)
        /\ q.then \in {"none", "waiting_free"}
        /\ q.to = "completed" => driver[q.o] # NoDriver
    BY <1>1, StatusCallFacts
  <1>3. CASE status[q.o] # q.from
    <2>1. UNCHANGED tables /\ req' = [req EXCEPT ![r] = IdleReq]
      BY <1>1, <1>3 DEF UpdateStatusCAS, End, tables, orderVars
    <2> QED
      BY <1>1, <2>1, IdleFits, ReadStep
  <1>4. CASE status[q.o] = q.from
    <2>1. status' = [status EXCEPT ![q.o] = q.to]
      BY <1>1, <1>4 DEF UpdateStatusCAS, SetStatus
    <2>2. /\ status' \in [Order -> Status \cup {"none"}]
          /\ Keeps /\ TablesOK'
      BY <1>1, <1>2, <1>4, <2>1, StatusWrite DEF IndInv, TypeOK
    <2>3. PICK n \in ReqRecord : /\ Fit(n, status', driver', offer')
                                /\ req' = [req EXCEPT ![r] = n]
      <3>1. CASE q.then # "none" /\ CanTransition(q.to, q.then)
        <4> DEFINE n == [q EXCEPT !.from = q.to, !.to = q.then,
                                  !.then = "none"]
        <4>1. n \in ReqRecord
          <5>1. /\ q \in ReqRecord
                /\ q.to \in Status \cup {"none"}
                /\ q.then \in Status \cup {"none"}
            BY <1>2 DEF Status
          <5> QED
            BY <5>1 DEF ReqRecord
        <4>2. /\ n.pc = "UpdateStatusCAS" /\ n.o = q.o
              /\ n.from = q.to /\ n.to = "waiting_free" /\ n.then = "none"
          BY <1>1, <1>2, <3>1 DEF ReqRecord
        <4>3. q.to # "created" /\ status'[q.o] # "none"
          BY <1>2, <2>2, GraphFacts DEF Keeps
        <4>4. CanTransition(q.to, "waiting_free")
          BY <1>2, <3>1
        <4>5. Fit(n, status', driver', offer')
          BY <1>2, <4>2, <4>3, <4>4
             DEF Fit, OfferCalls, StatusCalls, Status
        <4>6. req' = [req EXCEPT ![r] = n]
          BY <1>4, <3>1 DEF UpdateStatusCAS, Goto
        <4> QED
          BY <4>1, <4>5, <4>6
      <3>2. CASE ~(q.then # "none" /\ CanTransition(q.to, q.then))
        BY <1>4, <3>2, IdleFits DEF UpdateStatusCAS, End
      <3> QED
        BY <3>1, <3>2
    <2>4. RequestsOK' /\ req' \in [Request -> ReqRecord] /\ DispatcherOK'
      BY <1>1, <2>2, <2>3, WriteStep
    <2>5. TypeOK'
      BY <1>1, <2>2, <2>4 DEF IndInv, TypeOK, offerVars, dispatchVars
    <2> QED
      BY <2>2, <2>4, <2>5 DEF IndInv
  <1> QED
    BY <1>3, <1>4

LEMMA ChargeStep ==
  ASSUME IndInv, NEW r \in Request, UpdateStatusWithDriverCharge(r)
  PROVE  IndInv' /\ Keeps
  <1> DEFINE q == req[r]
  <1> USE DEF StatusUnchanged
  <1>1. /\ q.pc = "UpdateStatusWithDriverCharge" /\ q.pc \in StatusCalls
        /\ req' = [req EXCEPT ![r] = IdleReq]
        /\ UNCHANGED <<driver, price, offerVars, dispatchVars, account, disp>>
    BY DEF UpdateStatusWithDriverCharge, StatusCalls, End
  <1>2. /\ q \in ReqRecord /\ q.o \in Order /\ status[q.o] # "none"
        /\ q.from \in Status \ {"created"} /\ q.to \in Status
        /\ CanTransition(q.from, q.to)
        /\ q.to = "completed" => driver[q.o] # NoDriver
    BY <1>1, StatusCallFacts
  <1>3. q.d \in Driver /\ offer[q.o][q.d] = "accepted"
    BY <1>1, RequestFacts DEF Fit, OfferCalls
  <1>4. CASE status[q.o] # q.from
    <2>1. UNCHANGED tables
      BY <1>1, <1>4
         DEF UpdateStatusWithDriverCharge, tables, orderVars
    <2> QED
      BY <1>1, <2>1, IdleFits, ReadStep
  <1>5. CASE status[q.o] = q.from
    <2>1. /\ status' = [status EXCEPT ![q.o] = q.to]
          /\ charged' = [charged EXCEPT ![q.o] = @ \cup {q.d}]
      BY <1>1, <1>5 DEF UpdateStatusWithDriverCharge, SetStatus
    <2>2. /\ charged' \in [Order -> SUBSET Driver]
          /\ \A x \in Order : \A d \in charged'[x] :
               d \in charged[x] \/ offer[x][d] = "accepted"
      BY <1>2, <1>3, <2>1 DEF IndInv, TypeOK
    <2>3. /\ status' \in [Order -> Status \cup {"none"}]
          /\ Keeps /\ TablesOK'
      BY <1>1, <1>2, <1>5, <2>1, <2>2, StatusWrite
    <2>4. RequestsOK' /\ req' \in [Request -> ReqRecord] /\ DispatcherOK'
      BY <1>1, <2>3, IdleFits, WriteStep
    <2>5. TypeOK'
      BY <1>1, <2>2, <2>3, <2>4 DEF IndInv, TypeOK, offerVars, dispatchVars
    <2> QED
      BY <2>3, <2>4, <2>5 DEF IndInv
  <1> QED
    BY <1>4, <1>5
-----------------------------------------------------------------------------
(* Steps of nobody's request: the provider, the administrator, the clock.  *)

LEMMA WebhookStep ==
  ASSUME IndInv, NEW o \in Order, AirbaPayWebhook(o)
  PROVE  IndInv' /\ Keeps
  <1>1. /\ status[o] = "completed"
        /\ status' = [status EXCEPT ![o] = "paid"]
        /\ UNCHANGED <<driver, price, offerVars, dispatchVars, account,
                       charged, disp, req>>
    BY DEF AirbaPayWebhook, SetStatus
  <1>2. "paid" \in Status /\ CanTransition("completed", "paid")
        /\ "completed" \in Status
    BY DEF Status, CanTransition, Edges, Row
  <1>3. /\ status' \in [Order -> Status \cup {"none"}]
        /\ Keeps /\ TablesOK'
    BY <1>1, <1>2, StatusWrite DEF IndInv, TypeOK
  <1>4. RequestsOK' /\ DispatcherOK'
    BY <1>1, <1>3, SlotsKeep, DispatcherKeeps DEF IndInv
  <1>5. TypeOK'
    BY <1>1, <1>3 DEF IndInv, TypeOK, offerVars, dispatchVars
  <1> QED
    BY <1>3, <1>4, <1>5 DEF IndInv

\* The administrator and the clocks write nothing the invariant speaks of.
LEMMA AdminAndClockSteps ==
  ASSUME IndInv,
         \/ \E d \in Driver : DeleteDriver(d)
         \/ \E d \in Driver, a \in {"approved", "blocked"} : SetAccount(d, a)
         \/ \E o \in Order : NextTickPasses(o) \/ TimeoutPasses(o)
  PROVE  IndInv' /\ Keeps
  <1>1. UNCHANGED <<status, driver, price, offer, offerPrice, dispatch,
                    charged, disp, req>>
    BY DEF DeleteDriver, SetAccount, NextTickPasses, TimeoutPasses, orderVars,
           offerVars, dispatchVars
  <1>2. Keeps
    BY <1>1 DEF Keeps
  <1>3. TablesOK'
    BY <1>1 DEF IndInv, TablesOK, RowsAgree, DriverHasAcceptedOffer,
                SearchingIsDispatched, ChargedHasAcceptedOffer,
                CompletedHasDriver
  <1>4. RequestsOK' /\ DispatcherOK'
    BY <1>1, <1>2, SlotsKeep, DispatcherKeeps DEF IndInv
  <1>5. account' \in [Driver -> {"approved", "blocked", "deleted"}]
    BY DEF IndInv, TypeOK, DeleteDriver, SetAccount, NextTickPasses,
           TimeoutPasses
  <1>6. due' \in [Order -> BOOLEAN] /\ timedOut' \in [Order -> BOOLEAN]
    BY DEF IndInv, TypeOK, DeleteDriver, SetAccount, NextTickPasses,
           TimeoutPasses, dispatchVars
  <1>7. TypeOK'
    BY <1>1, <1>5, <1>6 DEF IndInv, TypeOK
  <1> QED
    BY <1>2, <1>3, <1>4, <1>7 DEF IndInv

LEMMA ExpireStep ==
  ASSUME IndInv, NEW rows \in SUBSET Pending, ExpireOffers(rows)
  PROVE  IndInv' /\ Keeps
  <1>1. /\ offer' \in [Order -> [Driver -> OfferState]]
        /\ \A o \in Order, d \in Driver :
             offer[o][d] = "accepted" => offer'[o][d] = "accepted"
    BY DEF ExpireOffers, Pending, IndInv, TypeOK, OfferState
  <1>2. UNCHANGED <<status, driver, price, offerPrice, dispatch, due, timedOut,
                    account, charged, disp, req>>
    BY DEF ExpireOffers, orderVars, dispatchVars
  <1>3. Keeps /\ TablesOK'
    BY <1>1, <1>2, OfferWrite
  <1>4. RequestsOK' /\ DispatcherOK'
    BY <1>2, <1>3, SlotsKeep, DispatcherKeeps DEF IndInv
  <1>5. TypeOK'
    BY <1>1, <1>2 DEF IndInv, TypeOK
  <1> QED
    BY <1>3, <1>4, <1>5 DEF IndInv

LEMMA CrashStep ==
  ASSUME IndInv, Crash
  PROVE  IndInv' /\ Keeps
  <1>1. /\ disp' = IdleDisp /\ req' = [r \in Request |-> IdleReq]
        /\ UNCHANGED tables
    BY DEF Crash
  <1>2. TablesOK' /\ Keeps
    BY <1>1, TablesKeep DEF IndInv
  <1>3. RequestsOK' /\ req' \in [Request -> ReqRecord]
    BY <1>1, IdleFits DEF RequestsOK
  <1>4. DispatcherOK' /\ disp' \in DispRecord
    BY <1>1 DEF DispatcherOK, IdleDisp, DispRecord
  <1>5. TypeOK'
    BY <1>1, <1>3, <1>4
       DEF IndInv, TypeOK, tables, orderVars, offerVars, dispatchVars
  <1> QED
    BY <1>2, <1>3, <1>4, <1>5 DEF IndInv-----------------------------------------------------------------------------
(* The dispatcher's steps.                                                 *)

\* The record of the batch taken next, or none, is one the dispatcher may
\* work on.
LEMMA NextRecordFacts ==
  ASSUME NEW batch \in SUBSET Order, NEW late \in SUBSET Order,
         \A o \in batch : status'[o] # "none",
         NextRecord(batch, late)
  PROVE  disp' \in DispRecord /\ DispatcherOK'
  <1>1. CASE batch = {}
    BY <1>1 DEF NextRecord, IdleDisp, DispRecord, DispatcherOK
  <1>2. CASE batch # {}
    <2>1. disp' = [IdleDisp EXCEPT !.pc = "Get", !.batch = batch, !.late = late]
      BY <1>2 DEF NextRecord
    <2>2. disp' \in DispRecord
      BY <2>1 DEF IdleDisp, DispRecord
    <2>3. disp'.pc = "Get" /\ disp'.batch = batch
      BY <2>1 DEF IdleDisp
    <2> QED
      BY <2>2, <2>3 DEF DispatcherOK
  <1> QED
    BY <1>1, <1>2

\* A step of the dispatcher that writes no table.
LEMMA DispatcherRead ==
  ASSUME IndInv, UNCHANGED <<tables, req>>, disp' \in DispRecord, DispatcherOK'
  PROVE  IndInv' /\ Keeps
  <1>1. TablesOK' /\ Keeps
    BY TablesKeep DEF IndInv
  <1>2. RequestsOK'
    BY <1>1, SlotsKeep DEF IndInv
  <1>3. TypeOK'
    BY DEF IndInv, TypeOK, tables, orderVars, offerVars, dispatchVars
  <1> QED
    BY <1>1, <1>2, <1>3 DEF IndInv

LEMMA DispatchTickStep ==
  ASSUME IndInv, DispatchTick
  PROVE  IndInv' /\ Keeps
  <1> DEFINE late == {o \in DueOrders : timedOut[o]}
  <1>1. NextRecord(DueOrders, late) /\ UNCHANGED <<tables, req>>
    BY DEF DispatchTick
  <1>2. DueOrders \in SUBSET Order /\ late \in SUBSET Order
    BY DEF DueOrders
  <1>3. \A o \in DueOrders : status'[o] # "none"
    BY <1>1 DEF DueOrders, IndInv, TablesOK, RowsAgree, tables, orderVars
  <1>4. disp' \in DispRecord /\ DispatcherOK'
    BY <1>1, <1>2, <1>3, NextRecordFacts
  <1> QED
    BY <1>1, <1>4, DispatcherRead

LEMMA ProcessRecordStep ==
  ASSUME IndInv, NEW o \in Order, ProcessRecord(o)
  PROVE  IndInv' /\ Keeps
  <1>1. /\ o \in disp.batch /\ UNCHANGED <<tables, req>>
        /\ UNCHANGED status
    BY DEF ProcessRecord, tables, orderVars
  <1>2. PICK pc \in {"Finish", "Timeout", "Offer"}, near \in SUBSET Driver :
          /\ disp' = [disp EXCEPT !.pc = pc, !.o = o, !.near = near,
                                  !.batch = disp.batch \ {o}]
          /\ pc = "Finish" => status[o] # "searching"
    BY DEF ProcessRecord
  <1>3. disp \in DispRecord /\ \A x \in disp.batch : status[x] # "none"
    BY DEF IndInv, TypeOK, DispatcherOK
  <1>4. disp' \in DispRecord
    BY <1>2, <1>3 DEF DispRecord
  <1>5. disp'.pc = pc /\ disp'.o = o /\ disp'.batch = disp.batch \ {o}
    BY <1>2, <1>3 DEF DispRecord
  <1>6. DispatcherOK'
    BY <1>1, <1>2, <1>3, <1>5 DEF DispatcherOK
  <1> QED
    BY <1>1, <1>4, <1>6, DispatcherRead

LEMMA DispatchErrorStep ==
  ASSUME IndInv, DispatchError
  PROVE  IndInv' /\ Keeps
  <1>1. NextRecord(disp.batch, disp.late) /\ UNCHANGED <<tables, req>>
    BY DEF DispatchError
  <1>2. /\ disp.batch \in SUBSET Order /\ disp.late \in SUBSET Order
        /\ \A o \in disp.batch : status'[o] # "none"
    BY <1>1 DEF IndInv, TypeOK, DispRecord, DispatcherOK, tables, orderVars
  <1> QED
    BY <1>1, <1>2, NextRecordFacts, DispatcherRead

LEMMA OfferDriverStep ==
  ASSUME IndInv, NEW d \in Driver, OfferDriver(d)
  PROVE  IndInv' /\ Keeps
  <1> DEFINE o == disp.o
  <1>1. /\ disp.pc = "Offer"
        /\ disp' = [disp EXCEPT !.near = disp.near \ {d}]
        /\ UNCHANGED <<status, driver, price, offerPrice, dispatch, due,
                       timedOut, account, charged, req>>
    BY DEF OfferDriver, orderVars, dispatchVars
  <1>2. disp \in DispRecord /\ o \in Order /\ status[o] # "none"
    BY <1>1 DEF IndInv, TypeOK, DispatcherOK
  <1>3. /\ offer' \in [Order -> [Driver -> OfferState]]
        /\ \A x \in Order, e \in Driver :
             offer[x][e] = "accepted" => offer'[x][e] = "accepted"
    <2>1. CASE account[d] # "deleted" /\ ~AlreadyOffered(o, d)
      <3>1. SetOffer(o, d, "pending") /\ offer[o][d] = "none"
        BY <2>1 DEF OfferDriver, CreateOfferRow, AlreadyOffered
      <3> QED
        BY <1>2, <3>1, SetOfferFacts DEF IndInv, OfferState
    <2>2. CASE ~(account[d] # "deleted" /\ ~AlreadyOffered(o, d))
      BY <2>2 DEF OfferDriver, IndInv, TypeOK
    <2> QED
      BY <2>1, <2>2
  <1>4. Keeps /\ TablesOK'
    BY <1>1, <1>3, OfferWrite
  <1>5. RequestsOK'
    BY <1>1, <1>4, SlotsKeep DEF IndInv
  <1>6. /\ disp' \in DispRecord /\ disp'.pc = "Offer" /\ disp'.o = o
        /\ disp'.batch = disp.batch
    BY <1>1, <1>2 DEF DispRecord
  <1>7. DispatcherOK'
    BY <1>1, <1>2, <1>6 DEF IndInv, DispatcherOK
  <1>8. TypeOK'
    BY <1>1, <1>3, <1>6 DEF IndInv, TypeOK
  <1> QED
    BY <1>4, <1>5, <1>7, <1>8 DEF IndInv

LEMMA UpdateRadiusStep ==
  ASSUME IndInv, UpdateRadius
  PROVE  IndInv' /\ Keeps
  <1>1. /\ NextRecord(disp.batch, disp.late)
        /\ due' = [due EXCEPT ![disp.o] = FALSE]
        /\ UNCHANGED <<status, driver, price, offer, offerPrice, dispatch,
                       timedOut, account, charged, req>>
    BY DEF UpdateRadius, orderVars, offerVars
  <1>2. /\ disp.batch \in SUBSET Order /\ disp.late \in SUBSET Order
        /\ \A o \in disp.batch : status'[o] # "none"
    BY <1>1 DEF IndInv, TypeOK, DispRecord, DispatcherOK
  <1>3. disp' \in DispRecord /\ DispatcherOK'
    BY <1>1, <1>2, NextRecordFacts
  <1>4. Keeps /\ TablesOK'
    BY <1>1, OfferWrite DEF IndInv, TypeOK
  <1>5. RequestsOK'
    BY <1>1, <1>4, SlotsKeep DEF IndInv
  <1>6. TypeOK'
    BY <1>1, <1>3 DEF IndInv, TypeOK
  <1> QED
    BY <1>3, <1>4, <1>5, <1>6 DEF IndInv

\* Only an order still searching is written, so the record about to be
\* finished is of one that is not.
LEMMA TimeoutSearchStep ==
  ASSUME IndInv, TimeoutSearch
  PROVE  IndInv' /\ Keeps
  <1> DEFINE o == disp.o
  <1>1. /\ disp.pc = "Timeout" /\ disp' = [disp EXCEPT !.pc = "Finish"]
        /\ UNCHANGED <<driver, price, offerVars, dispatchVars, account,
                       charged, req>>
    BY DEF TimeoutSearch
  <1>2. disp \in DispRecord /\ o \in Order /\ status[o] # "none"
    BY <1>1 DEF IndInv, TypeOK, DispatcherOK
  <1>3. /\ status' \in [Order -> Status \cup {"none"}]
        /\ Keeps /\ TablesOK' /\ status'[o] # "searching"
    <2>1. CASE status[o] = "searching"
      <3>1. status' = [status EXCEPT ![o] = "not_found"]
        BY <2>1 DEF TimeoutSearch, SetStatus
      <3>2. /\ CanTransition("searching", "not_found")
            /\ "searching" \in Status /\ "not_found" \in Status
        BY DEF CanTransition, Edges, Row, Status
      <3>3. /\ status' \in [Order -> Status \cup {"none"}]
            /\ Keeps /\ TablesOK'
        BY <1>1, <1>2, <2>1, <3>1, <3>2, StatusWrite DEF IndInv, TypeOK
      <3> QED
        BY <1>2, <3>1, <3>3 DEF IndInv, TypeOK
    <2>2. CASE status[o] # "searching"
      <3>1. UNCHANGED tables
        BY <1>1, <2>2 DEF TimeoutSearch, tables, orderVars
      <3> QED
        BY <2>2, <3>1, TablesKeep DEF IndInv, TypeOK, tables, orderVars
    <2> QED
      BY <2>1, <2>2
  <1>4. RequestsOK'
    BY <1>1, <1>3, SlotsKeep DEF IndInv
  <1>5. /\ disp' \in DispRecord /\ disp'.pc = "Finish" /\ disp'.o = o
        /\ disp'.batch = disp.batch
    BY <1>1, <1>2 DEF DispRecord
  <1>6. DispatcherOK'
    BY <1>2, <1>3, <1>5 DEF IndInv, DispatcherOK, Keeps, DispRecord
  <1>7. TypeOK'
    BY <1>1, <1>3, <1>5 DEF IndInv, TypeOK, offerVars, dispatchVars
  <1> QED
    BY <1>3, <1>4, <1>6, <1>7 DEF IndInv

LEMMA FinishDispatchStep ==
  ASSUME IndInv, FinishDispatch
  PROVE  IndInv' /\ Keeps
  <1> DEFINE o == disp.o
  <1>1. /\ disp.pc = "Finish" /\ NextRecord(disp.batch, disp.late)
        /\ dispatch' = [dispatch EXCEPT ![o] = "finished"]
        /\ UNCHANGED <<status, driver, price, offer, offerPrice, due, timedOut,
                       account, charged, req>>
    BY DEF FinishDispatch, orderVars, offerVars
  <1>2. /\ disp.batch \in SUBSET Order /\ disp.late \in SUBSET Order
        /\ \A x \in disp.batch : status'[x] # "none"
        /\ o \in Order /\ status[o] \notin {"none", "searching"}
    BY <1>1 DEF IndInv, TypeOK, DispRecord, DispatcherOK
  <1>3. disp' \in DispRecord /\ DispatcherOK'
    BY <1>1, <1>2, NextRecordFacts
  <1>4. \A x \in Order :
          dispatch'[x] = IF x = o THEN "finished" ELSE dispatch[x]
    BY <1>1 DEF IndInv, TypeOK
  <1>5. TablesOK'
    BY <1>1, <1>2, <1>4
       DEF IndInv, TablesOK, RowsAgree, DriverHasAcceptedOffer,
           SearchingIsDispatched, ChargedHasAcceptedOffer, CompletedHasDriver
  <1>6. Keeps
    BY <1>1 DEF Keeps
  <1>7. RequestsOK'
    BY <1>1, <1>6, SlotsKeep DEF IndInv
  <1>8. TypeOK'
    BY <1>1, <1>3 DEF IndInv, TypeOK
  <1> QED
    BY <1>3, <1>5, <1>6, <1>7, <1>8 DEF IndInv-----------------------------------------------------------------------------
(* The invariant and what follows from it.                                 *)

LEMMA InitIndInv ==
  Init => IndInv
  <1> SUFFICES ASSUME Init
               PROVE  IndInv
    OBVIOUS
  <1> USE DEF Init
  <1>1. RequestsOK /\ req \in [Request -> ReqRecord]
    BY IdleFits DEF RequestsOK
  <1>2. DispatcherOK /\ disp \in DispRecord
    BY DEF DispatcherOK, IdleDisp, DispRecord
  <1>3. TypeOK
    BY <1>1, <1>2 DEF TypeOK, OfferState
  <1>4. TablesOK
    BY DEF TablesOK, RowsAgree, DriverHasAcceptedOffer, SearchingIsDispatched,
           ChargedHasAcceptedOffer, CompletedHasDriver
  <1> QED
    BY <1>1, <1>2, <1>3, <1>4 DEF IndInv

\* Every step preserves the invariant and undoes nothing.
LEMMA StepIndInv ==
  IndInv /\ [Next]_vars => IndInv' /\ Keeps
  <1> SUFFICES ASSUME IndInv, [Next]_vars
               PROVE  IndInv' /\ Keeps
    OBVIOUS
  <1>1. ASSUME NEW r \in Request, HandlerStep(r)
        PROVE  IndInv' /\ Keeps
    <2>1. CASE \E o \in Order, p \in Price : CreateOrder(r, o, p)
      BY <2>1, CreateOrderStep
    <2>2. CASE \/ \E o \in Order, p \in Price : Reprice(r, o, p)
               \/ TriggerImmediate(r)
               \/ UpdatePrice(r)
      BY <2>2, PriceAndClockSteps
    <2>3. CASE \E o \in Order, d \in Driver :
                 \/ \E p \in Price : OfferPrice(r, o, d, p)
                 \/ \E call \in {"AcceptOffer", "DeclineOffer"} :
                      OfferResponse(r, o, d, call)
                 \/ OfferAccept(r, o, d)
      BY <2>3, OfferReads
    <2>4. CASE SetDriverPrice(r)
      BY <2>4, SetDriverPriceStep
    <2>5. CASE AcceptOffer(r)
      BY <2>5, AcceptOfferStep
    <2>6. CASE AssignDriver(r)
      BY <2>6, AssignDriverStep
    <2>7. CASE DeclineOffer(r)
      BY <2>7, DeclineOfferStep
    <2> QED
      BY <1>1, <2>1, <2>2, <2>3, <2>4, <2>5, <2>6, <2>7 DEF HandlerStep
  <1>2. ASSUME NEW r \in Request, RideStep(r)
        PROVE  IndInv' /\ Keeps
    <2>1. CASE \E o \in Order :
                 \/ \E to \in StatusTargets \ {"canceled"} :
                      HandleStatus(r, o, to)
                 \/ PassengerCancel(r, o)
      BY <2>1, PublicStatusReads
    <2>2. CASE \E o \in Order, d \in Driver :
                 \/ LifecycleArrive(r, o, d)
                 \/ LifecycleWaitingAdvance(r, o, d)
                 \/ LifecycleStart(r, o, d)
                 \/ LifecycleFinish(r, o, d)
                 \/ LifecycleConfirmCash(r, o, d)
                 \/ LifecycleCancel(r, o, d)
                 \/ LifecycleNoShow(r, o, d)
      BY <2>2, LifecycleReads
    <2>3. CASE UpdateStatusCAS(r)
      BY <2>3, UpdateStatusCASStep
    <2>4. CASE UpdateStatusWithDriverCharge(r)
      BY <2>4, ChargeStep
    <2>5. CASE Abort(r)
      BY <2>5, AbortStep
    <2> QED
      BY <1>2, <2>1, <2>2, <2>3, <2>4, <2>5 DEF RideStep
  <1>3. ASSUME DispatcherStep
        PROVE  IndInv' /\ Keeps
    BY <1>3, DispatchTickStep, ProcessRecordStep, OfferDriverStep,
       UpdateRadiusStep, TimeoutSearchStep, FinishDispatchStep,
       DispatchErrorStep
       DEF DispatcherStep
  <1>4. CASE UNCHANGED vars
    <2>1. UNCHANGED <<tables, disp, req>>
      BY <1>4 DEF vars, tables, orderVars, offerVars, dispatchVars
    <2>2. disp' \in DispRecord /\ DispatcherOK'
      BY <2>1 DEF IndInv, TypeOK, DispatcherOK, tables, orderVars
    <2> QED
      BY <2>1, <2>2, DispatcherRead
  <1> QED
    BY <1>1, <1>2, <1>3, <1>4, WebhookStep, AdminAndClockSteps, ExpireStep,
       CrashStep
       DEF Next

\* The inductive invariant.
THEOREM Invariance ==
  Spec => []IndInv
  BY InitIndInv, StepIndInv, PTL DEF Spec

\* Every variable, the requests in flight and the dispatcher included, keeps
\* its type.
THEOREM TypeCorrect ==
  Spec => []TypeOK
  <1>1. IndInv => TypeOK
    BY DEF IndInv
  <1> QED
    BY <1>1, Invariance, PTL

\* An order is only ever given to a driver whose offer for it was accepted.
THEOREM DriverWonOrder ==
  Spec => []DriverHasAcceptedOffer
  <1>1. IndInv => DriverHasAcceptedOffer
    BY DEF IndInv, TablesOK
  <1> QED
    BY <1>1, Invariance, PTL

\* The dispatcher never lets go of an order that is still searching.
THEOREM SearchIsServed ==
  Spec => []SearchingIsDispatched
  <1>1. IndInv => SearchingIsDispatched
    BY DEF IndInv, TablesOK
  <1> QED
    BY <1>1, Invariance, PTL

\* Nobody pays a commission for an order that was never given to him.
THEOREM OnlyWinnersPay ==
  Spec => []ChargedHasAcceptedOffer
  <1>1. IndInv => ChargedHasAcceptedOffer
    BY DEF IndInv, TablesOK
  <1> QED
    BY <1>1, Invariance, PTL

\* No ride is completed or paid without a driver on it.
THEOREM NoDriverlessRide ==
  Spec => []CompletedHasDriver
  <1>1. IndInv => CompletedHasDriver
    BY DEF IndInv, TablesOK
  <1> QED
    BY <1>1, Invariance, PTL-----------------------------------------------------------------------------
(* Who writes a status, a driver or an offer's state.                      *)

LEMMA StatusReadsAreQuiet ==
  ASSUME NEW h, NEW r, NEW call, NEW o, NEW d, NEW to, NEW then,
         ReadStatus(h, r, call, o, d, to, then)
  PROVE  UNCHANGED <<status, driver, offer>>
  BY DEF ReadStatus, tables, orderVars, offerVars

\* Every other step leaves all three columns alone.
LEMMA Writers ==
  ASSUME Next
  PROVE  \/ UNCHANGED <<status, driver, offer>>
         \/ \E r \in Request :
              \/ \E o \in Order, p \in Price : CreateOrder(r, o, p)
              \/ SetDriverPrice(r) \/ AcceptOffer(r) \/ AssignDriver(r)
              \/ DeclineOffer(r) \/ UpdateStatusCAS(r)
              \/ UpdateStatusWithDriverCharge(r)
         \/ \E o \in Order : AirbaPayWebhook(o)
         \/ \E d \in Driver : OfferDriver(d)
         \/ TimeoutSearch
         \/ \E rows \in SUBSET Pending : ExpireOffers(rows)
  <1> DEFINE Quiet == UNCHANGED <<status, driver, offer>>
  <1>1. ASSUME NEW r \in Request, NEW o \in Order, NEW d \in Driver
        PROVE  /\ \A p \in Price : OfferPrice(r, o, d, p) => Quiet
               /\ \A call : OfferResponse(r, o, d, call) => Quiet
               /\ OfferAccept(r, o, d) => Quiet
    BY DEF OfferPrice, OfferResponse, OfferAccept, tables, orderVars, offerVars
  <1>2. ASSUME NEW r \in Request
        PROVE  /\ \A o \in Order, p \in Price : Reprice(r, o, p) => Quiet
               /\ TriggerImmediate(r) => Quiet
               /\ UpdatePrice(r) => Quiet
               /\ Abort(r) => Quiet
    BY DEF Reprice, TriggerImmediate, UpdatePrice, Abort, tables, orderVars,
           offerVars
  <1>3. ASSUME NEW r \in Request, NEW o \in Order
        PROVE  /\ \A to \in StatusTargets : HandleStatus(r, o, to) => Quiet
               /\ PassengerCancel(r, o) => Quiet
    BY StatusReadsAreQuiet DEF HandleStatus, PassengerCancel
  <1>4. ASSUME NEW r \in Request, NEW o \in Order, NEW d \in Driver,
               \/ LifecycleArrive(r, o, d)
               \/ LifecycleWaitingAdvance(r, o, d)
               \/ LifecycleStart(r, o, d)
               \/ LifecycleFinish(r, o, d)
               \/ LifecycleConfirmCash(r, o, d)
               \/ LifecycleCancel(r, o, d)
               \/ LifecycleNoShow(r, o, d)
        PROVE  Quiet
    BY <1>4, StatusReadsAreQuiet
       DEF LifecycleArrive, LifecycleWaitingAdvance, LifecycleStart,
           LifecycleFinish, LifecycleConfirmCash, LifecycleCancel,
           LifecycleNoShow, ApplyStatusSequence
  <1>5. /\ \A d \in Driver : DeleteDriver(d) => Quiet
        /\ \A d \in Driver : \A a : SetAccount(d, a) => Quiet
        /\ \A o \in Order : NextTickPasses(o) \/ TimeoutPasses(o) => Quiet
        /\ Crash => Quiet
    BY DEF DeleteDriver, SetAccount, NextTickPasses, TimeoutPasses, Crash,
           tables, orderVars, offerVars
  <1>6. /\ DispatchTick => Quiet
        /\ \A o \in Order : ProcessRecord(o) => Quiet
        /\ UpdateRadius => Quiet
        /\ FinishDispatch => Quiet
        /\ DispatchError => Quiet
    BY DEF DispatchTick, ProcessRecord, UpdateRadius, FinishDispatch,
           DispatchError, tables, orderVars, offerVars
  <1> HIDE DEF Quiet
  <1>7. ASSUME NEW r \in Request, HandlerStep(r)
        PROVE  \/ Quiet
               \/ \E o \in Order, p \in Price : CreateOrder(r, o, p)
               \/ SetDriverPrice(r) \/ AcceptOffer(r) \/ AssignDriver(r)
               \/ DeclineOffer(r)
    BY <1>1, <1>2, <1>7 DEF HandlerStep
  <1>8. ASSUME NEW r \in Request, RideStep(r)
        PROVE  \/ Quiet \/ UpdateStatusCAS(r)
               \/ UpdateStatusWithDriverCharge(r)
    BY <1>2, <1>3, <1>4, <1>8 DEF RideStep
  <1>9. ASSUME DispatcherStep
        PROVE  Quiet \/ TimeoutSearch \/ \E d \in Driver : OfferDriver(d)
    BY <1>6, <1>9 DEF DispatcherStep
  <1>10. \/ Quiet
         \/ \E r \in Request :
              \/ \E o \in Order, p \in Price : CreateOrder(r, o, p)
              \/ SetDriverPrice(r) \/ AcceptOffer(r) \/ AssignDriver(r)
              \/ DeclineOffer(r) \/ UpdateStatusCAS(r)
              \/ UpdateStatusWithDriverCharge(r)
         \/ \E o \in Order : AirbaPayWebhook(o)
         \/ \E d \in Driver : OfferDriver(d)
         \/ TimeoutSearch
         \/ \E rows \in SUBSET Pending : ExpireOffers(rows)
    BY <1>5, <1>7, <1>8, <1>9 DEF Next
  <1> QED
    BY <1>10 DEF Quiet-----------------------------------------------------------------------------
(* Statuses follow the graph.                                              *)

\* One order's change of status, as StatusFollowsGraph allows it.
AlongGraph(o) ==
  status'[o] # status[o] =>
    \/ status[o] = "none" /\ status'[o] = "searching"
    \/ <<status[o], status'[o]>> \in Edges
    \/ \E r \in Request : /\ req[r].pc = "AssignDriver"
                          /\ req[r].o = o
                          /\ status'[o] = "accepted"

LEMMA StepAlongGraph ==
  IndInv /\ [Next]_vars => \A o \in Order : AlongGraph(o)
  <1> SUFFICES ASSUME IndInv, Next, NEW o \in Order
               PROVE  AlongGraph(o)
    BY DEF vars, AlongGraph
  <1>1. CASE UNCHANGED <<status, driver, offer>>
    BY <1>1 DEF AlongGraph
  <1>2. ASSUME NEW x \in Order, NEW p \in Price, NEW r \in Request,
               CreateOrder(r, x, p)
        PROVE  AlongGraph(o)
    BY <1>2 DEF CreateOrder, SetStatus, AlongGraph, IndInv, TypeOK
  <1>3. ASSUME NEW r \in Request,
               \/ SetDriverPrice(r) \/ AcceptOffer(r) \/ DeclineOffer(r)
        PROVE  AlongGraph(o)
    BY <1>3
       DEF SetDriverPrice, AcceptOffer, DeclineOffer, orderVars, AlongGraph
  <1>4. ASSUME NEW r \in Request, AssignDriver(r)
        PROVE  AlongGraph(o)
    BY <1>4 DEF AssignDriver, AssignDriverRow, SetStatus, AlongGraph, IndInv,
                TypeOK
  <1>5. ASSUME NEW r \in Request,
               \/ UpdateStatusCAS(r) \/ UpdateStatusWithDriverCharge(r)
        PROVE  AlongGraph(o)
    <2>1. req[r].pc \in StatusCalls
      BY <1>5 DEF UpdateStatusCAS, UpdateStatusWithDriverCharge, StatusCalls
    <2>2. CanTransition(req[r].from, req[r].to)
      BY <2>1, StatusCallFacts
    <2>3. \/ UNCHANGED status
          \/ /\ status[req[r].o] = req[r].from
             /\ status' = [status EXCEPT ![req[r].o] = req[r].to]
      BY <1>5 DEF UpdateStatusCAS, UpdateStatusWithDriverCharge,
                  StatusUnchanged, SetStatus
    <2> QED
      BY <2>2, <2>3 DEF AlongGraph, CanTransition, IndInv, TypeOK
  <1>6. ASSUME NEW x \in Order, AirbaPayWebhook(x)
        PROVE  AlongGraph(o)
    <2>1. <<"completed", "paid">> \in Edges
      BY DEF Edges, Row
    <2> QED
      BY <1>6, <2>1 DEF AirbaPayWebhook, SetStatus, AlongGraph, IndInv, TypeOK
  <1>7. CASE TimeoutSearch
    <2>1. <<"searching", "not_found">> \in Edges
      BY DEF Edges, Row
    <2> QED
      BY <1>7, <2>1 DEF TimeoutSearch, SetStatus, AlongGraph, IndInv, TypeOK
  <1>8. CASE \/ \E d \in Driver : OfferDriver(d)
             \/ \E rows \in SUBSET Pending : ExpireOffers(rows)
    BY <1>8 DEF OfferDriver, ExpireOffers, orderVars, AlongGraph
  <1> QED
    BY <1>1, <1>2, <1>3, <1>4, <1>5, <1>6, <1>7, <1>8, Writers

\* Every change of a status is an edge of the graph, a creation, or the
\* unconditional "accepted" of AssignDriver.
THEOREM StatusesFollowGraph ==
  Spec => StatusFollowsGraph
  <1>1. IndInv /\ [Next]_vars =>
          [\A o \in Order :
             status'[o] # status[o] =>
               \/ status[o] = "none" /\ status'[o] = "searching"
               \/ <<status[o], status'[o]>> \in Edges
               \/ \E r \in Request : /\ req[r].pc = "AssignDriver"
                                     /\ req[r].o = o
                                     /\ status'[o] = "accepted"]_vars
    BY StepAlongGraph DEF AlongGraph
  <1> QED
    BY <1>1, Invariance, PTL DEF Spec, StatusFollowsGraph

-----------------------------------------------------------------------------
(* The offers implement OfferBook.                                         *)

\* A step that sets one offer's state sets one entry of the book.
LEMMA BookOfSetOffer ==
  ASSUME TypeOK, NEW o \in Order, NEW d \in Driver, NEW s \in OfferState,
         SetOffer(o, d, s)
  PROVE  BookOfOffers' = [BookOfOffers EXCEPT ![o][d] = Outcome(s)]
  <1>1. \A x \in Order, e \in Driver :
          offer'[x][e] = IF x = o /\ e = d THEN s ELSE offer[x][e]
    BY SetOfferFacts
  <1>2. \A x \in Order, e \in Driver :
          Outcome(offer'[x][e]) =
            IF x = o /\ e = d THEN Outcome(s) ELSE Outcome(offer[x][e])
    BY <1>1
  <1>3. BookOfOffers' = [x \in Order |-> [e \in Driver |->
                           Outcome(offer'[x][e])]]
    BY DEF BookOfOffers, Outcome
  <1> QED
    BY <1>2, <1>3 DEF BookOfOffers

LEMMA InitBook ==
  Init => Book!Init
  BY DEF Init, Book!Init, BookOfOffers, Outcome

\* A step that writes neither the offers nor the drivers leaves the book.
LEMMA QuietBook ==
  ASSUME UNCHANGED <<offer, driver>>
  PROVE  UNCHANGED <<BookOfOffers, driver>>
  BY DEF BookOfOffers, Outcome

LEMMA StepBook ==
  IndInv /\ [Next]_vars => [Book!Next]_<<BookOfOffers, driver>>
  <1> SUFFICES ASSUME IndInv, Next
               PROVE  \/ UNCHANGED <<BookOfOffers, driver>>
                      \/ Book!Next
    BY QuietBook DEF vars
  <1>1. CASE UNCHANGED <<status, driver, offer>>
    BY <1>1, QuietBook
  <1>2. ASSUME NEW r \in Request,
               \/ \E o \in Order, p \in Price : CreateOrder(r, o, p)
               \/ UpdateStatusCAS(r) \/ UpdateStatusWithDriverCharge(r)
        PROVE  UNCHANGED <<BookOfOffers, driver>>
    BY <1>2, QuietBook
       DEF CreateOrder, UpdateStatusCAS, UpdateStatusWithDriverCharge,
           offerVars
  <1>3. ASSUME \/ \E o \in Order : AirbaPayWebhook(o)
               \/ TimeoutSearch
        PROVE  UNCHANGED <<BookOfOffers, driver>>
    BY <1>3, QuietBook DEF AirbaPayWebhook, TimeoutSearch, offerVars
  <1>4. ASSUME NEW r \in Request, SetDriverPrice(r)
        PROVE  UNCHANGED <<BookOfOffers, driver>> \/ Book!Next
    <2> DEFINE o == req[r].o
               d == req[r].d
    <2>1. o \in Order /\ d \in Driver
      BY <1>4, RequestFacts DEF SetDriverPrice, Fit, OfferCalls
    <2>2. UNCHANGED driver
      BY <1>4 DEF SetDriverPrice, orderVars
    <2>3. CASE offer[o][d] \notin {"pending", "declined"}
      BY <1>4, <2>2, <2>3, QuietBook DEF SetDriverPrice, Priceable, offerVars
    <2>4. CASE offer[o][d] \in {"pending", "declined"}
      <3>1. SetOffer(o, d, "pending")
        BY <1>4, <2>4 DEF SetDriverPrice, Priceable
      <3>2. BookOfOffers' = [BookOfOffers EXCEPT ![o][d] = "open"]
        BY <2>1, <3>1, BookOfSetOffer DEF IndInv, OfferState, Outcome
      <3>3. CASE offer[o][d] = "pending"
        <4>1. /\ offer \in [Order -> [Driver -> OfferState]]
              /\ offer' \in [Order -> [Driver -> OfferState]]
              /\ \A x \in Order, e \in Driver : offer'[x][e] = offer[x][e]
          BY <2>1, <3>1, <3>3, SetOfferFacts DEF IndInv, TypeOK, OfferState
        <4>2. \A x \in Order : offer'[x] = offer[x]
          BY <4>1
        <4>3. UNCHANGED offer
          BY <4>1, <4>2
        <4> QED
          BY <2>2, <4>3, QuietBook
      <3>4. CASE offer[o][d] = "declined"
        <4>1. BookOfOffers[o][d] = "declined"
          BY <2>1, <3>4 DEF BookOfOffers, Outcome
        <4> QED
          BY <2>1, <2>2, <3>2, <4>1 DEF Book!Next, Book!Open
      <3> QED
        BY <2>4, <3>3, <3>4
    <2> QED
      BY <2>3, <2>4
  <1>5. ASSUME NEW r \in Request, DeclineOffer(r)
        PROVE  UNCHANGED <<BookOfOffers, driver>> \/ Book!Next
    <2> DEFINE o == req[r].o
               d == req[r].d
    <2>1. o \in Order /\ d \in Driver /\ UNCHANGED driver
      BY <1>5, RequestFacts DEF DeclineOffer, Fit, OfferCalls, orderVars
    <2>2. CASE offer[o][d] # "pending"
      BY <1>5, <2>1, <2>2, QuietBook DEF DeclineOffer
    <2>3. CASE offer[o][d] = "pending"
      <3>1. SetOffer(o, d, "declined")
        BY <1>5, <2>3 DEF DeclineOffer
      <3>2. BookOfOffers' = [BookOfOffers EXCEPT ![o][d] = "declined"]
        BY <2>1, <3>1, BookOfSetOffer DEF IndInv, OfferState, Outcome
      <3>3. BookOfOffers[o][d] = "open"
        BY <2>1, <2>3 DEF BookOfOffers, Outcome
      <3> QED
        BY <2>1, <3>2, <3>3 DEF Book!Next, Book!Decline
    <2> QED
      BY <2>2, <2>3
  <1>6. ASSUME NEW r \in Request, AcceptOffer(r)
        PROVE  UNCHANGED <<BookOfOffers, driver>> \/ Book!Next
    <2> DEFINE o == req[r].o
               d == req[r].d
    <2>1. o \in Order /\ d \in Driver /\ UNCHANGED driver
      BY <1>6, RequestFacts DEF AcceptOffer, Fit, OfferCalls, orderVars
    <2>2. CASE offer[o][d] # "pending"
      BY <1>6, <2>1, <2>2, QuietBook DEF AcceptOffer
    <2>3. CASE offer[o][d] = "pending"
      <3> DEFINE row == [e \in Driver |->
                           IF e = d THEN "accepted"
                           ELSE IF offer[o][e] = "pending" THEN "closed"
                           ELSE offer[o][e]]
      <3>1. offer' = [offer EXCEPT ![o] = row]
        BY <1>6, <2>3 DEF AcceptOffer, AcceptOfferRows
      <3>2. \A x \in Order : offer'[x] = IF x = o THEN row ELSE offer[x]
        BY <3>1 DEF IndInv, TypeOK
      <3>3. \A x \in Order, e \in Driver :
              /\ x = o => offer'[x][e] = IF e = d THEN "accepted"
                                       ELSE IF offer[x][e] = "pending"
                                            THEN "closed" ELSE offer[x][e]
              /\ x # o => offer'[x][e] = offer[x][e]
        <4> TAKE x \in Order, e \in Driver
        <4>1. CASE x = o
          <5>1. offer'[x] = row
            BY <3>2, <4>1
          <5>2. row[e] = IF e = d THEN "accepted"
                         ELSE IF offer[o][e] = "pending" THEN "closed"
                         ELSE offer[o][e]
            OBVIOUS
          <5> HIDE DEF row
          <5> QED
            BY <4>1, <5>1, <5>2
        <4>2. CASE x # o
          <5> HIDE DEF row
          <5> QED
            BY <3>2, <4>2
        <4> QED
          BY <4>1, <4>2
      <3> HIDE DEF row
      <3>4. \A x \in Order, e \in Driver :
              /\ x = o => Outcome(offer'[x][e]) =
                           IF e = d THEN "won"
                           ELSE IF Outcome(offer[x][e]) = "open" THEN "lost"
                           ELSE Outcome(offer[x][e])
              /\ x # o => Outcome(offer'[x][e]) = Outcome(offer[x][e])
        <4>1. \A x \in Order, e \in Driver : offer[x][e] \in OfferState
          BY DEF IndInv, TypeOK
        <4> QED
          BY <3>3, <4>1 DEF Outcome, OfferState
      <3>5. BookOfOffers' = [x \in Order |-> [e \in Driver |->
                               Outcome(offer'[x][e])]]
        BY DEF BookOfOffers, Outcome
      <3> DEFINE won == [e \in Driver |->
                           IF e = d THEN "won"
                           ELSE IF BookOfOffers[o][e] = "open" THEN "lost"
                           ELSE BookOfOffers[o][e]]
      <3>6. BookOfOffers' = [BookOfOffers EXCEPT ![o] = won]
        <4>1. \A x \in Order, e \in Driver :
                BookOfOffers[x][e] = Outcome(offer[x][e])
          BY DEF BookOfOffers
        <4>2. \A x \in Order :
                (BookOfOffers')[x] = [e \in Driver |-> Outcome(offer'[x][e])]
          BY <3>5
        <4>3. (BookOfOffers')[o] = won
          <5>1. \A e \in Driver : Outcome(offer'[o][e]) =
                  IF e = d THEN "won"
                  ELSE IF BookOfOffers[o][e] = "open" THEN "lost"
                  ELSE BookOfOffers[o][e]
            BY <2>1, <3>4, <4>1
          <5> QED
            BY <2>1, <4>2, <5>1
        <4> HIDE DEF won
        <4>4. \A x \in Order : x # o => (BookOfOffers')[x] = BookOfOffers[x]
          <5> TAKE x \in Order
          <5> HAVE x # o
          <5>1. BookOfOffers[x] = [e \in Driver |-> Outcome(offer[x][e])]
            BY DEF BookOfOffers
          <5>2. \A e \in Driver : Outcome(offer'[x][e]) = Outcome(offer[x][e])
            BY <3>4
          <5> QED
            BY <4>2, <5>1, <5>2
        <4>5. BookOfOffers' = [x \in Order |-> (BookOfOffers')[x]]
          BY <3>5
        <4>6. BookOfOffers = [x \in Order |-> BookOfOffers[x]]
          BY DEF BookOfOffers
        <4> DEFINE bk == BookOfOffers
                   bkN == BookOfOffers'
        <4>7. bk = [x \in Order |-> bk[x]] /\ bkN = [x \in Order |-> bkN[x]]
          BY <4>5, <4>6
        <4>8. bkN[o] = won /\ \A x \in Order : x # o => bkN[x] = bk[x]
          BY <4>3, <4>4
        <4> HIDE DEF bk, bkN
        <4>9. bkN = [bk EXCEPT ![o] = won]
          BY <2>1, <4>7, <4>8
        <4> QED
          BY <4>9 DEF bk, bkN
      <3>7. BookOfOffers[o][d] = "open"
        BY <2>1, <2>3 DEF BookOfOffers, Outcome
      <3> QED
        BY <2>1, <3>6, <3>7 DEF Book!Next, Book!Win
    <2> QED
      BY <2>2, <2>3
  <1>7. ASSUME NEW r \in Request, AssignDriver(r)
        PROVE  Book!Next
    <2> DEFINE o == req[r].o
               d == req[r].d
    <2>1. o \in Order /\ d \in Driver /\ offer[o][d] = "accepted"
      BY <1>7, RequestFacts DEF AssignDriver, Fit, OfferCalls
    <2>2. BookOfOffers[o][d] = "won"
      BY <2>1 DEF BookOfOffers, Outcome
    <2>3. driver' = [driver EXCEPT ![o] = d] /\ UNCHANGED offer
      BY <1>7 DEF AssignDriver, AssignDriverRow, offerVars
    <2>4. UNCHANGED BookOfOffers
      BY <2>3 DEF BookOfOffers, Outcome
    <2> QED
      BY <2>1, <2>2, <2>3, <2>4 DEF Book!Next, Book!Take
  <1>8. ASSUME NEW d \in Driver, OfferDriver(d)
        PROVE  UNCHANGED <<BookOfOffers, driver>> \/ Book!Next
    <2> DEFINE o == disp.o
    <2>1. o \in Order /\ UNCHANGED driver
      BY <1>8 DEF OfferDriver, IndInv, DispatcherOK, orderVars
    <2>2. CASE account[d] # "deleted" /\ offer[o][d] = "none"
      <3>1. SetOffer(o, d, "pending")
        BY <1>8, <2>2 DEF OfferDriver, AlreadyOffered, CreateOfferRow
      <3>2. BookOfOffers' = [BookOfOffers EXCEPT ![o][d] = "open"]
        BY <2>1, <3>1, BookOfSetOffer DEF IndInv, OfferState, Outcome
      <3>3. BookOfOffers[o][d] = "none"
        BY <2>1, <2>2 DEF BookOfOffers, Outcome
      <3> QED
        BY <2>1, <3>2, <3>3 DEF Book!Next, Book!Open
    <2>3. CASE ~(account[d] # "deleted" /\ offer[o][d] = "none")
      BY <1>8, <2>1, <2>3, QuietBook DEF OfferDriver, AlreadyOffered
    <2> QED
      BY <2>2, <2>3
  <1>9. ASSUME NEW rows \in SUBSET Pending, ExpireOffers(rows)
        PROVE  Book!Next
    <2>1. rows \in SUBSET (Order \X Driver) /\ UNCHANGED driver
      BY <1>9 DEF Pending, ExpireOffers, orderVars
    <2>2. \A x \in rows : BookOfOffers[x[1]][x[2]] = "open"
      BY <2>1 DEF Pending, BookOfOffers, Outcome
    <2>3. \A o \in Order, d \in Driver :
            Outcome(offer'[o][d]) =
              IF <<o, d>> \in rows THEN "lost" ELSE Outcome(offer[o][d])
      BY <1>9 DEF ExpireOffers, Outcome
    <2>4. BookOfOffers' = [o \in Order |-> [d \in Driver |->
                             IF <<o, d>> \in rows THEN "lost"
                             ELSE BookOfOffers[o][d]]]
      BY <2>3 DEF BookOfOffers, Outcome
    <2> QED
      BY <2>1, <2>2, <2>4 DEF Book!Next, Book!Lapse
  <1> QED
    BY <1>1, <1>2, <1>3, <1>4, <1>5, <1>6, <1>7, <1>8, <1>9, Writers

\* The offers, their acceptance and the assignment keep what OfferBook
\* promises: outcomes are final, one acceptance loses every other open offer,
\* and only a winner is handed the order.
THEOREM OffersImplementBook ==
  Spec => ImplementsOfferBook
  <1>1. Init => Book!Init
    BY InitBook
  <1>2. IndInv /\ [Next]_vars => [Book!Next]_<<BookOfOffers, driver>>
    BY StepBook
  <1> QED
    BY <1>1, <1>2, Invariance, PTL DEF Spec, ImplementsOfferBook, Book!Spec
=============================================================================
