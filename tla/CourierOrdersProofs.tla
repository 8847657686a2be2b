------------------------- MODULE CourierOrdersProofs -------------------------
(***************************************************************************)
(* Theorems about CourierOrders for any sets of orders, couriers and       *)
(* requests.  The inductive invariant says what the tables agree on and    *)
(* what a request in flight, and the dispatcher, may rely on although they *)
(* read the tables some steps ago.                                         *)
(***************************************************************************)
EXTENDS CourierOrders, TLAPS

\* What a request in flight relies on when the tables are st and of.
Fit(q, st, of) ==
  /\ q.pc # "idle" => q.o \in Order /\ st[q.o] # "none"
  /\ q.pc = "AssignCourier" => q.c \in Courier /\ of[q.o][q.c] # "none"
  /\ q.pc = "UpdateStatus" => q.to \in Status

RequestsOK == \A r \in Request : Fit(req[r], status, offer)

\* What the dispatcher relies on: its orders exist, and the one it is about
\* to finish is no longer searching.
DispatcherOK ==
  /\ \A o \in disp.batch : status[o] # "none"
  /\ disp.pc \in {"Offer", "CreateOffer", "Timeout", "Finish"} =>
       disp.o \in Order /\ status[disp.o] # "none"
  /\ disp.pc = "CreateOffer" => disp.c \in Courier
  /\ disp.pc = "Finish" => status[disp.o] # "searching"

\* An order and its dispatch record are created together; one that does not
\* exist has neither a courier nor an offer.
RowsAgree ==
  \A o \in Order :
    /\ dispatch[o] = "none" <=> status[o] = "none"
    /\ status[o] = "none" =>
         courier[o] = NoCourier /\ \A c \in Courier : offer[o][c] = "none"

TablesOK == RowsAgree /\ SearchingIsDispatched /\ CourierWasOffered

IndInv == TypeOK /\ TablesOK /\ RequestsOK /\ DispatcherOK

\* What no step undoes.
Keeps ==
  \A o \in Order :
    /\ status[o] # "none" => status'[o] # "none"
    /\ status[o] \notin {"none", "searching"} => status'[o] # "searching"
    /\ \A c \in Courier : offer[o][c] # "none" => offer'[o][c] # "none"
-----------------------------------------------------------------------------
\* Nothing leads back to "searching", only "searching" leads to "accepted",
\* and "not_found" is not in the graph.
LEMMA GraphFacts ==
  /\ \A f \in Status : CanTransition(f, "searching") => f = "searching"
  /\ \A f \in Status :
       CanTransition(f, "accepted") => f \in {"searching", "accepted"}
  /\ ~CanTransition("searching", "not_found")
  BY DEF CanTransition, Edges, Row, Canceled, Status

\* No slot changes; what the requests rely on is kept.
LEMMA SlotsKeep ==
  ASSUME TypeOK, RequestsOK, Keeps, UNCHANGED req
  PROVE  RequestsOK'
  <1> SUFFICES ASSUME NEW r \in Request
               PROVE  Fit(req'[r], status', offer')
    BY DEF RequestsOK
  <1>1. req[r] \in ReqRecord /\ Fit(req[r], status, offer) /\ req'[r] = req[r]
    BY DEF TypeOK, RequestsOK
  <1> QED
    BY <1>1 DEF Fit, Keeps

\* One slot gets a new call; the others rely on what they relied on.
LEMMA SlotStep ==
  ASSUME TypeOK, RequestsOK, Keeps, NEW r \in Request, NEW q \in ReqRecord,
         Fit(q, status', offer'), req' = [req EXCEPT ![r] = q]
  PROVE  RequestsOK' /\ req' \in [Request -> ReqRecord]
  <1>1. req' \in [Request -> ReqRecord]
    BY DEF TypeOK
  <1>2. ASSUME NEW s \in Request
        PROVE  Fit(req'[s], status', offer')
    <2>1. CASE s = r
      BY <2>1 DEF TypeOK
    <2>2. CASE s # r
      <3>1. req'[s] = req[s] /\ req[s] \in ReqRecord /\ Fit(req[s], status, offer)
        BY <2>2 DEF TypeOK, RequestsOK
      <3> QED
        BY <3>1 DEF Fit, Keeps
    <2> QED
      BY <2>1, <2>2
  <1> QED
    BY <1>1, <1>2 DEF RequestsOK

\* A slot that becomes free.
LEMMA SlotEnds ==
  ASSUME TypeOK, RequestsOK, Keeps, NEW r \in Request, End(r)
  PROVE  RequestsOK' /\ req' \in [Request -> ReqRecord]
  <1>1. IdleReq \in ReqRecord /\ Fit(IdleReq, status', offer')
    BY DEF IdleReq, ReqRecord, Fit
  <1> QED
    BY <1>1, SlotStep DEF End

\* The dispatcher does not move.
LEMMA DispatcherKeeps ==
  ASSUME TypeOK, DispatcherOK, Keeps, UNCHANGED disp
  PROVE  DispatcherOK'
  BY DEF TypeOK, DispRecord, DispatcherOK, Keeps

\* The dispatcher goes to the next record of a batch of existing orders.
LEMMA NextRecordFacts ==
  ASSUME NEW batch \in SUBSET Order, NEW late \in SUBSET Order,
         \A o \in batch : status'[o] # "none", NextRecord(batch, late)
  PROVE  disp' \in DispRecord /\ DispatcherOK'
  BY DEF NextRecord, IdleDisp, DispRecord, DispatcherOK

\* What a request in flight knows of its own call.
LEMMA RequestFacts ==
  ASSUME TypeOK, RequestsOK, NEW r \in Request
  PROVE  req[r] \in ReqRecord /\ Fit(req[r], status, offer)
  BY DEF TypeOK, RequestsOK
-----------------------------------------------------------------------------
LEMMA InitIndInv ==
  ASSUME Init
  PROVE  IndInv
  <1>1. TypeOK
    BY DEF Init, TypeOK, IdleReq, IdleDisp, ReqRecord, DispRecord, OfferStatus
  <1>2. TablesOK
    BY DEF Init, TablesOK, RowsAgree, SearchingIsDispatched, CourierWasOffered
  <1>3. RequestsOK /\ DispatcherOK
    BY DEF Init, RequestsOK, DispatcherOK, Fit, IdleReq, IdleDisp
  <1> QED
    BY <1>1, <1>2, <1>3 DEF IndInv

\* A step that leaves orders, offers and dispatch states alone.
LEMMA QuietTables ==
  ASSUME IndInv, UNCHANGED <<status, courier, offer, dispatch>>
  PROVE  TablesOK' /\ Keeps
  BY DEF IndInv, TablesOK, RowsAgree, SearchingIsDispatched, CourierWasOffered,
         Keeps

LEMMA CreateOrderStep ==
  ASSUME IndInv, NEW r \in Request, NEW o \in Order, CreateOrder(r, o)
  PROVE  IndInv'
  <1> USE DEF IndInv
  <1> DEFINE q == [IdleReq EXCEPT !.pc = "TriggerImmediate", !.o = o]
  <1>1. Keeps
    BY DEF CreateOrder, SetStatus, Keeps, offerVars, TypeOK
  <1>2. q \in ReqRecord /\ Fit(q, status', offer')
    BY DEF IdleReq, ReqRecord, Fit, CreateOrder, SetStatus, TypeOK
  <1>3. RequestsOK' /\ req' \in [Request -> ReqRecord]
    BY <1>1, <1>2, SlotStep DEF CreateOrder, Begin
  <1>4. TypeOK'
    BY <1>3 DEF CreateOrder, SetStatus, TypeOK, offerVars, Status
  <1>5. TablesOK'
    BY DEF CreateOrder, SetStatus, TypeOK, offerVars, TablesOK, RowsAgree,
           SearchingIsDispatched, CourierWasOffered
  <1>6. DispatcherOK'
    BY <1>1, DispatcherKeeps DEF CreateOrder
  <1> QED
    BY <1>3, <1>4, <1>5, <1>6

LEMMA QuietRequestSteps ==
  ASSUME IndInv, NEW r \in Request, TriggerImmediate(r) \/ Abort(r)
  PROVE  IndInv'
  <1> USE DEF IndInv
  <1>1. UNCHANGED <<status, courier, offer, asked, dispatch, timedOut, disp>>
    BY DEF TriggerImmediate, Abort, orderVars, offerVars, dispatchVars, tables
  <1>2. TablesOK' /\ Keeps
    BY <1>1, QuietTables
  <1>3. RequestsOK' /\ req' \in [Request -> ReqRecord]
    BY <1>2, SlotEnds DEF TriggerImmediate, Abort
  <1>4. due' \in [Order -> BOOLEAN]
    BY DEF TriggerImmediate, Abort, tables, dispatchVars, TypeOK
  <1>5. TypeOK'
    BY <1>1, <1>3, <1>4 DEF TypeOK
  <1>6. DispatcherOK'
    BY <1>1, <1>2, DispatcherKeeps
  <1> QED
    BY <1>2, <1>3, <1>5, <1>6

\* One offer of an order that exists is written, and not removed.
LEMMA OfferWrite ==
  ASSUME IndInv, UNCHANGED <<orderVars, dispatchVars>>,
         NEW o \in Order, NEW c \in Courier, NEW s \in OfferStatus \ {"none"},
         status[o] # "none", offer' = [offer EXCEPT ![o][c] = s]
  PROVE  TablesOK' /\ Keeps
  BY DEF IndInv, TypeOK, TablesOK, RowsAgree, SearchingIsDispatched,
         CourierWasOffered, Keeps, orderVars, dispatchVars

\* UPDATE of a row that is there.
LEMMA OfferRowFacts ==
  ASSUME IndInv, NEW o \in Order, NEW c \in Courier, NEW s \in OfferStatus,
         OfferRowFound(o, c), SetOfferStatus(o, c, s)
  PROVE  status[o] # "none" /\ offer' = [offer EXCEPT ![o][c] = s]
  BY DEF IndInv, TypeOK, TablesOK, RowsAgree, OfferRowFound, SetOfferStatus

LEMMA OfferPriceStep ==
  ASSUME IndInv, NEW o \in Order, NEW c \in Courier, OfferPrice(o, c)
  PROVE  IndInv'
  <1>1. TablesOK' /\ Keeps
    BY OfferWrite DEF OfferPrice, OfferStatus, Exists
  <1>2. TypeOK'
    BY DEF IndInv, OfferPrice, TypeOK, OfferStatus, orderVars, dispatchVars
  <1>3. RequestsOK' /\ DispatcherOK'
    BY <1>1, SlotsKeep, DispatcherKeeps DEF IndInv, OfferPrice
  <1> QED
    BY <1>1, <1>2, <1>3 DEF IndInv

LEMMA OfferDeclineStep ==
  ASSUME IndInv, NEW o \in Order, NEW c \in Courier, OfferDecline(o, c)
  PROVE  IndInv'
  <1>1. status[o] # "none" /\ offer' = [offer EXCEPT ![o][c] = "declined"]
    BY OfferRowFacts DEF OfferDecline, OfferStatus
  <1>2. TablesOK' /\ Keeps
    BY <1>1, OfferWrite DEF OfferDecline, OfferStatus
  <1>3. TypeOK'
    BY <1>1 DEF IndInv, OfferDecline, TypeOK, OfferStatus, orderVars, dispatchVars
  <1>4. RequestsOK' /\ DispatcherOK'
    BY <1>2, SlotsKeep, DispatcherKeeps DEF IndInv, OfferDecline
  <1> QED
    BY <1>2, <1>3, <1>4 DEF IndInv

LEMMA OfferAcceptStep ==
  ASSUME IndInv, NEW r \in Request, NEW o \in Order, NEW c \in Courier,
         OfferAccept(r, o, c)
  PROVE  IndInv'
  <1> DEFINE q == [IdleReq EXCEPT !.pc = "AssignCourier", !.o = o, !.c = c]
  <1>1. status[o] # "none" /\ offer' = [offer EXCEPT ![o][c] = "accepted"]
    BY OfferRowFacts DEF OfferAccept, OfferStatus
  <1>2. TablesOK' /\ Keeps
    BY <1>1, OfferWrite DEF OfferAccept, OfferStatus
  <1>3. q \in ReqRecord /\ Fit(q, status', offer')
    BY <1>1 DEF IdleReq, ReqRecord, Fit, OfferAccept, orderVars, IndInv, TypeOK
  <1>4. RequestsOK' /\ req' \in [Request -> ReqRecord]
    BY <1>2, <1>3, SlotStep DEF OfferAccept, Begin, IndInv
  <1>5. TypeOK'
    BY <1>1, <1>4 DEF IndInv, OfferAccept, TypeOK, OfferStatus, orderVars,
                     dispatchVars
  <1>6. DispatcherOK'
    BY <1>2, DispatcherKeeps DEF OfferAccept, IndInv
  <1> QED
    BY <1>2, <1>4, <1>5, <1>6 DEF IndInv

\* A status handler reads the order; nothing but its slot changes.
LEMMA ReadOrderStep ==
  ASSUME IndInv, NEW r \in Request, NEW o \in Order, NEW to \in Status,
         ReadOrder(r, o, to)
  PROVE  IndInv'
  <1> DEFINE q == [IdleReq EXCEPT !.pc = "UpdateStatus", !.o = o, !.to = to]
  <1>1. TablesOK' /\ Keeps
    BY QuietTables DEF ReadOrder, tables, orderVars, offerVars, dispatchVars
  <1>2. q \in ReqRecord /\ Fit(q, status', offer')
    BY DEF IdleReq, ReqRecord, Fit, ReadOrder, tables, orderVars, Exists
  <1>3. RequestsOK' /\ req' \in [Request -> ReqRecord]
    BY <1>1, <1>2, SlotStep DEF ReadOrder, Begin, IndInv
  <1>4. TypeOK'
    BY <1>3 DEF IndInv, ReadOrder, TypeOK, tables, orderVars, offerVars,
                dispatchVars
  <1>5. DispatcherOK'
    BY <1>1, DispatcherKeeps DEF ReadOrder, IndInv
  <1> QED
    BY <1>1, <1>3, <1>4, <1>5 DEF IndInv

\* What the graph allows never leads back to "searching".
LEMMA MovableFacts ==
  ASSUME TypeOK, NEW o \in Order, NEW to \in Status, Movable(o, to)
  PROVE  status[o] \in Status /\ to # "searching"
  BY GraphFacts DEF TypeOK, Movable, Exists

\* One status of an order that exists is written, and it is not "searching".
LEMMA StatusWrite ==
  ASSUME IndInv, NEW o \in Order, NEW to \in Status \ {"searching"},
         status[o] # "none", SetStatus(o, to),
         UNCHANGED <<courier, offerVars, dispatchVars>>
  PROVE  TablesOK' /\ Keeps
  BY DEF IndInv, TypeOK, SetStatus, Status, Canceled, TablesOK, RowsAgree,
         SearchingIsDispatched, CourierWasOffered, Keeps, offerVars,
         dispatchVars

LEMMA LifecycleUpdateStep ==
  ASSUME IndInv, NEW o \in Order, NEW to \in Status, LifecycleUpdate(o, to)
  PROVE  IndInv'
  <1>1. to # "searching" /\ status[o] # "none"
    BY MovableFacts DEF LifecycleUpdate, IndInv, Movable, Exists
  <1>2. TablesOK' /\ Keeps
    BY <1>1, StatusWrite DEF LifecycleUpdate
  <1>3. TypeOK'
    BY DEF IndInv, LifecycleUpdate, SetStatus, TypeOK, offerVars, dispatchVars
  <1>4. RequestsOK' /\ DispatcherOK'
    BY <1>2, SlotsKeep, DispatcherKeeps DEF IndInv, LifecycleUpdate
  <1> QED
    BY <1>2, <1>3, <1>4 DEF IndInv

LEMMA UpdateStatusStep ==
  ASSUME IndInv, NEW r \in Request, UpdateStatus(r)
  PROVE  IndInv'
  <1> DEFINE o == req[r].o
             to == req[r].to
  <1>1. o \in Order /\ to \in Status
    BY RequestFacts DEF IndInv, UpdateStatus, Fit
  <1>2. TablesOK' /\ Keeps
    <2>1. CASE Movable(o, to)
      <3>1. to # "searching" /\ status[o] # "none"
        BY <1>1, <2>1, MovableFacts DEF IndInv, Movable, Exists
      <3>2. SetStatus(o, to)
        BY <2>1 DEF UpdateStatus
      <3> HIDE DEF o, to
      <3> QED
        BY <1>1, <3>1, <3>2, StatusWrite DEF UpdateStatus
    <2>2. CASE ~Movable(o, to)
      BY <2>2, QuietTables DEF UpdateStatus, offerVars, dispatchVars
    <2> QED
      BY <2>1, <2>2
  <1>3. RequestsOK' /\ req' \in [Request -> ReqRecord]
    BY <1>2, SlotEnds DEF UpdateStatus, IndInv
  <1>4. TypeOK'
    BY <1>1, <1>3 DEF IndInv, UpdateStatus, SetStatus, TypeOK, offerVars,
                     dispatchVars
  <1>5. DispatcherOK'
    BY <1>2, DispatcherKeeps DEF UpdateStatus, IndInv
  <1> QED
    BY <1>2, <1>3, <1>4, <1>5 DEF IndInv

LEMMA AssignCourierStep ==
  ASSUME IndInv, NEW r \in Request, AssignCourier(r)
  PROVE  IndInv'
  <1> DEFINE o == req[r].o
             c == req[r].c
  <1>1. /\ o \in Order /\ c \in Courier
        /\ status[o] # "none" /\ offer[o][c] # "none"
    BY RequestFacts DEF IndInv, AssignCourier, Fit
  <1>2. \/ UNCHANGED orderVars
        \/ /\ courier' = [courier EXCEPT ![o] = c]
           /\ status' = [status EXCEPT ![o] = "accepted"]
    BY DEF AssignCourier, AssignCourierRow, SetStatus
  <1>3. UNCHANGED <<offerVars, dispatchVars, disp>>
    BY DEF AssignCourier
  <1> HIDE DEF o, c
  <1>4. TablesOK' /\ Keeps
    BY <1>1, <1>2, <1>3 DEF IndInv, TypeOK, TablesOK, RowsAgree, orderVars,
       SearchingIsDispatched, CourierWasOffered, Keeps, offerVars, dispatchVars
  <1>5. RequestsOK' /\ req' \in [Request -> ReqRecord]
    BY <1>4, SlotEnds DEF AssignCourier, IndInv
  <1>6. TypeOK'
    <2>1. CASE UNCHANGED orderVars
      BY <1>3, <1>5, <2>1 DEF IndInv, TypeOK, orderVars, offerVars, dispatchVars
    <2>2. CASE /\ courier' = [courier EXCEPT ![o] = c]
               /\ status' = [status EXCEPT ![o] = "accepted"]
      <3>1. "accepted" \in Status
        BY DEF Status
      <3>2. /\ status' \in [Order -> Status \cup {"none"}]
            /\ courier' \in [Order -> Courier \cup {NoCourier}]
        BY <1>1, <2>2, <3>1 DEF IndInv, TypeOK
      <3> QED
        BY <1>3, <1>5, <3>2 DEF IndInv, TypeOK, offerVars, dispatchVars
    <2> QED
      BY <1>2, <2>1, <2>2
  <1>7. DispatcherOK'
    BY <1>3, <1>4, DispatcherKeeps DEF IndInv
  <1> QED
    BY <1>4, <1>5, <1>6, <1>7 DEF IndInv
-----------------------------------------------------------------------------
(* The dispatcher.                                                         *)

\* A dispatcher's step that writes no order, no offer and no dispatch state.
LEMMA DispatcherRead ==
  ASSUME IndInv, UNCHANGED <<orderVars, offerVars, dispatch, timedOut, req>>,
         due' \in [Order -> BOOLEAN], disp' \in DispRecord, DispatcherOK'
  PROVE  IndInv'
  <1>1. TablesOK' /\ Keeps
    BY QuietTables DEF orderVars, offerVars
  <1>2. RequestsOK'
    BY <1>1, SlotsKeep DEF IndInv
  <1>3. TypeOK'
    BY DEF IndInv, TypeOK, orderVars, offerVars
  <1> QED
    BY <1>1, <1>2, <1>3 DEF IndInv

LEMMA DispatchTickStep ==
  ASSUME IndInv, DispatchTick
  PROVE  IndInv'
  <1>1. UNCHANGED <<orderVars, offerVars, dispatch, due, timedOut, req>>
    BY DEF DispatchTick, tables, dispatchVars
  <1>2. \A o \in DueOrders : status[o] # "none"
    BY DEF IndInv, TablesOK, RowsAgree, DueOrders
  <1>3. disp' \in DispRecord /\ DispatcherOK'
    BY <1>1, <1>2, NextRecordFacts DEF DispatchTick, DueOrders, orderVars
  <1> QED
    BY <1>1, <1>3, DispatcherRead DEF IndInv, TypeOK

LEMMA ProcessRecordStep ==
  ASSUME IndInv, NEW o \in Order, ProcessRecord(o)
  PROVE  IndInv'
  <1>1. UNCHANGED <<orderVars, offerVars, dispatch, due, timedOut, req>>
    BY DEF ProcessRecord, tables, dispatchVars
  <1>2. PICK pc \in {"Offer", "Timeout", "Finish"}, near \in SUBSET Courier :
          /\ disp' = [disp EXCEPT !.pc = pc, !.o = o, !.near = near,
                                  !.batch = @ \ {o}]
          /\ pc = "Finish" => status[o] # "searching"
    BY DEF ProcessRecord
  <1>3. status[o] # "none"
    BY DEF ProcessRecord, IndInv, DispatcherOK
  <1>4. disp' \in DispRecord
    BY <1>2 DEF IndInv, TypeOK, DispRecord
  <1>5. DispatcherOK'
    BY <1>1, <1>2, <1>3 DEF IndInv, TypeOK, DispRecord, DispatcherOK, orderVars
  <1> QED
    BY <1>1, <1>4, <1>5, DispatcherRead DEF IndInv, TypeOK

LEMMA AlreadyOfferedStep ==
  ASSUME IndInv, NEW c \in Courier, AlreadyOffered(c)
  PROVE  IndInv'
  <1>1. UNCHANGED <<orderVars, offerVars, dispatch, due, timedOut, req>>
    BY DEF AlreadyOffered, tables, dispatchVars
  <1>2. disp' \in DispRecord /\ DispatcherOK'
    BY <1>1 DEF AlreadyOffered, IndInv, TypeOK, DispRecord, DispatcherOK,
                orderVars
  <1> QED
    BY <1>1, <1>2, DispatcherRead DEF IndInv, TypeOK

LEMMA CreateOfferStep ==
  ASSUME IndInv, CreateOffer
  PROVE  IndInv'
  <1> DEFINE o == disp.o
             c == disp.c
  <1>1. o \in Order /\ c \in Courier /\ status[o] # "none"
    BY DEF CreateOffer, IndInv, DispatcherOK
  <1>2. \/ UNCHANGED offerVars
        \/ /\ offer' = [offer EXCEPT ![o][c] = "proposed"]
           /\ asked' = [asked EXCEPT ![o][c] = FALSE]
    BY DEF CreateOffer, CreateOfferRow
  <1>3. UNCHANGED <<orderVars, dispatchVars, req>>
    BY DEF CreateOffer
  <1> HIDE DEF o, c
  <1>4. TablesOK' /\ Keeps
    <2>1. CASE offer' = [offer EXCEPT ![o][c] = "proposed"]
      BY <1>1, <1>3, <2>1, OfferWrite DEF OfferStatus
    <2>2. CASE UNCHANGED offerVars
      BY <1>3, <2>2, QuietTables DEF orderVars, offerVars, dispatchVars
    <2> QED
      BY <1>2, <2>1, <2>2
  <1>5. RequestsOK'
    BY <1>3, <1>4, SlotsKeep DEF IndInv
  <1>6. disp' \in DispRecord /\ DispatcherOK'
    BY <1>3 DEF CreateOffer, IndInv, TypeOK, DispRecord, DispatcherOK, orderVars
  <1>7. TypeOK'
    <2>1. /\ offer' \in [Order -> [Courier -> OfferStatus]]
          /\ asked' \in [Order -> [Courier -> BOOLEAN]]
      <3>1. CASE UNCHANGED offerVars
        BY <3>1 DEF IndInv, TypeOK, offerVars
      <3>2. CASE /\ offer' = [offer EXCEPT ![o][c] = "proposed"]
                 /\ asked' = [asked EXCEPT ![o][c] = FALSE]
        <4>1. "proposed" \in OfferStatus
          BY DEF OfferStatus
        <4> QED
          BY <1>1, <3>2, <4>1 DEF IndInv, TypeOK
      <3> QED
        BY <1>2, <3>1, <3>2
    <2> QED
      BY <1>3, <1>6, <2>1 DEF IndInv, TypeOK, orderVars, dispatchVars
  <1> QED
    BY <1>4, <1>5, <1>6, <1>7 DEF IndInv

\* The steps that let go of a record without finishing it.  Among them is
\* TimeoutSearch, because the graph refuses "not_found".
LEMMA LetGoStep ==
  ASSUME IndInv, UpdateRadius \/ TimeoutSearch \/ DispatchError
  PROVE  IndInv'
  <1>1. /\ UNCHANGED <<orderVars, offerVars, dispatch, timedOut, req>>
        /\ due' \in [Order -> BOOLEAN]
        /\ NextRecord(disp.batch, disp.late)
    BY GraphFacts DEF UpdateRadius, TimeoutSearch, DispatchError, tables,
       orderVars, offerVars, dispatchVars, IndInv, TypeOK
  <1>2. disp' \in DispRecord /\ DispatcherOK'
    <2>1. disp.batch \in SUBSET Order /\ disp.late \in SUBSET Order
      BY DEF IndInv, TypeOK, DispRecord
    <2>2. \A o \in disp.batch : status'[o] # "none"
      BY <1>1 DEF IndInv, DispatcherOK, orderVars
    <2> QED
      BY <1>1, <2>1, <2>2, NextRecordFacts
  <1> QED
    BY <1>1, <1>2, DispatcherRead

LEMMA FinishDispatchStep ==
  ASSUME IndInv, FinishDispatch
  PROVE  IndInv'
  <1>1. /\ disp.o \in Order
        /\ status[disp.o] # "none" /\ status[disp.o] # "searching"
    BY DEF FinishDispatch, IndInv, DispatcherOK
  <1>2. TablesOK' /\ Keeps
    BY <1>1 DEF FinishDispatch, IndInv, TypeOK, TablesOK, RowsAgree, orderVars,
       offerVars, SearchingIsDispatched, CourierWasOffered, Keeps
  <1>3. RequestsOK'
    BY <1>2, SlotsKeep DEF FinishDispatch, IndInv
  <1>4. disp' \in DispRecord /\ DispatcherOK'
    <2>1. disp.batch \in SUBSET Order /\ disp.late \in SUBSET Order
      BY DEF IndInv, TypeOK, DispRecord
    <2>2. \A o \in disp.batch : status'[o] # "none"
      BY DEF FinishDispatch, IndInv, DispatcherOK, orderVars
    <2> QED
      BY <2>1, <2>2, NextRecordFacts DEF FinishDispatch
  <1>5. TypeOK'
    BY <1>1, <1>4 DEF FinishDispatch, IndInv, TypeOK, orderVars, offerVars
  <1> QED
    BY <1>2, <1>3, <1>4, <1>5 DEF IndInv

LEMMA CrashStep ==
  ASSUME IndInv, Crash
  PROVE  IndInv'
  <1>1. TablesOK' /\ Keeps
    BY QuietTables DEF Crash, tables, orderVars, offerVars, dispatchVars
  <1>2. /\ req' \in [Request -> ReqRecord] /\ RequestsOK'
        /\ disp' \in DispRecord /\ DispatcherOK'
    BY DEF Crash, IdleReq, IdleDisp, ReqRecord, DispRecord, RequestsOK, Fit,
           DispatcherOK
  <1>3. TypeOK'
    BY <1>2 DEF Crash, IndInv, TypeOK, tables, orderVars, offerVars,
                dispatchVars
  <1> QED
    BY <1>1, <1>2, <1>3 DEF IndInv

LEMMA ClockStep ==
  ASSUME IndInv, NEW o \in Order, NextTickPasses(o) \/ TimeoutPasses(o)
  PROVE  IndInv'
  <1>1. UNCHANGED <<orderVars, offerVars, dispatch, disp, req>>
    BY DEF NextTickPasses, TimeoutPasses
  <1>2. TablesOK' /\ Keeps
    BY <1>1, QuietTables DEF orderVars, offerVars
  <1>3. RequestsOK' /\ DispatcherOK'
    BY <1>1, <1>2, SlotsKeep, DispatcherKeeps DEF IndInv
  <1>4. TypeOK'
    BY DEF NextTickPasses, TimeoutPasses, IndInv, TypeOK, orderVars, offerVars
  <1> QED
    BY <1>2, <1>3, <1>4 DEF IndInv

LEMMA StepIndInv ==
  ASSUME IndInv, [Next]_vars
  PROVE  IndInv'
  <1>1. CASE UNCHANGED vars
    BY <1>1 DEF vars, IndInv, TypeOK, TablesOK, RowsAgree, RequestsOK, Fit,
       DispatcherOK, SearchingIsDispatched, CourierWasOffered
  <1>2. ASSUME NEW r \in Request, HandlerStep(r)
        PROVE  IndInv'
    <2>1. ASSUME NEW o \in Order, NEW to \in StatusTargets,
                 HandleStatus(r, o, to)
          PROVE  IndInv'
      BY <2>1, ReadOrderStep, ConstantsAssumption DEF HandleStatus
    <2>2. ASSUME NEW o \in Order, WaitingAdvance(r, o) \/ WaypointNext(r, o)
          PROVE  IndInv'
      BY <2>2, ReadOrderStep DEF WaitingAdvance, WaypointNext, Status
    <2> QED
      BY <1>2, <2>1, <2>2, CreateOrderStep, OfferAcceptStep, QuietRequestSteps,
         AssignCourierStep, UpdateStatusStep DEF HandlerStep
  <1>3. CASE OneCallStep
    BY <1>3, OfferPriceStep, OfferDeclineStep, LifecycleUpdateStep
       DEF OneCallStep
  <1>4. CASE DispatcherStep
    BY <1>4, DispatchTickStep, ProcessRecordStep, AlreadyOfferedStep,
       CreateOfferStep, LetGoStep, FinishDispatchStep DEF DispatcherStep
  <1> QED
    BY <1>1, <1>2, <1>3, <1>4, CrashStep, ClockStep DEF Next

\* The inductive invariant.
THEOREM Invariance ==
  Spec => []IndInv
  BY InitIndInv, StepIndInv, PTL DEF Spec

\* Every variable keeps its type: in particular no order ever gets a status
\* that the graph does not have.
THEOREM TypeCorrect ==
  Spec => []TypeOK
  <1>1. IndInv => TypeOK
    BY DEF IndInv
  <1> QED
    BY <1>1, Invariance, PTL

\* The dispatcher never lets go of an order that is still searching.
THEOREM SearchIsServed ==
  Spec => []SearchingIsDispatched
  <1>1. IndInv => SearchingIsDispatched
    BY DEF IndInv, TablesOK
  <1> QED
    BY <1>1, Invariance, PTL

\* Nobody is given an order he has no offer for.
THEOREM OnlyOfferedCouriers ==
  Spec => []CourierWasOffered
  <1>1. IndInv => CourierWasOffered
    BY DEF IndInv, TablesOK
  <1> QED
    BY <1>1, Invariance, PTL
-----------------------------------------------------------------------------
\* Every step leaves the orders alone, or leaves the offers alone and does one
\* of these three things.
LEMMA OrderSteps ==
  ASSUME IndInv, [Next]_vars
  PROVE  \/ UNCHANGED orderVars
         \/ /\ UNCHANGED offerVars
            /\ \E o \in Order :
                 \/ /\ status[o] = "none" /\ SetStatus(o, "searching")
                    /\ UNCHANGED courier
                 \/ \E to \in Status : /\ Movable(o, to) /\ SetStatus(o, to)
                                       /\ UNCHANGED courier
                 \/ \E c \in Courier : /\ offer[o][c] # "none" /\ Assignable(o)
                                        /\ AssignCourierRow(o, c)
  <1> DEFINE Goal ==
        \/ UNCHANGED orderVars
        \/ /\ UNCHANGED offerVars
           /\ \E o \in Order :
                \/ /\ status[o] = "none" /\ SetStatus(o, "searching")
                   /\ UNCHANGED courier
                \/ \E to \in Status : /\ Movable(o, to) /\ SetStatus(o, to)
                                      /\ UNCHANGED courier
                \/ \E c \in Courier : /\ offer[o][c] # "none" /\ Assignable(o)
                                       /\ AssignCourierRow(o, c)
  <1>1. ASSUME NEW r \in Request, HandlerStep(r)
        PROVE  Goal
    <2>1. ASSUME NEW o \in Order, CreateOrder(r, o)
          PROVE  Goal
      BY <2>1 DEF CreateOrder
    <2>2. CASE AssignCourier(r)
      <3>1. /\ req[r].o \in Order /\ req[r].c \in Courier
            /\ offer[req[r].o][req[r].c] # "none"
        BY <2>2, RequestFacts DEF IndInv, AssignCourier, Fit
      <3> QED
        BY <2>2, <3>1 DEF AssignCourier
    <2>3. CASE UpdateStatus(r)
      <3>1. req[r].o \in Order /\ req[r].to \in Status
        BY <2>3, RequestFacts DEF IndInv, UpdateStatus, Fit
      <3> QED
        BY <2>3, <3>1 DEF UpdateStatus, orderVars
    <2> QED
      BY <1>1, <2>1, <2>2, <2>3
         DEF HandlerStep, WaitingAdvance, WaypointNext, HandleStatus, ReadOrder,
             OfferAccept, TriggerImmediate, Abort, tables
  <1>2. CASE OneCallStep
    BY <1>2 DEF OneCallStep, OfferPrice, OfferDecline, LifecycleUpdate
  <1>3. CASE DispatcherStep
    BY <1>3, GraphFacts
       DEF DispatcherStep, DispatchTick, ProcessRecord, AlreadyOffered,
           CreateOffer, UpdateRadius, TimeoutSearch, FinishDispatch,
           DispatchError, tables, orderVars
  <1>4. CASE Crash
    BY <1>4 DEF Crash, tables
  <1>5. ASSUME NEW o \in Order, NextTickPasses(o) \/ TimeoutPasses(o)
        PROVE  Goal
    BY <1>5 DEF NextTickPasses, TimeoutPasses
  <1>6. CASE UNCHANGED vars
    BY <1>6 DEF vars, orderVars
  <1> QED
    BY <1>1, <1>2, <1>3, <1>4, <1>5, <1>6 DEF Next

\* A late acceptance finds the graph in its way.
LEMMA StepCourierFixed ==
  ASSUME IndInv, [Next]_vars, NEW o \in Order,
         status[o] \notin {"none", "searching", "accepted"}
  PROVE  courier'[o] = courier[o] /\ status'[o] \notin {"searching", "accepted"}
  <1> DEFINE Goal == /\ courier'[o] = courier[o]
                     /\ status'[o] \notin {"searching", "accepted"}
  <1>1. /\ status[o] \in Status
        /\ status \in [Order -> Status \cup {"none"}]
        /\ courier \in [Order -> Courier \cup {NoCourier}]
    BY DEF IndInv, TypeOK
  <1>2. ASSUME UNCHANGED orderVars
        PROVE  Goal
    BY <1>2 DEF orderVars
  <1>3. ASSUME NEW x \in Order, status[x] = "none", SetStatus(x, "searching"),
               UNCHANGED courier
        PROVE  Goal
    BY <1>1, <1>3 DEF SetStatus
  <1>4. ASSUME NEW x \in Order, NEW to \in Status, Movable(x, to),
               SetStatus(x, to), UNCHANGED courier
        PROVE  Goal
    BY <1>1, <1>4, GraphFacts DEF Movable, SetStatus
  <1>5. ASSUME NEW x \in Order, NEW c \in Courier, Assignable(x),
               AssignCourierRow(x, c)
        PROVE  Goal
    <2>1. x # o
      BY <1>1, <1>5, GraphFacts DEF Assignable
    <2> QED
      BY <1>1, <1>5, <2>1 DEF AssignCourierRow, SetStatus
  <1> QED
    BY <1>2, <1>3, <1>4, <1>5, OrderSteps

\* Once an order has left "accepted" its courier is fixed and it never goes
\* back.
THEOREM CourierIsFixed ==
  Spec => CourierFixedOnceUnderWay
  <1>1. IndInv /\ [Next]_vars =>
          [\A o \in Order :
             status[o] \notin {"none", "searching", "accepted"} =>
               /\ courier'[o] = courier[o]
               /\ status'[o] \notin {"searching", "accepted"}]_vars
    BY StepCourierFixed
  <1> QED
    BY <1>1, Invariance, PTL DEF Spec, CourierFixedOnceUnderWay
-----------------------------------------------------------------------------
(* The courier's price.  It needs one more fact than IndInv: a price that   *)
(* is the courier's own is in a row, and CreateOffer leaves such a row be.  *)

AskedHasRow ==
  \A o \in Order, c \in Courier : asked[o][c] => offer[o][c] # "none"

\* Every step leaves the offers alone or does one of these three things.
LEMMA OfferSteps ==
  ASSUME IndInv, [Next]_vars
  PROVE  \/ UNCHANGED offerVars
         \/ \E o \in Order, c \in Courier :
              \/ OfferPrice(o, c)
              \/ Exists(o) /\ CreateOfferRow(o, c)
              \/ /\ offer[o][c] # "none"
                 /\ \E s \in {"accepted", "declined"} : SetOfferStatus(o, c, s)
                 /\ UNCHANGED asked
  <1> DEFINE Goal ==
        \/ UNCHANGED offerVars
        \/ \E o \in Order, c \in Courier :
             \/ OfferPrice(o, c)
             \/ Exists(o) /\ CreateOfferRow(o, c)
             \/ /\ offer[o][c] # "none"
                /\ \E s \in {"accepted", "declined"} : SetOfferStatus(o, c, s)
                /\ UNCHANGED asked
  <1>1. ASSUME NEW r \in Request, HandlerStep(r)
        PROVE  Goal
    <2>1. ASSUME NEW o \in Order, NEW c \in Courier, OfferAccept(r, o, c)
          PROVE  Goal
      BY <2>1 DEF OfferAccept, OfferRowFound
    <2> QED
      BY <1>1, <2>1
         DEF HandlerStep, CreateOrder, WaitingAdvance, WaypointNext,
             HandleStatus, ReadOrder, TriggerImmediate, AssignCourier,
             UpdateStatus, Abort, tables
  <1>2. CASE OneCallStep
    <2>1. ASSUME NEW o \in Order, NEW c \in Courier, OfferDecline(o, c)
          PROVE  Goal
      BY <2>1 DEF OfferDecline, OfferRowFound
    <2> QED
      BY <1>2, <2>1 DEF OneCallStep, LifecycleUpdate
  <1>3. CASE DispatcherStep
    <2>1. CASE CreateOffer
      <3>1. disp.o \in Order /\ disp.c \in Courier /\ Exists(disp.o)
        BY <2>1 DEF CreateOffer, IndInv, DispatcherOK, Exists
      <3> QED
        BY <2>1, <3>1 DEF CreateOffer
    <2> QED
      BY <1>3, <2>1
         DEF DispatcherStep, DispatchTick, ProcessRecord, AlreadyOffered,
             UpdateRadius, TimeoutSearch, FinishDispatch, DispatchError, tables
  <1>4. CASE Crash
    BY <1>4 DEF Crash, tables
  <1>5. ASSUME NEW o \in Order, NextTickPasses(o) \/ TimeoutPasses(o)
        PROVE  Goal
    BY <1>5 DEF NextTickPasses, TimeoutPasses
  <1>6. CASE UNCHANGED vars
    BY <1>6 DEF vars, offerVars
  <1> QED
    BY <1>1, <1>2, <1>3, <1>4, <1>5, <1>6 DEF Next

\* One pair's price and row after a step.
LEMMA StepAsked ==
  ASSUME IndInv, AskedHasRow, [Next]_vars,
         NEW x \in Order, NEW y \in Courier
  PROVE  /\ asked'[x][y] => offer'[x][y] # "none"
         /\ asked[x][y] => asked'[x][y]
  <1> DEFINE Goal == /\ asked'[x][y] => offer'[x][y] # "none"
                     /\ asked[x][y] => asked'[x][y]
  <1>1. /\ offer \in [Order -> [Courier -> OfferStatus]]
        /\ asked \in [Order -> [Courier -> BOOLEAN]]
        /\ asked[x][y] => offer[x][y] # "none"
    BY DEF IndInv, TypeOK, AskedHasRow
  <1>2. ASSUME UNCHANGED offerVars
        PROVE  Goal
    BY <1>1, <1>2 DEF offerVars
  <1>3. ASSUME NEW o \in Order, NEW c \in Courier, OfferPrice(o, c)
        PROVE  Goal
    BY <1>1, <1>3 DEF OfferPrice
  <1>4. ASSUME NEW o \in Order, NEW c \in Courier, CreateOfferRow(o, c)
        PROVE  Goal
    <2>1. CASE offer[o][c] = "none"
      BY <1>1, <1>4, <2>1 DEF CreateOfferRow
    <2>2. CASE offer[o][c] # "none"
      BY <1>2, <1>4, <2>2 DEF CreateOfferRow
    <2> QED
      BY <2>1, <2>2
  <1>5. ASSUME NEW o \in Order, NEW c \in Courier, offer[o][c] # "none",
               NEW s \in {"accepted", "declined"}, SetOfferStatus(o, c, s),
               UNCHANGED asked
        PROVE  Goal
    BY <1>1, <1>5 DEF SetOfferStatus
  <1> HIDE DEF Goal
  <1>6. Goal
    BY <1>2, <1>3, <1>4, <1>5, OfferSteps
  <1> QED
    BY <1>6 DEF Goal

\* The dispatcher's stub never takes the place of a price a courier named.
THEOREM AskedPriceIsKept ==
  Spec => AskedPriceKept
  <1>1. Init => AskedHasRow
    BY DEF Init, AskedHasRow
  <1>2. IndInv /\ AskedHasRow /\ [Next]_vars => AskedHasRow'
    BY StepAsked DEF AskedHasRow
  <1>3. IndInv /\ AskedHasRow /\ [Next]_vars =>
          [\A o \in Order, c \in Courier : asked[o][c] => asked'[o][c]]_vars
    BY StepAsked
  <1> QED
    BY <1>1, <1>2, <1>3, Invariance, PTL DEF Spec, AskedPriceKept
-----------------------------------------------------------------------------
(* Orders and offers implement CourierBook.                                 *)

LEMMA InitBook ==
  Init => Book!Init
  BY DEF Init, Book!Init, Stages, StageOf, Status, Canceled, TermsOfOffers,
         TermsOf

\* One written status is one moved stage.
LEMMA StagesOfWrite ==
  ASSUME TypeOK, NEW o \in Order, NEW s \in Status, SetStatus(o, s)
  PROVE  Stages' = [Stages EXCEPT ![o] = StageOf[s]]
  <1>1. \A x \in Order : status'[x] = IF x = o THEN s ELSE status[x]
    BY DEF SetStatus, TypeOK
  <1> QED
    BY <1>1 DEF Stages

\* Offers of one pair written are its terms set.
LEMMA TermsOfWrite ==
  ASSUME NEW o \in Order, NEW c \in Courier,
         \A x \in Order, y \in Courier : x # o \/ y # c =>
           offer'[x][y] = offer[x][y] /\ asked'[x][y] = asked[x][y]
  PROVE  TermsOfOffers' =
           [TermsOfOffers EXCEPT ![o][c] = TermsOf(offer'[o][c], asked'[o][c])]
  <1> DEFINE t == TermsOf(offer'[o][c], asked'[o][c])
             old(x, y) == TermsOf(offer[x][y], asked[x][y])
             new(x, y) == TermsOf(offer'[x][y], asked'[x][y])
  <1>1. \A x \in Order, y \in Courier :
          new(x, y) = IF x = o /\ y = c THEN t ELSE old(x, y)
    OBVIOUS
  <1>2. /\ TermsOfOffers = [x \in Order |-> [y \in Courier |-> old(x, y)]]
        /\ TermsOfOffers' = [x \in Order |-> [y \in Courier |-> new(x, y)]]
    BY DEF TermsOfOffers
  <1> HIDE DEF t, old, new
  <1>3. TermsOfOffers' = [TermsOfOffers EXCEPT ![o][c] = t]
    BY <1>1, <1>2
  <1> QED
    BY <1>3 DEF t

\* What is written of an order that is there moves its stage as the book
\* allows, or leaves it.
LEMMA BookOfMove ==
  ASSUME IndInv, NEW o \in Order, NEW to \in Status, Movable(o, to),
         SetStatus(o, to), UNCHANGED <<courier, offerVars>>
  PROVE  UNCHANGED <<Stages, courier, TermsOfOffers>> \/ Book!Next
  <1> DEFINE from == status[o]
  <1>1. Stages' = [Stages EXCEPT ![o] = StageOf[to]]
    BY StagesOfWrite DEF IndInv
  <1>2. UNCHANGED <<courier, TermsOfOffers>>
    BY DEF offerVars, TermsOfOffers
  <1>3. Stages[o] = StageOf[from] /\ Stages = [x \in Order |-> Stages[x]]
    BY DEF Stages
  <1>4. from \in Status /\ <<from, to>> \in Edges
    BY DEF Movable, Exists, CanTransition, IndInv, TypeOK
  <1>5. \/ StageOf[from] = StageOf[to]
        \/ StageOf[from] = "open" /\ StageOf[to] = "given"
        \/ StageOf[from] = "given" /\ StageOf[to] = "underway"
        \/ /\ StageOf[from] \in {"given", "underway"}
           /\ StageOf[to] = "delivered"
        \/ /\ StageOf[from] \in {"open", "given", "underway"}
           /\ StageOf[to] = "canceled"
    BY <1>4 DEF Edges, Row, StageOf, Status, Canceled
  <1> HIDE DEF from
  <1>6. CASE StageOf[from] = StageOf[to]
    BY <1>1, <1>2, <1>3, <1>6
  <1>7. CASE StageOf[from] = "open" /\ StageOf[to] = "given"
    BY <1>1, <1>2, <1>3, <1>7 DEF Book!Next, Book!Withhold, Book!Moves
  <1>8. CASE StageOf[from] = "given" /\ StageOf[to] = "underway"
    BY <1>1, <1>2, <1>3, <1>8 DEF Book!Next, Book!SetOut, Book!Moves
  <1>9. CASE /\ StageOf[from] \in {"given", "underway"}
             /\ StageOf[to] = "delivered"
    BY <1>1, <1>2, <1>3, <1>9 DEF Book!Next, Book!Deliver, Book!Moves
  <1>10. CASE /\ StageOf[from] \in {"open", "given", "underway"}
              /\ StageOf[to] = "canceled"
    BY <1>1, <1>2, <1>3, <1>10 DEF Book!Next, Book!Cancel, Book!Moves
  <1> QED
    BY <1>5, <1>6, <1>7, <1>8, <1>9, <1>10

\* An acceptance that reaches the order gives it to somebody with an offer.
LEMMA BookOfAssign ==
  ASSUME IndInv, NEW o \in Order, NEW c \in Courier, offer[o][c] # "none",
         Assignable(o), AssignCourierRow(o, c), UNCHANGED offerVars
  PROVE  Book!Next
  <1>1. Stages' = [Stages EXCEPT ![o] = "given"]
    <2>1. "accepted" \in Status /\ StageOf["accepted"] = "given"
      BY DEF StageOf, Status, Canceled
    <2> QED
      BY <2>1, StagesOfWrite DEF IndInv, AssignCourierRow
  <1>2. courier' = [courier EXCEPT ![o] = c] /\ UNCHANGED TermsOfOffers
    BY DEF AssignCourierRow, offerVars, TermsOfOffers
  <1>3. Stages[o] \in {"open", "given"}
    <2>1. status[o] \in {"searching", "accepted"}
      BY GraphFacts DEF Assignable, Exists, IndInv, TypeOK
    <2> QED
      BY <2>1 DEF Stages, StageOf, Status, Canceled
  <1>4. TermsOfOffers[o][c] # "none"
    BY DEF TermsOfOffers, TermsOf
  <1> QED
    BY <1>1, <1>2, <1>3, <1>4 DEF Book!Next, Book!Give, Book!Moves

\* A step that leaves the orders alone: somebody is invited, names a price, or
\* answers, which is no term.
LEMMA BookOfOffer ==
  ASSUME IndInv, AskedHasRow, [Next]_vars, UNCHANGED orderVars
  PROVE  UNCHANGED <<Stages, courier, TermsOfOffers>> \/ Book!Next
  <1>1. UNCHANGED <<Stages, courier>>
    BY DEF orderVars, Stages
  <1>2. /\ offer \in [Order -> [Courier -> OfferStatus]]
        /\ asked \in [Order -> [Courier -> BOOLEAN]]
        /\ \A x \in Order, y \in Courier :
             TermsOfOffers[x][y] = TermsOf(offer[x][y], asked[x][y])
        /\ TermsOfOffers = [x \in Order |-> [y \in Courier |->
                             TermsOfOffers[x][y]]]
    BY DEF IndInv, TypeOK, TermsOfOffers
  <1>3. CASE UNCHANGED offerVars
    BY <1>1, <1>3 DEF offerVars, TermsOfOffers
  <1>4. ASSUME NEW o \in Order, NEW c \in Courier, OfferPrice(o, c)
        PROVE  UNCHANGED TermsOfOffers \/ Book!NamePrice(o, c)
    <2>1. TermsOfOffers' = [TermsOfOffers EXCEPT ![o][c] = "named"]
      <3>1. TermsOf(offer'[o][c], asked'[o][c]) = "named"
        BY <1>2, <1>4 DEF OfferPrice, TermsOf
      <3>2. \A x \in Order, y \in Courier : x # o \/ y # c =>
              offer'[x][y] = offer[x][y] /\ asked'[x][y] = asked[x][y]
        BY <1>2, <1>4 DEF OfferPrice
      <3>3. TermsOfOffers' = [TermsOfOffers EXCEPT
                               ![o][c] = TermsOf(offer'[o][c], asked'[o][c])]
        BY <3>2, TermsOfWrite
      <3> QED
        BY <3>1, <3>3
    <2>2. Stages[o] # "none"
      BY <1>4 DEF OfferPrice, Exists, Stages, StageOf, Status, Canceled, IndInv,
         TypeOK
    <2>3. CASE TermsOfOffers[o][c] = "named"
      BY <1>2, <2>1, <2>3
    <2>4. CASE TermsOfOffers[o][c] # "named"
      BY <1>1, <2>1, <2>2, <2>4 DEF Book!NamePrice
    <2> QED
      BY <2>3, <2>4
  <1>5. ASSUME NEW o \in Order, NEW c \in Courier, Exists(o),
               CreateOfferRow(o, c)
        PROVE  UNCHANGED TermsOfOffers \/ Book!Invite(o, c)
    <2>1. CASE offer[o][c] # "none"
      BY <1>5, <2>1 DEF CreateOfferRow, offerVars, TermsOfOffers
    <2>2. CASE offer[o][c] = "none"
      <3>1. TermsOf(offer'[o][c], asked'[o][c]) = "invited"
        BY <1>2, <1>5, <2>2 DEF CreateOfferRow, TermsOf
      <3>2. \A x \in Order, y \in Courier : x # o \/ y # c =>
              offer'[x][y] = offer[x][y] /\ asked'[x][y] = asked[x][y]
        BY <1>2, <1>5, <2>2 DEF CreateOfferRow
      <3>3. TermsOfOffers' = [TermsOfOffers EXCEPT
                               ![o][c] = TermsOf(offer'[o][c], asked'[o][c])]
        BY <3>2, TermsOfWrite
      <3>4. TermsOfOffers[o][c] = "none"
        BY <1>2, <2>2 DEF TermsOf
      <3>5. Stages[o] # "none"
        BY <1>5 DEF Exists, Stages, StageOf, Status, Canceled, IndInv, TypeOK
      <3> QED
        BY <1>1, <3>1, <3>3, <3>4, <3>5 DEF Book!Invite
    <2> QED
      BY <2>1, <2>2
  <1>6. ASSUME NEW o \in Order, NEW c \in Courier, offer[o][c] # "none",
               NEW s \in {"accepted", "declined"}, SetOfferStatus(o, c, s),
               UNCHANGED asked
        PROVE  UNCHANGED TermsOfOffers
    <2>1. \A x \in Order, y \in Courier :
            TermsOf(offer'[x][y], asked'[x][y]) = TermsOf(offer[x][y], asked[x][y])
      BY <1>2, <1>6 DEF SetOfferStatus, TermsOf
    <2> QED
      BY <2>1 DEF TermsOfOffers
  <1> QED
    BY <1>1, <1>3, <1>4, <1>5, <1>6, OfferSteps DEF Book!Next

LEMMA StepBook ==
  IndInv /\ AskedHasRow /\ [Next]_vars =>
    [Book!Next]_<<Stages, courier, TermsOfOffers>>
  <1> SUFFICES ASSUME IndInv, AskedHasRow, [Next]_vars
               PROVE  UNCHANGED <<Stages, courier, TermsOfOffers>> \/ Book!Next
    OBVIOUS
  <1>1. ASSUME NEW o \in Order, status[o] = "none", SetStatus(o, "searching"),
               UNCHANGED <<courier, offerVars>>
        PROVE  Book!Next
    <2>1. "searching" \in Status /\ StageOf["searching"] = "open"
      BY DEF StageOf, Status, Canceled
    <2>2. Stages' = [Stages EXCEPT ![o] = "open"]
      BY <1>1, <2>1, StagesOfWrite DEF IndInv
    <2>3. Stages[o] = "none"
      BY <1>1 DEF Stages, StageOf, Status, Canceled
    <2>4. UNCHANGED <<courier, TermsOfOffers>>
      BY <1>1 DEF offerVars, TermsOfOffers
    <2> QED
      BY <2>2, <2>3, <2>4 DEF Book!Next, Book!Place, Book!Moves
  <1> QED
    BY <1>1, OrderSteps, BookOfMove, BookOfAssign, BookOfOffer

\* An order goes one way, is given only to somebody invited or who named a
\* price, and keeps whoever has it once under way; a named price stays named:
\* whatever requests and dispatcher do to each other.
THEOREM OrdersImplementBook ==
  Spec => ImplementsCourierBook
  <1>1. Init => Book!Init
    BY InitBook
  <1>2. Init => AskedHasRow
    BY DEF Init, AskedHasRow
  <1>3. IndInv /\ AskedHasRow /\ [Next]_vars => AskedHasRow'
    BY StepAsked DEF AskedHasRow
  <1>4. IndInv /\ AskedHasRow /\ [Next]_vars =>
          [Book!Next]_<<Stages, courier, TermsOfOffers>>
    BY StepBook
  <1> QED
    BY <1>1, <1>2, <1>3, <1>4, Invariance, PTL
       DEF Spec, ImplementsCourierBook, Book!Spec
=============================================================================
