---------------------------- MODULE BillingProofs ----------------------------
(***************************************************************************)
(* Theorems about what is paid and billed: invoices, for any sets of       *)
(* invoices, products and callbacks; the money of one ride, for any set of *)
(* handlers; and the ride library, for any route, free window and button   *)
(* policies.                                                               *)
(***************************************************************************)
EXTENDS Invoices, TaxiMoney, RideLibrary, TLAPS

(* Invoices.  The inductive invariant adds to the properties what a        *)
(* callback in progress relies on although it read the tables some steps   *)
(* ago, and that nothing exists of an invoice that was not created.        *)

\* What a callback relies on when the provider's side is ch, the targets are
\* tg and what was granted is gr.
Fit(h, ch, tg, gr) ==
  /\ h.pc \notin {"undelivered", "done"} => h.i \in Invoice /\ ch[h.i] = "paid"
  /\ \A k \in h.todo : h.i \in Invoice /\ tg[h.i][k] # "none"
  /\ \A k \in h.late :
       h.i \in Invoice /\ tg[h.i][k] = "processed" /\ k \notin h.todo
  /\ h.pc = "undelivered" => h.todo = {} /\ h.late = {}
  /\ h.pc = "MarkProcessed" => h.k \in Target /\ gr[h.i][h.k] # {}

HooksOK == \A d \in Delivery : Fit(hook[d], charge, target, granted)

\* Of an invoice that was not created there is nothing, and the provider
\* learns of it last.
NothingBefore ==
  \A i \in Invoice :
    /\ payment[i] \in {"none", "AddTarget"} => charge[i] = "none"
    /\ payment[i] = "none" => \A k \in Target : target[i][k] = "none"

TargetsWanted ==
  \A i \in Invoice, k \in Target : target[i][k] # "none" => k \in wanted[i]

\* Only a callback that was received grants anything.
GrantedByReceived ==
  \A d \in Delivery, i \in Invoice, p \in Product :
    d \in granted[i][p] => hook[d].pc # "undelivered"

TablesOK ==
  /\ NothingBefore
  /\ TargetsWanted
  /\ GrantedWasPaid
  /\ ProcessedWasGranted
  /\ PaymentSeesTargets

IndInv ==
  /\ TypeOK
  /\ TablesOK
  /\ HooksOK
  /\ GrantedByReceived
  /\ RepeatedCallbackGrantsNothing

\* What no step undoes.
Keeps ==
  \A i \in Invoice :
    /\ charge[i] = "paid" => charge'[i] = "paid"
    /\ \A k \in Target :
         /\ target[i][k] # "none" => target'[i][k] # "none"
         /\ target[i][k] = "processed" => target'[i][k] = "processed"
         /\ granted[i][k] # {} => granted'[i][k] # {}
-----------------------------------------------------------------------------
LEMMA TargetIsProduct == Target \subseteq Product
  BY DEF Target

\* A callback that does not move relies on what it relied on.
LEMMA FitKept ==
  ASSUME TypeOK, HooksOK, Keeps, NEW d \in Delivery
  PROVE  Fit(hook[d], charge', target', granted')
  <1>1. hook[d] \in HookRecord /\ Fit(hook[d], charge, target, granted)
    BY DEF TypeOK, HooksOK
  <1>2. hook[d].todo \subseteq Target /\ hook[d].late \subseteq Target
    BY <1>1 DEF HookRecord
  <1> QED
    BY <1>1, <1>2 DEF Fit, Keeps

\* One callback moves; nothing is granted.
LEMMA HookStep ==
  ASSUME IndInv, Keeps, NEW d \in Delivery, NEW h \in HookRecord,
         h.pc # "undelivered", Fit(h, charge', target', granted'),
         hook' = [hook EXCEPT ![d] = h],
         \A e \in Delivery, i \in Invoice, p \in Product :
           e \in granted'[i][p] =>
             \/ e \in granted[i][p] /\ (e = d => h.late = hook[d].late)
             \/ e = d /\ p \notin h.late
  PROVE  /\ hook' \in [Delivery -> HookRecord]
         /\ HooksOK'
         /\ GrantedByReceived'
         /\ RepeatedCallbackGrantsNothing'
  <1>1. hook' \in [Delivery -> HookRecord]
    BY DEF IndInv, TypeOK
  <1>2. ASSUME NEW e \in Delivery
        PROVE  hook'[e] = IF e = d THEN h ELSE hook[e]
    BY DEF IndInv, TypeOK
  <1>3. HooksOK'
    <2>1. ASSUME NEW e \in Delivery
          PROVE  Fit(hook'[e], charge', target', granted')
      BY <1>2, FitKept DEF IndInv
    <2> QED
      BY <2>1 DEF HooksOK
  <1>4. GrantedByReceived'
    BY <1>2 DEF IndInv, GrantedByReceived
  <1>5. RepeatedCallbackGrantsNothing'
    BY <1>2, TargetIsProduct DEF IndInv, RepeatedCallbackGrantsNothing
  <1> QED
    BY <1>1, <1>3, <1>4, <1>5

\* No callback moves, nothing is granted.
LEMMA HooksStill ==
  ASSUME IndInv, Keeps, UNCHANGED <<hook, granted>>
  PROVE  HooksOK' /\ GrantedByReceived' /\ RepeatedCallbackGrantsNothing'
  <1>1. HooksOK'
    BY FitKept DEF IndInv, HooksOK
  <1> QED
    BY <1>1 DEF IndInv, GrantedByReceived, RepeatedCallbackGrantsNothing

\* What a callback knows of itself.
LEMMA HookFacts ==
  ASSUME IndInv, NEW d \in Delivery
  PROVE  hook[d] \in HookRecord /\ Fit(hook[d], charge, target, granted)
  BY DEF IndInv, TypeOK, HooksOK
-----------------------------------------------------------------------------
LEMMA InitIndInv ==
  ASSUME Init
  PROVE  IndInv
  <1>1. TypeOK
    BY DEF Init, TypeOK, NoHook, HookRecord, InvoiceStatus
  <1>2. TablesOK
    BY TargetIsProduct
       DEF Init, TablesOK, NothingBefore, TargetsWanted, GrantedWasPaid,
           ProcessedWasGranted, PaymentSeesTargets
  <1>3. HooksOK
    BY DEF Init, HooksOK, Fit, NoHook
  <1>4. GrantedByReceived /\ RepeatedCallbackGrantsNothing
    BY TargetIsProduct
       DEF Init, GrantedByReceived, RepeatedCallbackGrantsNothing
  <1> QED
    BY <1>1, <1>2, <1>3, <1>4 DEF IndInv
-----------------------------------------------------------------------------
(* The request.                                                            *)

LEMMA CreateInvoiceStep ==
  ASSUME IndInv, NEW i \in Invoice, CreateInvoice(i)
  PROVE  IndInv'
  <1> USE DEF CreateInvoice, SetStatus, SetPayment
  <1>1. Keeps
    BY DEF Keeps
  <1>2. PICK products \in SUBSET Product :
          wanted' = [wanted EXCEPT ![i] = products]
    OBVIOUS
  <1>3. TypeOK'
    BY <1>2 DEF IndInv, TypeOK, InvoiceStatus
  <1>4. charge[i] = "none" /\ \A k \in Target : target[i][k] = "none"
    BY DEF IndInv, TablesOK, NothingBefore
  <1>5. \A j \in Invoice : j # i => wanted'[j] = wanted[j]
    BY <1>2 DEF IndInv, TypeOK
  <1>6. NothingBefore' /\ TargetsWanted' /\ GrantedWasPaid'
    BY <1>4, <1>5 DEF IndInv, TypeOK, TablesOK, NothingBefore, TargetsWanted,
                      GrantedWasPaid
  <1>7. ProcessedWasGranted' /\ PaymentSeesTargets'
    BY <1>4, <1>5 DEF IndInv, TablesOK, ProcessedWasGranted, PaymentSeesTargets
  <1> QED
    BY <1>1, <1>3, <1>6, <1>7, HooksStill DEF IndInv, TablesOK

LEMMA AddTargetStep ==
  ASSUME IndInv, NEW i \in Invoice, NEW k \in Target, AddTarget(i, k)
  PROVE  IndInv'
  <1> USE DEF AddTarget, SetTarget
  <1>1. TypeOK'
    BY DEF IndInv, TypeOK
  <1>2. \A j \in Invoice, l \in Target :
          target'[j][l] = IF j = i /\ l = k THEN "stored" ELSE target[j][l]
    BY DEF IndInv, TypeOK
  <1>3. Keeps
    BY <1>2 DEF Keeps
  <1>4. TablesOK'
    BY <1>2 DEF IndInv, TablesOK, NothingBefore, TargetsWanted, GrantedWasPaid,
                ProcessedWasGranted, PaymentSeesTargets
  <1> QED
    BY <1>1, <1>3, <1>4, HooksStill DEF IndInv

LEMMA CreatePaymentLinkStep ==
  ASSUME IndInv, NEW i \in Invoice, CreatePaymentLink(i)
  PROVE  IndInv'
  <1> USE DEF CreatePaymentLink, SetPayment
  <1>1. TypeOK'
    BY DEF IndInv, TypeOK
  <1>2. /\ \A j \in Invoice : j # i => charge'[j] = charge[j]
        /\ charge[i] = "none" /\ charge'[i] \in {"none", "open"}
        /\ payment'[i] \in {"SaveStatus", "SaveError"}
        /\ \A j \in Invoice : j # i => payment'[j] = payment[j]
    BY DEF IndInv, TypeOK, TablesOK, NothingBefore
  <1>3. Keeps
    BY <1>2 DEF Keeps
  <1>4. NothingBefore' /\ TargetsWanted' /\ GrantedWasPaid'
    BY <1>2 DEF IndInv, TablesOK, NothingBefore, TargetsWanted, GrantedWasPaid
  <1>5. ProcessedWasGranted' /\ PaymentSeesTargets'
    BY <1>2 DEF IndInv, TablesOK, ProcessedWasGranted, PaymentSeesTargets,
                AllStored
  <1> QED
    BY <1>1, <1>3, <1>4, <1>5, HooksStill DEF IndInv, TablesOK

\* The request's other steps: its last statement, its end, and the payment.
LEMMA OtherRequestSteps ==
  ASSUME IndInv, NEW i \in Invoice,
         SaveStatus(i) \/ AbortPayment(i) \/ Pay(i)
  PROVE  IndInv'
  <1> USE DEF SaveStatus, AbortPayment, Pay, SetStatus, SetPayment, request
  <1>1. TypeOK'
    BY DEF IndInv, TypeOK, InvoiceStatus
  <1>2. /\ UNCHANGED <<target, wanted, granted, hook>>
        /\ \A j \in Invoice :
             /\ charge'[j] # charge[j] => charge[j] = "open"
             /\ payment'[j] # payment[j] =>
                  payment[j] # "none" /\ payment'[j] = "done"
    BY DEF IndInv, TypeOK
  <1>3. Keeps
    BY <1>2 DEF Keeps
  <1>4. NothingBefore' /\ TargetsWanted' /\ GrantedWasPaid'
    BY <1>2 DEF IndInv, TablesOK, NothingBefore, TargetsWanted, GrantedWasPaid
  <1>5. ProcessedWasGranted' /\ PaymentSeesTargets'
    BY <1>2 DEF IndInv, TablesOK, ProcessedWasGranted, PaymentSeesTargets
  <1> QED
    BY <1>1, <1>2, <1>3, <1>4, <1>5, HooksStill DEF IndInv, TablesOK
-----------------------------------------------------------------------------
(* The callbacks.                                                          *)

\* A callback's step that grants and marks nothing.
LEMMA QuietHookStep ==
  ASSUME IndInv, UNCHANGED <<request, charge, granted>>,
         status' \in [Invoice -> InvoiceStatus],
         NEW d \in Delivery, NEW h \in HookRecord, h.pc # "undelivered",
         Fit(h, charge, target, granted), hook' = [hook EXCEPT ![d] = h],
         h.late = hook[d].late \/ hook[d].pc = "undelivered"
  PROVE  IndInv'
  <1>1. Keeps /\ TablesOK'
    BY DEF IndInv, TablesOK, Keeps, NothingBefore, TargetsWanted,
           GrantedWasPaid, ProcessedWasGranted, PaymentSeesTargets, request
  <1>2. \A e \in Delivery, i \in Invoice, p \in Product :
          e \in granted'[i][p] =>
            \/ e \in granted[i][p] /\ (e = d => h.late = hook[d].late)
            \/ e = d /\ p \notin h.late
    BY DEF IndInv, GrantedByReceived
  <1>3. Fit(h, charge', target', granted')
    BY DEF request
  <1>4. /\ hook' \in [Delivery -> HookRecord]
        /\ HooksOK' /\ GrantedByReceived' /\ RepeatedCallbackGrantsNothing'
    BY <1>1, <1>2, <1>3, HookStep
  <1>5. TypeOK'
    BY <1>4 DEF IndInv, TypeOK, request
  <1> QED
    BY <1>1, <1>4, <1>5 DEF IndInv

LEMMA CallbackStep ==
  ASSUME IndInv, NEW d \in Delivery, NEW i \in Invoice,
         NEW s \in {"success", "failed", "other"}, Callback(d, i, s)
  PROVE  IndInv'
  <1>1. /\ hook[d] \in HookRecord /\ hook[d].pc = "undelivered"
        /\ hook[d].todo = {} /\ hook[d].late = {}
    BY HookFacts DEF Callback, Fit
  <1>2. CASE IsSuccess(s)
    <2> DEFINE h == [hook[d] EXCEPT
                       !.pc = "AddResponses", !.i = i,
                       !.late = {k \in Target : target[i][k] = "processed"}]
    <2>1. h \in HookRecord /\ h.pc # "undelivered"
      BY <1>1 DEF HookRecord
    <2>2. charge[i] = "paid"
      BY <1>2 DEF Callback, Says, IsSuccess
    <2>3. Fit(h, charge, target, granted)
      BY <1>1, <2>2 DEF Fit, HookRecord
    <2>4. hook' = [hook EXCEPT ![d] = h]
      BY <1>1, <1>2 DEF Callback, IndInv, TypeOK, HookRecord
    <2>5. status' \in [Invoice -> InvoiceStatus]
      BY <1>2 DEF Callback, SetStatus, IndInv, TypeOK, InvoiceStatus
    <2> HIDE DEF h
    <2> QED
      BY <1>1, <2>1, <2>3, <2>4, <2>5, QuietHookStep DEF Callback
  <1>3. CASE ~IsSuccess(s)
    <2> DEFINE h == [hook[d] EXCEPT !.pc = "done", !.i = i]
    <2>1. h \in HookRecord /\ h.pc # "undelivered"
      BY <1>1 DEF HookRecord
    <2>2. Fit(h, charge, target, granted)
      BY <1>1 DEF Fit, HookRecord
    <2>3. hook' = [hook EXCEPT ![d] = h]
      BY <1>1, <1>3 DEF Callback, IndInv, TypeOK, HookRecord
    <2>4. status' \in [Invoice -> InvoiceStatus]
      BY <1>3 DEF Callback, SetStatus, IsSuccess, IndInv, TypeOK, InvoiceStatus
    <2> HIDE DEF h
    <2> QED
      BY <1>1, <2>1, <2>2, <2>3, <2>4, QuietHookStep DEF Callback
  <1> QED
    BY <1>2, <1>3

LEMMA ListTargetsStep ==
  ASSUME IndInv, NEW d \in Delivery, ListTargets(d)
  PROVE  IndInv'
  <1> DEFINE h == [hook[d] EXCEPT !.pc = "Execute",
                                  !.todo = Unprocessed(hook[d].i)]
  <1>1. /\ hook[d] \in HookRecord
        /\ hook[d].pc = "ListTargets"
        /\ Fit(hook[d], charge, target, granted)
    BY HookFacts DEF ListTargets
  <1>2. h \in HookRecord /\ h.pc = "Execute" /\ h.late = hook[d].late
    BY <1>1 DEF HookRecord, Unprocessed
  <1>3. Fit(h, charge, target, granted)
    BY <1>1 DEF Fit, HookRecord, Unprocessed
  <1>4. hook' = [hook EXCEPT ![d] = h]
    BY DEF ListTargets, IndInv, TypeOK, HookRecord
  <1>5. status' \in [Invoice -> InvoiceStatus]
    BY DEF ListTargets, IndInv, TypeOK
  <1> HIDE DEF h
  <1> QED
    BY <1>2, <1>3, <1>4, <1>5, QuietHookStep DEF ListTargets

LEMMA EndCallbackStep ==
  ASSUME IndInv, NEW d \in Delivery, EndCallback(d)
  PROVE  IndInv'
  <1> DEFINE h == [hook[d] EXCEPT !.pc = "done"]
  <1>1. hook[d] \in HookRecord /\ Fit(hook[d], charge, target, granted)
    BY HookFacts
  <1>2. h \in HookRecord /\ h.pc = "done" /\ h.late = hook[d].late
    BY <1>1 DEF HookRecord
  <1>3. Fit(h, charge, target, granted)
    BY <1>1 DEF Fit, HookRecord
  <1>4. hook' = [hook EXCEPT ![d] = h]
    BY DEF EndCallback, Goto, IndInv, TypeOK, HookRecord
  <1>5. status' \in [Invoice -> InvoiceStatus]
    BY DEF EndCallback, IndInv, TypeOK
  <1> HIDE DEF h
  <1> QED
    BY <1>2, <1>3, <1>4, <1>5, QuietHookStep DEF EndCallback

LEMMA MarkTargetProcessedStep ==
  ASSUME IndInv, NEW d \in Delivery, MarkTargetProcessed(d)
  PROVE  IndInv'
  <1> DEFINE i == hook[d].i
             k == hook[d].k
             h == [hook[d] EXCEPT !.pc = "Execute"]
  <1>1. /\ hook[d] \in HookRecord /\ Fit(hook[d], charge, target, granted)
        /\ hook[d].pc = "MarkProcessed"
    BY HookFacts DEF MarkTargetProcessed
  <1>2. i \in Invoice /\ k \in Target /\ granted[i][k] # {} /\ k \in wanted[i]
    BY <1>1, TargetIsProduct DEF Fit, IndInv, TablesOK, GrantedWasPaid
  <1>3. h \in HookRecord /\ h.pc = "Execute" /\ h.late = hook[d].late
    BY <1>1 DEF HookRecord
  <1>4. hook' = [hook EXCEPT ![d] = h]
    BY DEF MarkTargetProcessed, Goto, IndInv, TypeOK, HookRecord
  <1>5. /\ UNCHANGED <<status, wanted, payment, charge, granted>>
        /\ target' = [target EXCEPT ![i][k] = "processed"] \/ UNCHANGED target
    BY DEF MarkTargetProcessed, SetTarget
  <1>6. Fit(h, charge, target, granted)
    BY <1>1 DEF Fit, HookRecord
  <1> HIDE DEF h, i, k
  <1>7. \A j \in Invoice, l \in Target :
          \/ target'[j][l] = target[j][l]
          \/ j = i /\ l = k /\ target'[j][l] = "processed"
    <2>1. CASE target' = [target EXCEPT ![i][k] = "processed"]
      BY <1>2, <2>1 DEF IndInv, TypeOK
    <2>2. CASE UNCHANGED target
      BY <2>2
    <2> QED
      BY <1>5, <2>1, <2>2
  <1>8. Keeps
    BY <1>5, <1>7 DEF Keeps
  <1>9. Fit(h, charge', target', granted')
    <2>1. h.todo \subseteq Target /\ h.late \subseteq Target
      BY <1>3 DEF HookRecord
    <2> QED
      BY <1>3, <1>5, <1>6, <1>8, <2>1 DEF Fit, Keeps
  <1>10. \A e \in Delivery, j \in Invoice, p \in Product :
           e \in granted'[j][p] =>
             \/ e \in granted[j][p] /\ (e = d => h.late = hook[d].late)
             \/ e = d /\ p \notin h.late
    BY <1>3, <1>5
  <1>11. /\ hook' \in [Delivery -> HookRecord]
         /\ HooksOK' /\ GrantedByReceived' /\ RepeatedCallbackGrantsNothing'
    BY <1>3, <1>4, <1>8, <1>9, <1>10, HookStep
  <1>12. TypeOK'
    <2>1. target' \in [Invoice -> [Target -> {"none", "stored", "processed"}]]
      <3>1. CASE target' = [target EXCEPT ![i][k] = "processed"]
        BY <1>2, <3>1 DEF IndInv, TypeOK
      <3>2. CASE UNCHANGED target
        BY <3>2 DEF IndInv, TypeOK
      <3> QED
        BY <1>5, <3>1, <3>2
    <2> QED
      BY <1>5, <1>11, <2>1 DEF IndInv, TypeOK
  <1>13. payment[i] # "none"
    BY <1>2, TargetIsProduct DEF IndInv, TablesOK, NothingBefore, GrantedWasPaid
  <1>14. TablesOK'
    BY <1>2, <1>5, <1>7, <1>13
       DEF IndInv, TablesOK, NothingBefore, TargetsWanted, GrantedWasPaid,
           ProcessedWasGranted, PaymentSeesTargets
  <1> QED
    BY <1>11, <1>12, <1>14 DEF IndInv

\* A callback grants a product that was asked for, and moves on.
LEMMA GrantStep ==
  ASSUME IndInv, NEW d \in Delivery, NEW p \in Product, Grant(d, p),
         UNCHANGED <<status, request, charge>>,
         hook[d].pc \notin {"undelivered", "done"},
         p \in wanted[hook[d].i], p \notin hook[d].late,
         NEW h \in HookRecord, h.pc # "undelivered", h.late = hook[d].late,
         hook' = [hook EXCEPT ![d] = h], Fit(h, charge, target, granted')
  PROVE  IndInv'
  <1> DEFINE i == hook[d].i
  <1>1. i \in Invoice /\ charge[i] = "paid"
    BY HookFacts DEF Fit
  <1>2. UNCHANGED <<status, target, wanted, payment, charge>>
    BY DEF request
  <1>3. granted' = [granted EXCEPT ![i][p] = @ \cup {d}]
    BY DEF Grant
  <1> HIDE DEF i
  <1>4. granted' \in [Invoice -> [Product -> SUBSET Delivery]]
    BY <1>1, <1>3 DEF IndInv, TypeOK
  <1>5. \A j \in Invoice, q \in Product :
          granted'[j][q] = IF j = i /\ q = p THEN granted[j][q] \cup {d}
                                             ELSE granted[j][q]
    BY <1>1, <1>3 DEF IndInv, TypeOK
  <1>6. Keeps
    BY <1>2, <1>5, TargetIsProduct DEF Keeps
  <1>7. \A e \in Delivery, j \in Invoice, q \in Product :
          e \in granted'[j][q] =>
            \/ e \in granted[j][q] /\ (e = d => h.late = hook[d].late)
            \/ e = d /\ q \notin h.late
    BY <1>5
  <1>8. Fit(h, charge', target', granted')
    BY <1>2
  <1>9. /\ hook' \in [Delivery -> HookRecord]
        /\ HooksOK' /\ GrantedByReceived' /\ RepeatedCallbackGrantsNothing'
    BY <1>6, <1>7, <1>8, HookStep
  <1>10. TypeOK'
    BY <1>2, <1>4, <1>9 DEF IndInv, TypeOK
  <1>11. p \in wanted[i]
    BY DEF i
  <1>12. NothingBefore' /\ TargetsWanted' /\ PaymentSeesTargets'
    BY <1>2 DEF IndInv, TablesOK, NothingBefore, TargetsWanted,
                PaymentSeesTargets
  <1>13. GrantedWasPaid'
    <2>1. ASSUME NEW j \in Invoice, NEW q \in Product, granted'[j][q] # {}
          PROVE  charge[j] = "paid" /\ q \in wanted[j]
      <3>1. CASE j = i /\ q = p
        BY <1>1, <1>11, <3>1
      <3>2. CASE ~(j = i /\ q = p)
        BY <1>5, <2>1, <3>2 DEF IndInv, TablesOK, GrantedWasPaid
      <3> QED
        BY <3>1, <3>2
    <2> QED
      BY <1>2, <2>1 DEF GrantedWasPaid
  <1>14. ProcessedWasGranted'
    BY <1>2, <1>5, TargetIsProduct DEF IndInv, TablesOK, ProcessedWasGranted
  <1> QED
    BY <1>9, <1>10, <1>12, <1>13, <1>14 DEF IndInv, TablesOK

LEMMA AddResponsesBalanceStep ==
  ASSUME IndInv, NEW d \in Delivery, AddResponsesBalance(d)
  PROVE  IndInv'
  <1> DEFINE h == [hook[d] EXCEPT !.pc = "ListTargets"]
  <1>1. /\ hook[d] \in HookRecord /\ Fit(hook[d], charge, target, granted)
        /\ hook[d].pc = "AddResponses"
    BY HookFacts DEF AddResponsesBalance
  <1>2. h \in HookRecord /\ h.pc = "ListTargets" /\ h.late = hook[d].late
    BY <1>1 DEF HookRecord
  <1>3. Fit(h, charge, target, granted) /\ Fit(h, charge, target, granted')
    BY <1>1 DEF Fit, HookRecord
  <1>4. hook' = [hook EXCEPT ![d] = h]
    BY DEF AddResponsesBalance, Goto, IndInv, TypeOK, HookRecord
  <1>5. Responses \in Product /\ Responses \notin hook[d].late
    BY <1>1, ResponsesIsProduct DEF HookRecord, Target
  <1>6. status' \in [Invoice -> InvoiceStatus]
    BY DEF AddResponsesBalance, IndInv, TypeOK
  <1> HIDE DEF h
  <1>7. CASE Responses \in wanted[hook[d].i] /\ Grant(d, Responses)
    BY <1>1, <1>2, <1>3, <1>4, <1>5, <1>7, GrantStep DEF AddResponsesBalance
  <1>8. CASE UNCHANGED granted
    BY <1>2, <1>3, <1>4, <1>6, <1>8, QuietHookStep DEF AddResponsesBalance
  <1> QED
    BY <1>7, <1>8 DEF AddResponsesBalance

\* Both ends of an execution; the target listed was asked for and was not
\* processed when the callback was received.
LEMMA ListedFacts ==
  ASSUME IndInv, NEW d \in Delivery, NEW k \in hook[d].todo
  PROVE  /\ hook[d] \in HookRecord /\ Fit(hook[d], charge, target, granted)
         /\ hook[d].i \in Invoice /\ k \in Target /\ k \in Product
         /\ k \in wanted[hook[d].i] /\ k \notin hook[d].late
  <1>1. hook[d] \in HookRecord /\ Fit(hook[d], charge, target, granted)
    BY HookFacts
  <1>2. hook[d].i \in Invoice /\ target[hook[d].i][k] # "none"
    BY <1>1 DEF Fit
  <1>3. k \in Target /\ k \notin hook[d].late
    BY <1>1 DEF Fit, HookRecord
  <1> QED
    BY <1>1, <1>2, <1>3, TargetIsProduct DEF IndInv, TablesOK, TargetsWanted

LEMMA ExecuteTargetStep ==
  ASSUME IndInv, NEW d \in Delivery, NEW k \in Target, ExecuteTarget(d, k)
  PROVE  IndInv'
  <1> DEFINE h == [hook[d] EXCEPT !.pc = "MarkProcessed", !.k = k,
                                  !.todo = @ \ {k}]
  <1>1. /\ hook[d] \in HookRecord /\ Fit(hook[d], charge, target, granted)
        /\ hook[d].i \in Invoice /\ k \in Product
        /\ k \in wanted[hook[d].i] /\ k \notin hook[d].late
        /\ hook[d].pc = "Execute"
    BY ListedFacts DEF ExecuteTarget
  <1>2. h \in HookRecord /\ h.pc = "MarkProcessed" /\ h.late = hook[d].late
    BY <1>1 DEF HookRecord
  <1>3. granted'[hook[d].i][k] # {}
    BY <1>1 DEF ExecuteTarget, Grant, IndInv, TypeOK
  <1>4. Fit(h, charge, target, granted')
    BY <1>1, <1>3 DEF Fit, HookRecord
  <1>5. hook' = [hook EXCEPT ![d] = h]
    BY <1>1 DEF ExecuteTarget, IndInv, TypeOK, HookRecord
  <1> HIDE DEF h
  <1> QED
    BY <1>1, <1>2, <1>4, <1>5, GrantStep DEF ExecuteTarget

LEMMA ExecuteFailsStep ==
  ASSUME IndInv, NEW d \in Delivery, NEW k \in Target, ExecuteFails(d, k)
  PROVE  IndInv'
  <1> DEFINE h == [hook[d] EXCEPT !.todo = @ \ {k}]
  <1>1. /\ hook[d] \in HookRecord /\ Fit(hook[d], charge, target, granted)
        /\ hook[d].i \in Invoice /\ k \in Product
        /\ k \in wanted[hook[d].i] /\ k \notin hook[d].late
        /\ hook[d].pc = "Execute"
    BY ListedFacts DEF ExecuteFails
  <1>2. h \in HookRecord /\ h.pc = "Execute" /\ h.late = hook[d].late
    BY <1>1 DEF HookRecord
  <1>3. Fit(h, charge, target, granted) /\ Fit(h, charge, target, granted')
    BY <1>1 DEF Fit, HookRecord
  <1>4. hook' = [hook EXCEPT ![d] = h]
    BY <1>1 DEF ExecuteFails, IndInv, TypeOK, HookRecord
  <1>5. status' \in [Invoice -> InvoiceStatus]
    BY DEF ExecuteFails, IndInv, TypeOK
  <1> HIDE DEF h
  <1>6. CASE Grant(d, k)
    BY <1>1, <1>2, <1>3, <1>4, <1>6, GrantStep DEF ExecuteFails
  <1>7. CASE UNCHANGED granted
    BY <1>2, <1>3, <1>4, <1>5, <1>7, QuietHookStep DEF ExecuteFails
  <1> QED
    BY <1>6, <1>7 DEF ExecuteFails
-----------------------------------------------------------------------------
LEMMA StepIndInv ==
  ASSUME IndInv, [Next]_vars
  PROVE  IndInv'
  <1>1. CASE UNCHANGED vars
    <2>1. Keeps
      BY <1>1 DEF vars, Keeps
    <2>2. HooksOK' /\ GrantedByReceived' /\ RepeatedCallbackGrantsNothing'
      BY <1>1, <2>1, HooksStill DEF vars
    <2>3. TypeOK'
      BY <1>1 DEF vars, IndInv, TypeOK
    <2>4. TablesOK'
      BY <1>1 DEF vars, IndInv, TablesOK, NothingBefore, TargetsWanted,
                  GrantedWasPaid, ProcessedWasGranted, PaymentSeesTargets
    <2> QED
      BY <2>2, <2>3, <2>4 DEF IndInv
  <1> QED
    BY <1>1, CreateInvoiceStep, AddTargetStep, CreatePaymentLinkStep,
       OtherRequestSteps, CallbackStep, AddResponsesBalanceStep,
       ListTargetsStep, ExecuteTargetStep, ExecuteFailsStep,
       MarkTargetProcessedStep, EndCallbackStep DEF Next

\* The inductive invariant.
THEOREM Invariance ==
  Spec => []IndInv
  BY InitIndInv, StepIndInv, PTL DEF Spec

\* Every variable keeps its type, the records of callbacks in progress too.
THEOREM TypeCorrect ==
  Spec => []TypeOK
  <1>1. IndInv => TypeOK
    BY DEF IndInv
  <1> QED
    BY <1>1, Invariance, PTL

\* Nobody is granted what he has not asked for and paid.
THEOREM OnlyPaidIsGranted ==
  Spec => []GrantedWasPaid
  <1>1. IndInv => GrantedWasPaid
    BY DEF IndInv, TablesOK
  <1> QED
    BY <1>1, Invariance, PTL

\* No target is passed over: processed_at means that it was executed.
THEOREM ProcessedMeansGranted ==
  Spec => []ProcessedWasGranted
  <1>1. IndInv => ProcessedWasGranted
    BY DEF IndInv, TablesOK
  <1> QED
    BY <1>1, Invariance, PTL

\* Whatever fails in the request, no money is taken before all targets of it
\* are stored.
THEOREM PaymentAfterTargets ==
  Spec => []PaymentSeesTargets
  <1>1. IndInv => PaymentSeesTargets
    BY DEF IndInv, TablesOK
  <1> QED
    BY <1>1, Invariance, PTL

\* A callback that comes after processed_at was set executes nothing.
THEOREM LateCallbackSkipsTargets ==
  Spec => []RepeatedCallbackGrantsNothing
  <1>1. IndInv => RepeatedCallbackGrantsNothing
    BY DEF IndInv
  <1> QED
    BY <1>1, Invariance, PTL
-----------------------------------------------------------------------------
(* Invoices implement Ledger.  That a callback does everything at most once *)
(* needs one more invariant: what it is still to grant, in its list or      *)
(* before it has one, it has not granted.                                   *)

\* What callback d, which is at h, has not granted yet when gr was.
NotYet(d, h, gr) ==
  \A i \in Invoice :
    /\ h.pc = "AddResponses" => d \notin gr[i][Responses]
    /\ h.pc \in {"AddResponses", "ListTargets"} =>
         \A k \in Target : d \notin gr[i][k]
    /\ \A k \in h.todo : d \notin gr[i][k]

GrantsOnce ==
  /\ \A i \in Invoice : payment[i] = "none" => wanted[i] = {}
  /\ \A d \in Delivery : NotYet(d, hook[d], granted)

\* One callback moves, and only it may have granted anything.
LEMMA NotYetStep ==
  ASSUME IndInv, GrantsOnce, NEW d \in Delivery, NEW h,
         hook' = [hook EXCEPT ![d] = h], NotYet(d, h, granted'),
         \A e \in Delivery, i \in Invoice, p \in Product :
           e # d /\ e \in granted'[i][p] => e \in granted[i][p],
         UNCHANGED <<wanted, payment>>
  PROVE  GrantsOnce'
  <1>1. ASSUME NEW e \in Delivery, e # d
        PROVE  NotYet(e, hook[e], granted')
    <2>1. hook[e].todo \subseteq Product
      BY HookFacts, TargetIsProduct DEF HookRecord
    <2>2. NotYet(e, hook[e], granted)
      BY DEF GrantsOnce
    <2> QED
      BY <1>1, <2>1, <2>2, TargetIsProduct, ResponsesIsProduct DEF NotYet
  <1>2. \A e \in Delivery : hook'[e] = IF e = d THEN h ELSE hook[e]
    BY DEF IndInv, TypeOK
  <1>3. \A e \in Delivery : NotYet(e, hook'[e], granted')
    BY <1>1, <1>2
  <1>4. \A i \in Invoice : payment'[i] = "none" => wanted'[i] = {}
    BY DEF GrantsOnce
  <1> QED
    BY <1>3, <1>4 DEF GrantsOnce

LEMMA GrantFacts ==
  ASSUME IndInv, NEW d \in Delivery, NEW p \in Product, Grant(d, p),
         hook[d].i \in Invoice
  PROVE  \A e \in Delivery, i \in Invoice, q \in Product :
           e \in granted'[i][q] <=>
             e \in granted[i][q] \/ (e = d /\ i = hook[d].i /\ q = p)
  BY DEF Grant, IndInv, TypeOK

\* What a callback knows of itself, with the new fact.
LEMMA CallbackFacts ==
  ASSUME IndInv, GrantsOnce, NEW d \in Delivery
  PROVE  /\ hook[d] \in HookRecord /\ hook[d].todo \subseteq Target
         /\ NotYet(d, hook[d], granted)
         /\ hook[d].pc \notin {"undelivered", "done"} =>
              hook[d].i \in Invoice /\ charge[hook[d].i] = "paid"
         /\ \A k \in hook[d].todo : k \in Product
         /\ hook[d].pc = "undelivered" =>
              \A i \in Invoice, p \in Product : d \notin granted[i][p]
  BY HookFacts, TargetIsProduct
     DEF Fit, HookRecord, GrantsOnce, IndInv, GrantedByReceived
-----------------------------------------------------------------------------
LEMMA InitGrantsOnce ==
  ASSUME Init
  PROVE  GrantsOnce /\ Book!Init
  <1>1. GrantsOnce
    BY TargetIsProduct, ResponsesIsProduct DEF Init, GrantsOnce, NotYet, NoHook
  <1>2. Book!Init
    BY DEF Init, Book!Init, Claims, ClaimsOf, Settled, NoHook
  <1> QED
    BY <1>1, <1>2

\* What a step does to the ledger.
Kept == UNCHANGED <<wanted, charge, Claims, granted, Settled>>
InBook == Kept \/ Book!Next

\* A callback that moves changes its own claims only.
LEMMA ClaimsOfMove ==
  ASSUME TypeOK, NEW d \in Delivery, NEW h, hook' = [hook EXCEPT ![d] = h],
         UNCHANGED wanted
  PROVE  Claims' = [Claims EXCEPT ![d] = ClaimsOf(h, wanted)]
  <1>1. \A e \in Delivery : hook'[e] = IF e = d THEN h ELSE hook[e]
    BY DEF TypeOK
  <1>2. \A e \in Delivery :
          ClaimsOf(hook'[e], wanted) =
            IF e = d THEN ClaimsOf(h, wanted) ELSE ClaimsOf(hook[e], wanted)
    BY <1>1
  <1> QED
    BY <1>2 DEF Claims

LEMMA SettledKept ==
  ASSUME UNCHANGED target
  PROVE  UNCHANGED Settled
  BY DEF Settled
-----------------------------------------------------------------------------
(* The request.                                                            *)

LEMMA CreateInvoiceBook ==
  ASSUME IndInv, GrantsOnce, NEW i \in Invoice, CreateInvoice(i)
  PROVE  GrantsOnce' /\ Book!Next
  <1>1. PICK products \in SUBSET Product :
          wanted' = [wanted EXCEPT ![i] = products]
    BY DEF CreateInvoice
  <1>2. /\ charge[i] = "none" /\ wanted[i] = {} /\ payment[i] = "none"
        /\ UNCHANGED <<target, charge, granted, hook>>
        /\ payment' = [payment EXCEPT ![i] = "AddTarget"]
    BY DEF CreateInvoice, SetPayment, GrantsOnce, IndInv, TablesOK, NothingBefore
  <1>3. \A j \in Invoice : j # i => wanted'[j] = wanted[j]
    BY <1>1 DEF IndInv, TypeOK
  <1>4. GrantsOnce'
    BY <1>2, <1>3 DEF GrantsOnce, IndInv, TypeOK
  <1>5. UNCHANGED Claims
    <2>1. ASSUME NEW d \in Delivery
          PROVE  ClaimsOf(hook[d], wanted') = ClaimsOf(hook[d], wanted)
      <3>1. hook[d].pc = "AddResponses" =>
              hook[d].i \in Invoice /\ hook[d].i # i
        BY <1>2, CallbackFacts
      <3> QED
        BY <1>3, <3>1 DEF ClaimsOf
    <2> QED
      BY <1>2, <2>1 DEF Claims
  <1>6. Book!Ask(i)
    BY <1>1, <1>2, <1>5, SettledKept DEF Book!Ask
  <1> QED
    BY <1>4, <1>6 DEF Book!Next

\* The request's other steps.
LEMMA RequestBook ==
  ASSUME IndInv, GrantsOnce, NEW i \in Invoice,
         \/ \E k \in Target : AddTarget(i, k)
         \/ CreatePaymentLink(i) \/ SaveStatus(i) \/ AbortPayment(i) \/ Pay(i)
  PROVE  GrantsOnce' /\ InBook
  <1>1. /\ UNCHANGED <<wanted, granted, hook>>
        /\ \A j \in Invoice : payment'[j] = "none" => payment[j] = "none"
    BY DEF AddTarget, CreatePaymentLink, SaveStatus, AbortPayment, Pay, request,
           SetPayment, IndInv, TypeOK
  <1>2. GrantsOnce' /\ UNCHANGED Claims
    BY <1>1 DEF GrantsOnce, Claims
  <1>3. UNCHANGED Settled
    <2>1. ASSUME NEW k \in Target, AddTarget(i, k)
          PROVE  UNCHANGED Settled
      <3>1. \A j \in Invoice, l \in Target :
              target'[j][l] = "processed" <=> target[j][l] = "processed"
        BY <2>1 DEF AddTarget, SetTarget, IndInv, TypeOK
      <3> QED
        BY <3>1 DEF Settled
    <2> QED
      BY <2>1, SettledKept
         DEF CreatePaymentLink, SaveStatus, AbortPayment, Pay, request
  <1>4. CASE CreatePaymentLink(i)
    <2>1. charge[i] = "none"
      BY <1>4 DEF CreatePaymentLink, IndInv, TablesOK, NothingBefore
    <2> QED
      BY <1>1, <1>2, <1>3, <1>4, <2>1
         DEF CreatePaymentLink, InBook, Kept, Book!Next, Book!Bill
  <1>5. CASE Pay(i)
    BY <1>1, <1>2, <1>3, <1>5 DEF Pay, InBook, Book!Next, Book!Pay
  <1>6. CASE \/ \E k \in Target : AddTarget(i, k)
             \/ SaveStatus(i) \/ AbortPayment(i)
    BY <1>1, <1>2, <1>3, <1>6
       DEF AddTarget, SaveStatus, AbortPayment, InBook, Kept
  <1> QED
    BY <1>2, <1>4, <1>5, <1>6
-----------------------------------------------------------------------------
(* The callbacks.                                                          *)

LEMMA CallbackBook ==
  ASSUME IndInv, GrantsOnce, NEW d \in Delivery, NEW i \in Invoice,
         NEW s \in {"success", "failed", "other"}, Callback(d, i, s)
  PROVE  GrantsOnce' /\ InBook
  <1>1. /\ hook[d] \in HookRecord /\ hook[d].pc = "undelivered"
        /\ hook[d].todo = {}
        /\ \A j \in Invoice, p \in Product : d \notin granted[j][p]
    BY HookFacts, CallbackFacts DEF Callback, Fit
  <1>2. UNCHANGED <<wanted, payment, charge, granted, target>>
    BY DEF Callback, request
  <1>3. UNCHANGED Settled /\ Claims[d] = {}
    BY <1>1, <1>2, SettledKept DEF Claims, ClaimsOf
  <1>4. CASE IsSuccess(s)
    <2> DEFINE h == [hook[d] EXCEPT
                       !.pc = "AddResponses", !.i = i,
                       !.late = {k \in Target : target[i][k] = "processed"}]
    <2>1. h.pc = "AddResponses" /\ h.i = i /\ h.todo = {}
      BY <1>1 DEF HookRecord
    <2>2. charge[i] = "paid"
      BY <1>4 DEF Callback, Says, IsSuccess
    <2>3. hook' = [hook EXCEPT ![d] = h]
      BY <1>1, <1>4 DEF Callback, IndInv, TypeOK, HookRecord
    <2> HIDE DEF h
    <2>4. NotYet(d, h, granted')
      BY <1>1, <1>2, <2>1, TargetIsProduct, ResponsesIsProduct DEF NotYet
    <2>5. GrantsOnce'
      BY <1>2, <2>3, <2>4, NotYetStep
    <2>6. Claims' = [Claims EXCEPT
                      ![d] = {i} \X ({Responses} \cap wanted[i])]
      BY <1>2, <2>1, <2>3, ClaimsOfMove DEF ClaimsOf, IndInv
    <2>7. Responses \notin Settled[i]
      BY DEF Settled, Target
    <2>8. Book!Claim(d, i, {Responses})
      <3>1. ({Responses} \cap wanted[i]) \ Settled[i] =
              {Responses} \cap wanted[i]
        BY <2>7
      <3> QED
        BY <1>1, <1>2, <1>3, <2>2, <2>6, <3>1, ResponsesIsProduct
           DEF Book!Claim
    <2> QED
      BY <2>5, <2>8 DEF InBook, Book!Next
  <1>5. CASE ~IsSuccess(s)
    <2> DEFINE h == [hook[d] EXCEPT !.pc = "done", !.i = i]
    <2>1. h.pc = "done" /\ h.todo = {}
      BY <1>1 DEF HookRecord
    <2>2. hook' = [hook EXCEPT ![d] = h]
      BY <1>1, <1>5 DEF Callback, IndInv, TypeOK, HookRecord
    <2> HIDE DEF h
    <2>3. NotYet(d, h, granted')
      BY <2>1 DEF NotYet
    <2>4. GrantsOnce'
      BY <1>2, <2>2, <2>3, NotYetStep
    <2>5. Claims' = [Claims EXCEPT ![d] = {}]
      BY <1>2, <2>1, <2>2, ClaimsOfMove DEF ClaimsOf, IndInv
    <2>6. Claims' = Claims
      BY <1>3, <2>5 DEF Claims
    <2> QED
      BY <1>2, <1>3, <2>4, <2>6 DEF InBook, Kept
  <1> QED
    BY <1>4, <1>5

LEMMA ListTargetsBook ==
  ASSUME IndInv, GrantsOnce, NEW d \in Delivery, ListTargets(d)
  PROVE  GrantsOnce' /\ Book!Next
  <1> DEFINE i == hook[d].i
             h == [hook[d] EXCEPT !.pc = "Execute", !.todo = Unprocessed(i)]
  <1>1. /\ hook[d] \in HookRecord /\ hook[d].pc = "ListTargets"
        /\ NotYet(d, hook[d], granted) /\ i \in Invoice /\ charge[i] = "paid"
    BY CallbackFacts DEF ListTargets
  <1>2. UNCHANGED <<wanted, payment, charge, granted, target>>
    BY DEF ListTargets, request
  <1>3. hook' = [hook EXCEPT ![d] = h]
    BY DEF ListTargets, IndInv, TypeOK, HookRecord
  <1>4. h.pc = "Execute" /\ h.i = i /\ h.todo = Unprocessed(i)
    BY <1>1 DEF HookRecord
  <1>5. Claims[d] = {}
    BY <1>1 DEF Claims, ClaimsOf
  <1> HIDE DEF h, i
  <1>6. \A j \in Invoice : \A k \in Target : d \notin granted[j][k]
    BY <1>1 DEF NotYet
  <1>7. NotYet(d, h, granted')
    BY <1>2, <1>4, <1>6 DEF NotYet, Unprocessed
  <1>8. GrantsOnce'
    BY <1>2, <1>3, <1>7, NotYetStep
  <1>9. Claims' = [Claims EXCEPT ![d] = {i} \X Unprocessed(i)]
    BY <1>2, <1>3, <1>4, ClaimsOfMove DEF ClaimsOf, IndInv
  <1>10. (Target \cap wanted[i]) \ Settled[i] = Unprocessed(i)
    <2>1. \A k \in Target :
            /\ k \in wanted[i] <=> target[i][k] # "none"
            /\ target[i][k] \in {"none", "stored", "processed"}
      BY <1>1 DEF IndInv, TypeOK, TablesOK, TargetsWanted, PaymentSeesTargets
    <2>2. Settled[i] = {k \in Target : target[i][k] = "processed"}
      BY <1>1 DEF Settled
    <2> QED
      BY <2>1, <2>2 DEF Unprocessed
  <1>11. Book!Claim(d, i, Target)
    <2>1. \A k \in Unprocessed(i) : d \notin granted[i][k]
      BY <1>1, <1>6 DEF Unprocessed
    <2> QED
      BY <1>1, <1>2, <1>5, <1>9, <1>10, <2>1, SettledKept DEF Book!Claim
  <1> QED
    BY <1>1, <1>8, <1>11 DEF Book!Next

\* A callback that grants what it has claimed.
LEMMA DoBook ==
  ASSUME IndInv, GrantsOnce, NEW d \in Delivery, NEW p \in Product,
         Grant(d, p), UNCHANGED <<request, charge>>,
         hook[d].pc \notin {"undelivered", "done"},
         NEW h, hook' = [hook EXCEPT ![d] = h], NotYet(d, h, granted'),
         <<hook[d].i, p>> \in ClaimsOf(hook[d], wanted),
         ClaimsOf(h, wanted) = ClaimsOf(hook[d], wanted) \ {<<hook[d].i, p>>},
         d \notin granted[hook[d].i][p]
  PROVE  GrantsOnce' /\ InBook
  <1> DEFINE i == hook[d].i
  <1>1. i \in Invoice
    BY CallbackFacts
  <1>2. UNCHANGED <<wanted, payment, charge, target>>
    BY DEF request
  <1>3. GrantsOnce'
    <2>1. \A e \in Delivery, j \in Invoice, q \in Product :
            e # d /\ e \in granted'[j][q] => e \in granted[j][q]
      BY <1>1, GrantFacts
    <2> QED
      BY <1>2, <2>1, NotYetStep
  <1>4. Claims' = [Claims EXCEPT ![d] = ClaimsOf(h, wanted)]
    BY <1>2, ClaimsOfMove DEF IndInv
  <1>5. Claims[d] = ClaimsOf(hook[d], wanted)
    BY DEF Claims
  <1>6. Claims' = [Claims EXCEPT ![d] = @ \ {<<i, p>>}]
    BY <1>4, <1>5 DEF Claims
  <1>7. granted' = [granted EXCEPT ![i][p] = @ \cup {d}]
    BY DEF Grant
  <1>8. Book!Do(d, i, p)
    BY <1>2, <1>5, <1>6, <1>7, SettledKept DEF Book!Do
  <1> HIDE DEF i
  <1> QED
    BY <1>1, <1>3, <1>8 DEF InBook, Book!Next

\* A callback that grants nothing and claims nothing new.
LEMMA ForgoBook ==
  ASSUME IndInv, GrantsOnce, NEW d \in Delivery,
         UNCHANGED <<wanted, payment, charge, granted, Settled>>,
         NEW h, hook' = [hook EXCEPT ![d] = h], NotYet(d, h, granted),
         ClaimsOf(h, wanted) \subseteq ClaimsOf(hook[d], wanted)
  PROVE  GrantsOnce' /\ InBook
  <1>1. GrantsOnce'
    BY NotYetStep
  <1>2. Claims' = [Claims EXCEPT ![d] = ClaimsOf(h, wanted)]
    BY ClaimsOfMove DEF IndInv
  <1>3. Claims[d] = ClaimsOf(hook[d], wanted)
    BY DEF Claims
  <1>4. CASE ClaimsOf(h, wanted) = ClaimsOf(hook[d], wanted)
    BY <1>1, <1>2, <1>4 DEF Claims, InBook, Kept
  <1>5. CASE ClaimsOf(h, wanted) # ClaimsOf(hook[d], wanted)
    <2>1. Book!Forgo(d)
      BY <1>2, <1>3, <1>5 DEF Book!Forgo
    <2> QED
      BY <1>1, <2>1 DEF InBook, Book!Next
  <1> QED
    BY <1>4, <1>5

LEMMA AddResponsesBalanceBook ==
  ASSUME IndInv, GrantsOnce, NEW d \in Delivery, AddResponsesBalance(d)
  PROVE  GrantsOnce' /\ InBook
  <1> DEFINE i == hook[d].i
             h == [hook[d] EXCEPT !.pc = "ListTargets"]
  <1>1. /\ hook[d] \in HookRecord /\ hook[d].pc = "AddResponses"
        /\ hook[d].todo \subseteq Target
        /\ NotYet(d, hook[d], granted) /\ i \in Invoice
    BY CallbackFacts DEF AddResponsesBalance
  <1>2. hook' = [hook EXCEPT ![d] = h]
    BY DEF AddResponsesBalance, Goto, IndInv, TypeOK, HookRecord
  <1>3. h.pc = "ListTargets" /\ h.todo = hook[d].todo
    BY <1>1 DEF HookRecord
  <1>4. UNCHANGED <<request, charge, Settled>>
    BY SettledKept DEF AddResponsesBalance, request
  <1>5. /\ ClaimsOf(h, wanted) = {}
        /\ ClaimsOf(hook[d], wanted) = {i} \X ({Responses} \cap wanted[i])
    BY <1>1, <1>3 DEF ClaimsOf
  <1> HIDE DEF h
  <1>6. CASE Responses \in wanted[i] /\ Grant(d, Responses)
    <2>1. NotYet(d, h, granted')
      <3>1. Responses \notin Target
        BY DEF Target
      <3> QED
        BY <1>1, <1>3, <1>6, <3>1, GrantFacts, TargetIsProduct,
           ResponsesIsProduct DEF NotYet
    <2>2. d \notin granted[i][Responses]
      BY <1>1 DEF NotYet
    <2>3. /\ <<i, Responses>> \in ClaimsOf(hook[d], wanted)
          /\ ClaimsOf(h, wanted) =
               ClaimsOf(hook[d], wanted) \ {<<i, Responses>>}
      BY <1>5, <1>6
    <2> QED
      BY <1>1, <1>2, <1>4, <1>6, <2>1, <2>2, <2>3, DoBook, ResponsesIsProduct
  <1>7. CASE UNCHANGED granted
    <2>1. NotYet(d, h, granted)
      BY <1>1, <1>3 DEF NotYet
    <2> QED
      BY <1>2, <1>4, <1>5, <1>7, <2>1, ForgoBook DEF request
  <1> QED
    BY <1>6, <1>7 DEF AddResponsesBalance

LEMMA ExecuteBook ==
  ASSUME IndInv, GrantsOnce, NEW d \in Delivery, NEW k \in Target,
         ExecuteTarget(d, k) \/ ExecuteFails(d, k)
  PROVE  GrantsOnce' /\ InBook
  <1> DEFINE i == hook[d].i
  <1>1. /\ hook[d] \in HookRecord /\ hook[d].pc = "Execute"
        /\ k \in hook[d].todo /\ NotYet(d, hook[d], granted)
        /\ i \in Invoice /\ k \in Product /\ hook[d].todo \subseteq Target
    BY CallbackFacts DEF ExecuteTarget, ExecuteFails
  <1>2. PICK h : /\ hook' = [hook EXCEPT ![d] = h] /\ h.i = i
                 /\ h.pc \in {"Execute", "MarkProcessed"}
                 /\ h.todo = hook[d].todo \ {k}
    <2>1. CASE ExecuteTarget(d, k)
      <3> DEFINE h == [hook[d] EXCEPT !.pc = "MarkProcessed", !.k = k,
                                      !.todo = @ \ {k}]
      <3>1. hook' = [hook EXCEPT ![d] = h]
        BY <1>1, <2>1 DEF ExecuteTarget, IndInv, TypeOK, HookRecord
      <3>2. h.i = i /\ h.pc = "MarkProcessed" /\ h.todo = hook[d].todo \ {k}
        BY <1>1 DEF HookRecord
      <3> QED
        BY <3>1, <3>2
    <2>2. CASE ExecuteFails(d, k)
      <3> DEFINE h == [hook[d] EXCEPT !.todo = @ \ {k}]
      <3>1. hook' = [hook EXCEPT ![d] = h]
        BY <1>1, <2>2 DEF ExecuteFails, IndInv, TypeOK, HookRecord
      <3>2. h.i = i /\ h.pc = "Execute" /\ h.todo = hook[d].todo \ {k}
        BY <1>1 DEF HookRecord
      <3> QED
        BY <3>1, <3>2
    <2> QED
      BY <2>1, <2>2
  <1>3. /\ ClaimsOf(hook[d], wanted) = {i} \X hook[d].todo
        /\ ClaimsOf(h, wanted) = {i} \X (hook[d].todo \ {k})
    BY <1>1, <1>2 DEF ClaimsOf
  <1>4. UNCHANGED <<request, charge, Settled>>
    BY SettledKept DEF ExecuteTarget, ExecuteFails, request
  <1>5. CASE Grant(d, k)
    <2>1. NotYet(d, h, granted')
      BY <1>1, <1>2, <1>5, GrantFacts, TargetIsProduct DEF NotYet
    <2>2. d \notin granted[i][k]
      BY <1>1 DEF NotYet
    <2>3. /\ <<i, k>> \in ClaimsOf(hook[d], wanted)
          /\ ClaimsOf(h, wanted) = ClaimsOf(hook[d], wanted) \ {<<i, k>>}
      BY <1>1, <1>3
    <2> QED
      BY <1>1, <1>2, <1>4, <1>5, <2>1, <2>2, <2>3, DoBook
  <1>6. CASE UNCHANGED granted
    <2>1. NotYet(d, h, granted)
      BY <1>1, <1>2 DEF NotYet
    <2>2. ClaimsOf(h, wanted) \subseteq ClaimsOf(hook[d], wanted)
      BY <1>3
    <2> QED
      BY <1>2, <1>4, <1>6, <2>1, <2>2, ForgoBook DEF request
  <1> QED
    BY <1>5, <1>6 DEF ExecuteTarget, ExecuteFails

LEMMA MarkTargetProcessedBook ==
  ASSUME IndInv, GrantsOnce, NEW d \in Delivery, MarkTargetProcessed(d)
  PROVE  GrantsOnce' /\ InBook
  <1> DEFINE i == hook[d].i
             k == hook[d].k
             h == [hook[d] EXCEPT !.pc = "Execute"]
  <1>1. /\ hook[d] \in HookRecord /\ hook[d].pc = "MarkProcessed"
        /\ NotYet(d, hook[d], granted)
        /\ i \in Invoice /\ k \in Target /\ granted[i][k] # {}
    BY CallbackFacts, HookFacts DEF MarkTargetProcessed, Fit
  <1>2. hook' = [hook EXCEPT ![d] = h]
    BY DEF MarkTargetProcessed, Goto, IndInv, TypeOK, HookRecord
  <1>3. h.pc = "Execute" /\ h.i = i /\ h.todo = hook[d].todo
    BY <1>1 DEF HookRecord
  <1>4. UNCHANGED <<wanted, payment, charge, granted>>
    BY DEF MarkTargetProcessed
  <1>5. ClaimsOf(h, wanted) = ClaimsOf(hook[d], wanted)
    BY <1>1, <1>3 DEF ClaimsOf
  <1>6. \/ UNCHANGED target
        \/ target' = [target EXCEPT ![i][k] = "processed"]
    BY DEF MarkTargetProcessed, SetTarget
  <1> HIDE DEF h, i, k
  <1>7. NotYet(d, h, granted)
    BY <1>1, <1>3 DEF NotYet
  <1>8. CASE UNCHANGED target
    BY <1>2, <1>4, <1>5, <1>7, <1>8, SettledKept, ForgoBook
  <1>9. CASE target' = [target EXCEPT ![i][k] = "processed"]
    <2>1. GrantsOnce'
      BY <1>2, <1>4, <1>7, NotYetStep
    <2>2. UNCHANGED Claims
      <3>1. Claims' = [Claims EXCEPT ![d] = ClaimsOf(h, wanted)]
        BY <1>2, <1>4, ClaimsOfMove DEF IndInv
      <3> QED
        BY <1>5, <3>1 DEF Claims
    <2>3. Settled' = [Settled EXCEPT ![i] = @ \cup {k}]
      <3>1. \A j \in Invoice, l \in Target :
              target'[j][l] = "processed" <=>
                target[j][l] = "processed" \/ (j = i /\ l = k)
        BY <1>1, <1>9 DEF IndInv, TypeOK
      <3>2. \A j \in Invoice :
              {l \in Target : target'[j][l] = "processed"} =
                IF j = i
                  THEN {l \in Target : target[j][l] = "processed"} \cup {k}
                  ELSE {l \in Target : target[j][l] = "processed"}
        BY <1>1, <3>1
      <3> QED
        BY <3>2 DEF Settled
    <2>4. Book!Settle(i, k)
      BY <1>1, <1>4, <2>2, <2>3 DEF Book!Settle
    <2> QED
      BY <1>1, <2>1, <2>4, TargetIsProduct DEF InBook, Book!Next
  <1> QED
    BY <1>6, <1>8, <1>9

LEMMA EndCallbackBook ==
  ASSUME IndInv, GrantsOnce, NEW d \in Delivery, EndCallback(d)
  PROVE  GrantsOnce' /\ InBook
  <1> DEFINE h == [hook[d] EXCEPT !.pc = "done"]
  <1>1. hook[d] \in HookRecord /\ NotYet(d, hook[d], granted)
    BY CallbackFacts
  <1>2. hook' = [hook EXCEPT ![d] = h]
    BY DEF EndCallback, Goto, IndInv, TypeOK, HookRecord
  <1>3. h.pc = "done" /\ h.todo = hook[d].todo
    BY <1>1 DEF HookRecord
  <1> HIDE DEF h
  <1>4. NotYet(d, h, granted) /\ ClaimsOf(h, wanted) = {}
    BY <1>1, <1>3 DEF NotYet, ClaimsOf
  <1>5. UNCHANGED <<wanted, payment, charge, granted, Settled>>
    BY SettledKept DEF EndCallback, request
  <1> QED
    BY <1>2, <1>4, <1>5, ForgoBook
-----------------------------------------------------------------------------
LEMMA StepLedger ==
  IndInv /\ GrantsOnce /\ [Next]_vars => GrantsOnce' /\ InBook
  <1> SUFFICES ASSUME IndInv, GrantsOnce, [Next]_vars
               PROVE  GrantsOnce' /\ InBook
    OBVIOUS
  <1>1. CASE UNCHANGED vars
    BY <1>1 DEF vars, GrantsOnce, NotYet, InBook, Kept, Claims, Settled
  <1>2. ASSUME NEW d \in Delivery,
               \/ \E i \in Invoice, s \in {"success", "failed", "other"} :
                    Callback(d, i, s)
               \/ AddResponsesBalance(d)
               \/ \E k \in Target : ExecuteTarget(d, k) \/ ExecuteFails(d, k)
               \/ MarkTargetProcessed(d) \/ EndCallback(d)
        PROVE  GrantsOnce' /\ InBook
    BY <1>2, CallbackBook, AddResponsesBalanceBook, ExecuteBook,
       MarkTargetProcessedBook, EndCallbackBook
  <1>3. ASSUME NEW d \in Delivery, ListTargets(d)
        PROVE  GrantsOnce' /\ InBook
    BY <1>3, ListTargetsBook DEF InBook
  <1>4. ASSUME NEW i \in Invoice, CreateInvoice(i)
        PROVE  GrantsOnce' /\ InBook
    BY <1>4, CreateInvoiceBook DEF InBook
  <1> QED
    BY <1>1, <1>2, <1>3, <1>4, RequestBook DEF Next

\* Whatever stops, fails, repeats or overlaps, what is granted was paid, no
\* callback grants a thing twice or one that was processed when it read its
\* list, and its list misses none.
THEOREM InvoicesImplementLedger ==
  Spec => ImplementsLedger
  <1>1. Init => GrantsOnce /\ Book!Init
    BY InitGrantsOnce
  <1>2. IndInv /\ GrantsOnce /\ [Next]_vars => GrantsOnce' /\ InBook
    BY StepLedger
  <1>3. InBook => [Book!Next]_<<wanted, charge, Claims, granted, Settled>>
    BY DEF InBook, Kept
  <1> QED
    BY <1>1, <1>2, <1>3, Invariance, PTL
       DEF Spec, ImplementsLedger, Book!Spec, Book!ledger
-----------------------------------------------------------------------------
(* Money.  The inductive invariant adds to RideIsSettled what a handler    *)
(* relies on although it read the order some steps ago: the edge that it is*)
(* about to write, which is one of a handful.                              *)

Unended == {"in_progress", "at_last_point"}

\* What a handler can be about to do.
Charging == [pc : {"charge"}, old : Unended \cup {"completed"}, new : {"completed"}]
Cashing == [pc : {"cash"}, old : {"at_last_point"}, new : {"completed"}]
Stopping == [pc : {"write"}, old : Unended, new : {"at_last_point"}]
Paying == [pc : {"write"}, old : {"completed", "paid"}, new : {"paid"}]
Closing == [pc : {"write"}, old : Over, new : {"closed"}]

Tasks == {NoPress} \cup Charging \cup Cashing \cup Stopping \cup Paying \cup Closing

PressOK ==
  /\ ride \in Unended \cup Over
  /\ press \in [Press -> Tasks]

PaidOrSkipped == ride \in {"paid", "closed"} \/ skipped

\* A webhook that is half done has seen to the order.
HookOK == hooks = 1 => PaidOrSkipped

\* Each completion that is counted again took a commission.
CountOK == again <= taken

MoneyInv == MoneyTypeOK /\ PressOK /\ HookOK /\ CountOK /\ RideIsSettled
-----------------------------------------------------------------------------
\* The graph's edges from the statuses of this module to the targets of
\* handleStatus.
LEMMA TargetsOfRide ==
  ASSUME NEW s \in Unended \cup Over,
         NEW t \in {"at_last_point", "completed", "paid", "closed"},
         FSM!CanTransition(s, t)
  PROVE  \/ t = "completed" /\ s \in Unended \cup {"completed"}
         \/ t = "at_last_point" /\ s \in Unended
         \/ t = "paid" /\ s \in {"completed", "paid"}
         \/ t = "closed" /\ s \in Over
BY DEF FSM!CanTransition, FSM!Edges, FSM!Row, FSM!CanceledByEither, Unended, Over

LEMMA StatusesOfRide == Unended \cup Over \subseteq FSM!Status
BY DEF FSM!Status, Unended, Over

LEMMA TasksAreTyped ==
  Tasks \subseteq {NoPress} \cup
    [pc : {"charge", "write", "cash"}, old : FSM!Status, new : FSM!Status]
BY StatusesOfRide DEF Tasks, Charging, Cashing, Stopping, Paying, Closing,
   Unended, Over, FSM!Status

LEMMA InitSettled == MoneyInit => MoneyInv
<1> SUFFICES ASSUME MoneyInit PROVE MoneyInv
  OBVIOUS
<1>1. MoneyTypeOK
  <2>1. ride \in FSM!Status /\ taken \in 0 .. MaxPay /\ again \in 0 .. MaxPay
    BY MoneyAssumption, StatusesOfRide DEF MoneyInit, Unended
  <2>2. press \in [Press -> {NoPress}]
    BY DEF MoneyInit
  <2>3. /\ bills \in Seq({"none", "created", "failed", "paid"})
        /\ maker \in Seq({"insert", "ask", "answer", "done"})
        /\ Len(maker) = Len(bills)
    BY DEF MoneyInit
  <2> QED BY <2>1, <2>2, <2>3 DEF MoneyInit, MoneyTypeOK
<1>2. PressOK
  BY DEF MoneyInit, PressOK, Tasks, Unended
<1>3. HookOK /\ CountOK
  BY DEF MoneyInit, HookOK, CountOK
<1>4. RideIsSettled
  BY DEF MoneyInit, RideIsSettled, Over, Bills
<1> QED BY <1>1, <1>2, <1>3, <1>4 DEF MoneyInv
-----------------------------------------------------------------------------
(* Handlers.                                                               *)

\* A handler that has just read the order changes nothing else.
LEMMA ReadingKeeps ==
  ASSUME MoneyInv, NEW r \in Press, NEW task \in Tasks,
         press' = [press EXCEPT ![r] = task],
         UNCHANGED <<ride, online, taken, bills, maker, hooks, cash, again, skipped>>
  PROVE  MoneyInv'
<1>1. PressOK'
  BY DEF MoneyInv, PressOK
<1>2. MoneyTypeOK'
  BY <1>1, TasksAreTyped DEF MoneyInv, MoneyTypeOK, PressOK
<1>3. HookOK' /\ CountOK' /\ RideIsSettled'
  BY DEF MoneyInv, HookOK, CountOK, PaidOrSkipped, RideIsSettled, Bills
<1> QED BY <1>1, <1>2, <1>3 DEF MoneyInv

LEMMA handleStatusStep ==
  ASSUME MoneyInv, NEW r \in Press, NEW s \in FSM!Status, handleStatus(r, s)
  PROVE  MoneyInv'
<1> DEFINE task == [pc |-> IF s = "completed" THEN "charge" ELSE "write",
                    old |-> ride, new |-> s]
<1>1. \/ s = "completed" /\ ride \in Unended \cup {"completed"}
      \/ s = "at_last_point" /\ ride \in Unended
      \/ s = "paid" /\ ride \in {"completed", "paid"}
      \/ s = "closed" /\ ride \in Over
  BY TargetsOfRide DEF handleStatus, MoneyInv, PressOK
<1>2. task \in Tasks
  BY <1>1 DEF Tasks, Charging, Stopping, Paying, Closing
<1> QED BY <1>2, ReadingKeeps DEF handleStatus, Reading

LEMMA FinishStep ==
  ASSUME MoneyInv, NEW r \in Press, handleLifecycleFinish(r)
  PROVE  MoneyInv'
<1>1. [pc |-> "charge", old |-> ride, new |-> "completed"] \in Tasks
  BY DEF handleLifecycleFinish, Tasks, Charging, Unended
<1> QED BY <1>1, ReadingKeeps DEF handleLifecycleFinish, Reading

LEMMA ConfirmCashStep ==
  ASSUME MoneyInv, NEW r \in Press, handleLifecycleConfirmCash(r)
  PROVE  MoneyInv'
<1>1. [pc |-> "cash", old |-> ride, new |-> "completed"] \in Tasks
  BY DEF handleLifecycleConfirmCash, Tasks, Cashing
<1> QED BY <1>1, ReadingKeeps DEF handleLifecycleConfirmCash, Reading

LEMMA ConflictStep ==
  ASSUME MoneyInv, NEW r \in Press, Conflict(r)
  PROVE  MoneyInv'
<1>1. NoPress \in Tasks
  BY DEF Tasks
<1> QED BY <1>1, ReadingKeeps DEF Conflict

LEMMA ChargeStep ==
  ASSUME MoneyInv, NEW r \in Press, UpdateStatusWithDriverCharge(r)
  PROVE  MoneyInv'
<1>0. press[r] \in Charging
  BY DEF UpdateStatusWithDriverCharge, MoneyInv, PressOK, Tasks, NoPress,
     Charging, Cashing, Stopping, Paying, Closing
<1>1. ride \in Unended \cup {"completed"} /\ press[r].old = ride
  BY <1>0 DEF UpdateStatusWithDriverCharge, StatusIs, Charging
<1>2. /\ taken \in Nat /\ again \in Nat /\ taken < MaxPay /\ taken' = taken + 1
      /\ taken' \in 0 .. MaxPay
      /\ again' = again + (IF ride = "completed" THEN 1 ELSE 0)
  BY <1>1, MoneyAssumption DEF UpdateStatusWithDriverCharge, MoneyInv, MoneyTypeOK
<1>3. \/ ride \in Unended /\ taken = 0
      \/ ride = "completed" /\ taken <= 1 + again
  BY <1>1, <1>2 DEF MoneyInv, RideIsSettled, Over, Unended
<1>4. again' <= taken' /\ taken' <= 1 + again' /\ again' \in 0 .. MaxPay
  <2>1. again <= taken
    BY DEF MoneyInv, CountOK
  <2>2. again' \in Nat /\ again' <= taken'
    BY <1>2, <2>1
  <2>3. taken' <= 1 + again'
    <3>1. CASE ride = "completed"
      BY <3>1, <1>2, <1>3 DEF Unended
    <3>2. CASE ride # "completed"
      BY <3>2, <1>2, <1>3
    <3> QED BY <3>1, <3>2
  <2> QED BY MoneyAssumption, <1>2, <2>2, <2>3
<1>5. ride' = "completed" /\ PressOK'
  BY DEF UpdateStatusWithDriverCharge, MoneyInv, PressOK, Tasks, Over
<1>6. /\ bills' \in Seq({"none", "created", "failed", "paid"})
      /\ maker' \in Seq({"insert", "ask", "answer", "done"})
      /\ Len(maker') = Len(bills')
      /\ Len(bills') = IF online' THEN taken' ELSE 0
      /\ \A b \in Bills' : bills'[b] = "paid" => b \in Bills /\ bills[b] = "paid"
  <2>0. /\ bills \in Seq({"none", "created", "failed", "paid"})
        /\ maker \in Seq({"insert", "ask", "answer", "done"})
        /\ Len(maker) = Len(bills) /\ online' = online
        /\ Len(bills) = IF online THEN taken ELSE 0
    BY DEF MoneyInv, MoneyTypeOK, RideIsSettled, UpdateStatusWithDriverCharge
  <2>1. CASE online
    <3>1. bills' = Append(bills, "none") /\ maker' = Append(maker, "insert")
      BY <2>1 DEF UpdateStatusWithDriverCharge
    <3> QED BY <2>0, <2>1, <3>1, <1>2 DEF Bills
  <2>2. CASE ~ online
    <3>1. bills' = bills /\ maker' = maker
      BY <2>2 DEF UpdateStatusWithDriverCharge
    <3> QED BY <2>0, <2>2, <3>1 DEF Bills
  <2> QED BY <2>1, <2>2
<1>7. /\ online' = online /\ hooks' = hooks /\ cash' = cash /\ skipped' = skipped
  BY DEF UpdateStatusWithDriverCharge
<1>8. MoneyTypeOK'
  <2>1. press' \in [Press -> Tasks] /\ ride' \in FSM!Status
    BY <1>5, StatusesOfRide DEF PressOK
  <2> QED BY <2>1, <1>2, <1>4, <1>6, <1>7, TasksAreTyped DEF MoneyInv, MoneyTypeOK
<1>9. HookOK' /\ CountOK'
  BY <1>1, <1>4, <1>7 DEF MoneyInv, HookOK, CountOK, PaidOrSkipped, Unended
<1>10. (\E b \in Bills' : bills'[b] = "paid") => skipped'
  BY <1>1, <1>6, <1>7 DEF MoneyInv, RideIsSettled, Unended
<1>11. RideIsSettled'
  BY <1>2, <1>4, <1>5, <1>6, <1>10 DEF RideIsSettled, Over
<1> QED BY <1>5, <1>8, <1>9, <1>11 DEF MoneyInv

LEMMA WriteStep ==
  ASSUME MoneyInv, NEW r \in Press, UpdateStatusCAS(r)
  PROVE  MoneyInv'
<1>1. press[r] \in Cashing \cup Stopping \cup Paying \cup Closing
  BY DEF UpdateStatusCAS, MoneyInv, PressOK, Tasks, NoPress,
     Charging, Cashing, Stopping, Paying, Closing
<1>2. \/ ride = "at_last_point" /\ ride' = "completed" /\ cash'
      \/ ride \in Unended /\ ride' \in Unended
      \/ ride \in Over /\ ride' = "closed"
      \/ ride \in {"completed", "paid"} /\ ride' = "paid"
  BY <1>1 DEF UpdateStatusCAS, StatusIs, Cashing, Stopping, Paying, Closing, Unended
<1>3. PressOK'
  BY <1>2 DEF UpdateStatusCAS, MoneyInv, PressOK, Tasks, Unended, Over
<1>4. cash => cash'
  BY DEF UpdateStatusCAS
<1>5. cash' \in BOOLEAN
  BY DEF UpdateStatusCAS, MoneyInv, MoneyTypeOK
<1>6. MoneyTypeOK'
  <2>1. press' \in [Press -> Tasks] /\ ride' \in FSM!Status
    BY <1>3, StatusesOfRide DEF PressOK
  <2> QED BY <2>1, <1>5, TasksAreTyped DEF UpdateStatusCAS, MoneyInv, MoneyTypeOK
<1>7. HookOK' /\ CountOK'
  BY <1>2 DEF UpdateStatusCAS, MoneyInv, HookOK, CountOK, PaidOrSkipped, Unended, Over
<1>8. RideIsSettled'
  <2>1. taken > 0 => ride' \in Over
    BY <1>2 DEF MoneyInv, RideIsSettled, Unended, Over
  <2>2. ride' \in Over => taken > 0 \/ cash'
    BY <1>2, <1>4 DEF MoneyInv, RideIsSettled, Unended, Over
  <2>3. (\E b \in Bills : bills[b] = "paid") => ride' \in {"paid", "closed"} \/ skipped
    BY <1>2 DEF MoneyInv, RideIsSettled, Unended, Over
  <2> QED BY <2>1, <2>2, <2>3 DEF UpdateStatusCAS, MoneyInv, RideIsSettled, Bills
<1> QED BY <1>3, <1>6, <1>7, <1>8 DEF MoneyInv
-----------------------------------------------------------------------------
(* Payments.                                                               *)

\* A step that only says something else about a payment than that it is paid.
LEMMA PaymentKeeps ==
  ASSUME MoneyInv, NEW b \in Bills,
         NEW s \in {"none", "created", "failed", "paid"},
         NEW t \in {"insert", "ask", "answer", "done"},
         s = "paid" => bills[b] = "paid",
         bills' = [bills EXCEPT ![b] = s], maker' = [maker EXCEPT ![b] = t],
         UNCHANGED <<ride, online, taken, press, hooks, cash, again, skipped>>
  PROVE  MoneyInv'
<1>1. /\ bills \in Seq({"none", "created", "failed", "paid"})
      /\ maker \in Seq({"insert", "ask", "answer", "done"})
      /\ Len(maker) = Len(bills)
  BY DEF MoneyInv, MoneyTypeOK
<1>2. /\ bills' \in Seq({"none", "created", "failed", "paid"})
      /\ maker' \in Seq({"insert", "ask", "answer", "done"})
      /\ Len(maker') = Len(bills') /\ Len(bills') = Len(bills)
      /\ Bills' = Bills
      /\ \A c \in Bills : bills'[c] = "paid" => bills[c] = "paid"
  BY <1>1 DEF Bills
<1>3. MoneyTypeOK' /\ PressOK' /\ HookOK' /\ CountOK'
  BY <1>2 DEF MoneyInv, MoneyTypeOK, PressOK, HookOK, CountOK, PaidOrSkipped
<1>4. RideIsSettled'
  BY <1>2 DEF MoneyInv, RideIsSettled
<1> QED BY <1>3, <1>4 DEF MoneyInv

LEMMA MakerStep ==
  ASSUME MoneyInv, NEW b \in Bills,
         Create(b) \/ AskProvider(b) \/ UpdateState(b) \/ MakerDies(b)
  PROVE  MoneyInv'
<1>0. /\ bills[b] \in {"none", "created", "failed", "paid"}
      /\ bills = [bills EXCEPT ![b] = bills[b]]
  BY DEF MoneyInv, MoneyTypeOK, Bills
<1>1. CASE Create(b)
  BY <1>1, PaymentKeeps DEF Create, Then
<1>2. CASE AskProvider(b)
  BY <1>0, <1>2, PaymentKeeps DEF AskProvider, Then
<1>3. CASE UpdateState(b)
  BY <1>3, PaymentKeeps DEF UpdateState, Then
<1>4. CASE MakerDies(b)
  BY <1>0, <1>4, PaymentKeeps DEF MakerDies, Then
<1> QED BY <1>1, <1>2, <1>3, <1>4

\* There is something to confirm only once the ride was completed.
LEMMA AskedIsOver == MoneyInv /\ Asked => ride \in Over
<1> SUFFICES ASSUME MoneyInv, Asked PROVE ride \in Over
  OBVIOUS
<1>1. PICK b \in Bills : TRUE
  BY DEF Asked
<1>2. Len(bills) > 0
  BY DEF MoneyInv, MoneyTypeOK, Bills
<1>3. taken > 0
  BY <1>2 DEF MoneyInv, RideIsSettled, MoneyTypeOK
<1> QED BY <1>3 DEF MoneyInv, RideIsSettled

LEMMA WebhookStep ==
  ASSUME MoneyInv, handleAirbaPayWebhook
  PROVE  MoneyInv'
<1>1. \/ ride = "completed" /\ ride' = "paid" /\ skipped' = skipped
      \/ ride \in {"paid", "closed"} /\ ride' = ride /\ skipped' = skipped
      \/ ride' = ride /\ skipped' = TRUE
  BY AskedIsOver DEF handleAirbaPayWebhook, StatusIs, Over
<1>2. hooks' \in {0, 1} /\ skipped' \in BOOLEAN
  BY DEF handleAirbaPayWebhook, MoneyInv, MoneyTypeOK
<1>3. PressOK'
  BY <1>1 DEF handleAirbaPayWebhook, MoneyInv, PressOK, Over
<1>4. MoneyTypeOK'
  <2>1. ride' \in FSM!Status
    BY <1>3, StatusesOfRide DEF PressOK
  <2> QED BY <2>1, <1>2 DEF handleAirbaPayWebhook, MoneyInv, MoneyTypeOK
<1>5. HookOK' /\ CountOK'
  BY <1>1 DEF handleAirbaPayWebhook, MoneyInv, HookOK, CountOK, PaidOrSkipped
<1>6. RideIsSettled'
  BY <1>1 DEF handleAirbaPayWebhook, MoneyInv, RideIsSettled, Over, Bills
<1> QED BY <1>3, <1>4, <1>5, <1>6 DEF MoneyInv

LEMMA ByOrderStep ==
  ASSUME MoneyInv, UpdateStateByOrder
  PROVE  MoneyInv'
<1>0. PaidOrSkipped
  BY DEF UpdateStateByOrder, MoneyInv, HookOK
<1>1. /\ bills \in Seq({"none", "created", "failed", "paid"})
      /\ Bills = 1 .. Len(bills) /\ Len(bills) \in Nat
  BY DEF MoneyInv, MoneyTypeOK, Bills
<1>2. /\ bills' \in Seq({"none", "created", "failed", "paid"})
      /\ Len(bills') = Len(bills) /\ skipped' \in BOOLEAN /\ (skipped => skipped')
  <2>1. CASE bills' = bills /\ skipped' = TRUE
    BY <1>1, <2>1
  <2>2. CASE /\ bills' = [b \in Bills |-> IF bills[b] = "none" THEN "none" ELSE "paid"]
             /\ skipped' = skipped
    <3>1. bills' \in [1 .. Len(bills) -> {"none", "created", "failed", "paid"}]
      BY <1>1, <2>2
    <3>2. skipped \in BOOLEAN
      BY DEF MoneyInv, MoneyTypeOK
    <3> QED BY <1>1, <2>2, <3>1, <3>2
  <2> QED BY <2>1, <2>2 DEF UpdateStateByOrder
<1>3. MoneyTypeOK' /\ PressOK' /\ HookOK' /\ CountOK'
  BY <1>2 DEF UpdateStateByOrder, MoneyInv, MoneyTypeOK, PressOK, HookOK, CountOK
<1>4. RideIsSettled'
  BY <1>0, <1>2 DEF UpdateStateByOrder, MoneyInv, RideIsSettled, PaidOrSkipped
<1> QED BY <1>3, <1>4 DEF MoneyInv
-----------------------------------------------------------------------------
LEMMA MoneyRests ==
  ASSUME MoneyInv, UNCHANGED moneyVars
  PROVE  MoneyInv'
<1>1. MoneyTypeOK' /\ PressOK' /\ HookOK' /\ CountOK'
  BY DEF moneyVars, MoneyInv, MoneyTypeOK, PressOK, HookOK, CountOK, PaidOrSkipped
<1>2. RideIsSettled'
  BY DEF moneyVars, MoneyInv, RideIsSettled, Bills
<1> QED BY <1>1, <1>2 DEF MoneyInv

LEMMA NextSettled == MoneyInv /\ [MoneyNext]_moneyVars => MoneyInv'
<1> SUFFICES ASSUME MoneyInv, [MoneyNext]_moneyVars PROVE MoneyInv'
  OBVIOUS
<1>1. ASSUME NEW r \in Press, NEW s \in FSM!Status, handleStatus(r, s)
      PROVE  MoneyInv'
  BY <1>1, handleStatusStep
<1>2. ASSUME NEW r \in Press,
             \/ handleLifecycleFinish(r) \/ handleLifecycleConfirmCash(r)
             \/ UpdateStatusWithDriverCharge(r) \/ UpdateStatusCAS(r) \/ Conflict(r)
      PROVE  MoneyInv'
  BY <1>2, FinishStep, ConfirmCashStep, ChargeStep, WriteStep, ConflictStep
<1>3. ASSUME NEW b \in Bills,
             Create(b) \/ AskProvider(b) \/ UpdateState(b) \/ MakerDies(b)
      PROVE  MoneyInv'
  BY <1>3, MakerStep
<1>4. CASE handleAirbaPayWebhook \/ UpdateStateByOrder
  BY <1>4, WebhookStep, ByOrderStep
<1>5. CASE UNCHANGED moneyVars
  BY <1>5, MoneyRests
<1> QED BY <1>1, <1>2, <1>3, <1>4, <1>5 DEF MoneyNext

THEOREM MoneyInvariance == MoneySpec => []MoneyInv
<1>1. MoneyInit => MoneyInv
  BY InitSettled
<1>2. MoneyInv /\ [MoneyNext]_moneyVars => MoneyInv'
  BY NextSettled
<1> QED BY <1>1, <1>2, PTL DEF MoneySpec

\* The money's variables keep their types: no counter passes its bound, and
\* each payment has one maker.
THEOREM MoneyTypeCorrect == MoneySpec => []MoneyTypeOK
<1>1. MoneyInv => MoneyTypeOK
  BY DEF MoneyInv
<1> QED BY <1>1, MoneyInvariance, PTL

\* However many handlers and webhooks race, the ride's commission and payments
\* agree with its status.
THEOREM RideSettled == MoneySpec => []RideIsSettled
<1>1. MoneyInv => RideIsSettled
  BY DEF MoneyInv
<1> QED BY <1>1, MoneyInvariance, PTL
-----------------------------------------------------------------------------
(* The library.  The inductive invariant keeps the account of closed       *)
(* sessions apart from the one in progress: a session that closes moves its*)
(* time from one to the other, rounded up by less than a minute.           *)

Phases ==
  {"assigned", "waiting_free", "waiting_paid", "in_progress", "at_last_point",
   "completed", "canceled_by_passenger", "canceled_by_driver", "no_show"}

Arrived == stamp["arrived"] # Never
Started == stamp["started"] # Never
Closed == sessions - (IF session.kind = "none" THEN 0 ELSE 1)
AtPickup == 2 * (minutes.free + minutes.paid)
AllBilled == 2 * (minutes.free + minutes.paid + minutes.pause)

SessionOK ==
  /\ session.kind = "free" <=> phase = "waiting_free"
  /\ session.kind = "paid" <=> phase = "waiting_paid"
  /\ session.kind = "pause" => phase = "in_progress"
  /\ session.kind # "none" => session.since <= now

PhaseOK ==
  /\ phase \in Phases
  /\ stamp["arrived"] <= now /\ stamp["started"] <= now
  /\ phase = "assigned" => ~ Arrived /\ ~ Started
  /\ phase \in {"waiting_free", "waiting_paid"} => Arrived /\ ~ Started
  /\ phase \in {"in_progress", "at_last_point", "completed"} => Arrived /\ Started
  /\ Started => Arrived
  /\ ~ Arrived => minutes = [free |-> 0, paid |-> 0, pause |-> 0] /\ session = NoSession

AccountOK ==
  /\ Closed >= 0
  /\ Arrived => AllBilled + SoFar <= now - stamp["arrived"] + Closed
  /\ session.kind \in {"free", "paid"} => AtPickup + SoFar >= now - stamp["arrived"]
  /\ Started => AtPickup >= stamp["started"] - stamp["arrived"]
  /\ session.kind = "free" => minutes.free = 0 /\ minutes.paid = 0
  /\ session.kind = "paid" \/ minutes.paid > 0 => minutes.free = MinutesOf(FreeWindow)

RideInv == RideTypeOK /\ SessionOK /\ PhaseOK /\ AccountOK /\ EndsAtLastPoint
-----------------------------------------------------------------------------
LEMMA Rounding ==
  ASSUME NEW t \in Nat
  PROVE MinutesOf(t) \in Nat /\ t <= 2 * MinutesOf(t) /\ 2 * MinutesOf(t) <= t + 1
BY DEF MinutesOf

LEMMA InitOK == RideInit => RideInv
BY RideAssumption DEF RideInit, RideInv, RideTypeOK, SessionOK, PhaseOK,
   AccountOK, EndsAtLastPoint, Phases, Arrived, Started, Closed, AtPickup,
   AllBilled, SoFar, NoSession, Never, Point, Graph!Status

ButtonType == [count : Nat, last : Never .. Horizon, until : Int]
FareType == [free : Nat, paid : Nat, pause : Nat]

LEMMA ButtonTyped ==
  ASSUME NEW a, RideTypeOK, button' = Counted(a)
  PROVE button' \in [DOMAIN Policy -> ButtonType]
<1>0. now \in Nat /\ now \in Never .. Horizon /\ button \in [DOMAIN Policy -> ButtonType]
  BY RideAssumption DEF RideTypeOK, Never, ButtonType
<1>1. CASE a \notin DOMAIN Policy
  BY <1>0, <1>1 DEF Counted
<1>2. CASE a \in DOMAIN Policy
  <2>1. Policy[a].ttl \in Nat /\ button[a] \in ButtonType
    BY <1>0, <1>2, RideAssumption
  <2>2. \A b \in ButtonType, u \in Int :
           [b EXCEPT !.count = 0, !.until = u] \in ButtonType
    BY DEF ButtonType
  <2>3. now + Policy[a].ttl \in Int
    BY <1>0, <2>1
  <2>4. Windowed(a) \in ButtonType
    BY <2>1, <2>2, <2>3 DEF Windowed
  <2>5. \A b \in ButtonType, t \in Never .. Horizon :
           [b EXCEPT !.count = @ + 1, !.last = t] \in ButtonType
    <3> SUFFICES ASSUME NEW b \in ButtonType, NEW t \in Never .. Horizon
                 PROVE [b EXCEPT !.count = b.count + 1, !.last = t] \in ButtonType
      OBVIOUS
    <3>1. b.count + 1 \in Nat
      BY DEF ButtonType
    <3> QED BY <3>1 DEF ButtonType
  <2> QED BY <1>0, <1>2, <2>4, <2>5 DEF Counted
<1> QED BY <1>1, <1>2

\* What a session that ends at a given time adds to the account.
LEMMA Bill ==
  ASSUME RideTypeOK, NEW at \in Int,
         session.kind # "none" => session.since <= at,
         minutes' = Billed(at)
  PROVE /\ minutes' \in FareType
        /\ session.kind = "none" => minutes' = minutes
        /\ session.kind # "none" =>
             /\ AllBilled' >= AllBilled + (at - session.since)
             /\ AllBilled' <= AllBilled + (at - session.since) + 1
        /\ session.kind \in {"free", "paid"} =>
             /\ AtPickup' >= AtPickup + (at - session.since)
             /\ minutes'.pause = minutes.pause
        /\ session.kind \notin {"free", "paid"} => AtPickup' = AtPickup
        /\ session.kind # "free" => minutes'.free = minutes.free
        /\ session.kind = "free" => minutes'.free = minutes.free + MinutesOf(at - session.since)
        /\ session.kind # "paid" => minutes'.paid = minutes.paid
<1>1. minutes \in FareType /\ session.kind \in {"none", "free", "paid", "pause"}
      /\ session.since \in Nat
  BY RideAssumption DEF RideTypeOK, FareType
<1>2. CASE session.kind = "none"
  BY <1>1, <1>2 DEF Billed, AtPickup
<1>3. CASE session.kind # "none"
  <2> DEFINE m == MinutesOf(at - session.since)
  <2>1. at - session.since \in Nat
    BY <1>1, <1>3
  <2>2. m \in Nat /\ at - session.since <= 2 * m /\ 2 * m <= at - session.since + 1
    BY <2>1, Rounding
  <2>3. minutes' = [minutes EXCEPT ![session.kind] = @ + m]
    BY <1>3 DEF Billed
  <2> HIDE DEF m
  <2>4. CASE session.kind = "free"
    <3>1. minutes' \in FareType /\ minutes'.free = minutes.free + m
          /\ minutes'.paid = minutes.paid /\ minutes'.pause = minutes.pause
      BY <1>1, <2>2, <2>3, <2>4 DEF FareType
    <3> QED BY <1>1, <2>1, <2>2, <2>4, <3>1 DEF AllBilled, AtPickup, FareType, m
  <2>5. CASE session.kind = "paid"
    <3>1. minutes' \in FareType /\ minutes'.free = minutes.free
          /\ minutes'.paid = minutes.paid + m /\ minutes'.pause = minutes.pause
      BY <1>1, <2>2, <2>3, <2>5 DEF FareType
    <3> QED BY <1>1, <2>1, <2>2, <2>5, <3>1 DEF AllBilled, AtPickup, FareType
  <2>6. CASE session.kind = "pause"
    <3>1. minutes' \in FareType /\ minutes'.free = minutes.free
          /\ minutes'.paid = minutes.paid /\ minutes'.pause = minutes.pause + m
      BY <1>1, <2>2, <2>3, <2>6 DEF FareType
    <3> QED BY <1>1, <2>1, <2>2, <2>6, <3>1 DEF AllBilled, AtPickup, FareType
  <2> QED BY <1>1, <1>3, <2>4, <2>5, <2>6
<1> QED BY <1>2, <1>3

LEMMA MarkDriverAtPickupOK ==
  ASSUME RideInv, MarkDriverAtPickup
  PROVE RideInv'
<1>0. RideTypeOK /\ SessionOK /\ PhaseOK /\ AccountOK /\ EndsAtLastPoint
  BY DEF RideInv
<1>1. button' \in [DOMAIN Policy -> ButtonType]
  BY <1>0, ButtonTyped DEF MarkDriverAtPickup, Presses
<1>7. RideTypeOK'
  BY <1>0, <1>1, RideAssumption DEF MarkDriverAtPickup, Attains, Moves,
     closeActiveWaiting, NoSession, Never, Phases, RideTypeOK, FareType,
     ButtonType, Graph!Status, Point, SwitchAt
<1>8. SessionOK' /\ PhaseOK'
  BY <1>0, <1>1, RideAssumption DEF MarkDriverAtPickup, Attains, Moves,
     closeActiveWaiting, NoSession, Never, Phases, RideTypeOK, SessionOK,
     PhaseOK, Arrived, Started, FareType, SwitchAt, Graph!CanTransition
<1>9. AccountOK'
  BY <1>0, <1>1, <1>7, RideAssumption DEF MarkDriverAtPickup, Attains, Moves,
     closeActiveWaiting, NoSession, Never, Phases, RideTypeOK, SessionOK,
     PhaseOK, AccountOK, Arrived, Started, Closed, AllBilled, AtPickup, SoFar,
     FareType, SwitchAt
<1>10. EndsAtLastPoint'
  BY <1>0, <1>7, RideAssumption DEF MarkDriverAtPickup, Attains, Moves,
     closeActiveWaiting, NoSession, Never, Phases, RideTypeOK, EndsAtLastPoint,
     PhaseOK, Started, Arrived, Point
<1> QED BY <1>7, <1>8, <1>9, <1>10 DEF RideInv

LEMMA StartTripOK ==
  ASSUME RideInv, StartTrip
  PROVE RideInv'
<1>0. RideTypeOK /\ SessionOK /\ PhaseOK /\ AccountOK /\ EndsAtLastPoint
  BY DEF RideInv
<1>1. button' \in [DOMAIN Policy -> ButtonType]
  BY <1>0, ButtonTyped DEF StartTrip, Presses
<1>2. now \in Nat /\ session.since \in Nat /\ FreeWindow \in Nat
  BY <1>0, RideAssumption DEF RideTypeOK
<1>3. minutes' = Billed(now)
  BY DEF StartTrip, closeActiveWaiting
<1>4. session.kind # "none" => session.since <= now
  BY <1>0, <1>2 DEF SessionOK
<1>5. now \in Int
  BY <1>2
<1>6. /\ minutes' \in FareType
      /\ session.kind = "none" => minutes' = minutes
      /\ session.kind # "none" =>
           /\ AllBilled' >= AllBilled + (now - session.since)
           /\ AllBilled' <= AllBilled + (now - session.since) + 1
      /\ session.kind \in {"free", "paid"} =>
           /\ AtPickup' >= AtPickup + (now - session.since)
           /\ minutes'.pause = minutes.pause
      /\ session.kind \notin {"free", "paid"} => AtPickup' = AtPickup
      /\ session.kind # "free" => minutes'.free = minutes.free
      /\ session.kind = "free" =>
           minutes'.free = minutes.free + MinutesOf(now - session.since)
      /\ session.kind # "paid" => minutes'.paid = minutes.paid
  BY <1>0, <1>3, <1>4, <1>5, Bill
<1>7. RideTypeOK'
  BY <1>0, <1>1, <1>2, <1>6, RideAssumption DEF StartTrip, Attains, Moves,
     closeActiveWaiting, NoSession, Never, Phases, RideTypeOK, FareType,
     ButtonType, Graph!Status, Point, SwitchAt
<1>8. SessionOK' /\ PhaseOK'
  BY <1>0, <1>1, <1>2, <1>6, RideAssumption DEF StartTrip, Attains, Moves,
     closeActiveWaiting, NoSession, Never, Phases, RideTypeOK, SessionOK,
     PhaseOK, Arrived, Started, FareType, SwitchAt, Graph!CanTransition
<1>9. AccountOK'
  BY <1>0, <1>1, <1>2, <1>6, <1>7, RideAssumption DEF StartTrip, Attains, Moves,
     closeActiveWaiting, NoSession, Never, Phases, RideTypeOK, SessionOK,
     PhaseOK, AccountOK, Arrived, Started, Closed, AllBilled, AtPickup, SoFar,
     FareType, SwitchAt
<1>10. EndsAtLastPoint'
  BY <1>0, <1>7, RideAssumption DEF StartTrip, Attains, Moves,
     closeActiveWaiting, NoSession, Never, Phases, RideTypeOK, EndsAtLastPoint,
     PhaseOK, Started, Arrived, Point
<1> QED BY <1>7, <1>8, <1>9, <1>10 DEF RideInv

LEMMA StartPauseOK ==
  ASSUME RideInv, StartPause
  PROVE RideInv'
<1>0. RideTypeOK /\ SessionOK /\ PhaseOK /\ AccountOK /\ EndsAtLastPoint
  BY DEF RideInv
<1>1. button' \in [DOMAIN Policy -> ButtonType]
  BY <1>0, ButtonTyped DEF StartPause, Presses
<1>7. RideTypeOK'
  BY <1>0, <1>1, RideAssumption DEF StartPause, Attains, Moves,
     closeActiveWaiting, NoSession, Never, Phases, RideTypeOK, FareType,
     ButtonType, Graph!Status, Point, SwitchAt
<1>8. SessionOK' /\ PhaseOK'
  BY <1>0, <1>1, RideAssumption DEF StartPause, Attains, Moves,
     closeActiveWaiting, NoSession, Never, Phases, RideTypeOK, SessionOK,
     PhaseOK, Arrived, Started, FareType, SwitchAt, Graph!CanTransition
<1>9. AccountOK'
  BY <1>0, <1>1, <1>7, RideAssumption DEF StartPause, Attains, Moves,
     closeActiveWaiting, NoSession, Never, Phases, RideTypeOK, SessionOK,
     PhaseOK, AccountOK, Arrived, Started, Closed, AllBilled, AtPickup, SoFar,
     FareType, SwitchAt
<1>10. EndsAtLastPoint'
  BY <1>0, <1>7, RideAssumption DEF StartPause, Attains, Moves,
     closeActiveWaiting, NoSession, Never, Phases, RideTypeOK, EndsAtLastPoint,
     PhaseOK, Started, Arrived, Point
<1> QED BY <1>7, <1>8, <1>9, <1>10 DEF RideInv

LEMMA EndPauseOK ==
  ASSUME RideInv, EndPause
  PROVE RideInv'
<1>0. RideTypeOK /\ SessionOK /\ PhaseOK /\ AccountOK /\ EndsAtLastPoint
  BY DEF RideInv
<1>1. button' \in [DOMAIN Policy -> ButtonType]
  BY <1>0, ButtonTyped DEF EndPause, Presses
<1>2. now \in Nat /\ session.since \in Nat /\ FreeWindow \in Nat
  BY <1>0, RideAssumption DEF RideTypeOK
<1>3. minutes' = Billed(now)
  BY DEF EndPause, closeActiveWaiting
<1>4. session.kind # "none" => session.since <= now
  BY <1>0, <1>2 DEF SessionOK
<1>5. now \in Int
  BY <1>2
<1>6. /\ minutes' \in FareType
      /\ session.kind = "none" => minutes' = minutes
      /\ session.kind # "none" =>
           /\ AllBilled' >= AllBilled + (now - session.since)
           /\ AllBilled' <= AllBilled + (now - session.since) + 1
      /\ session.kind \in {"free", "paid"} =>
           /\ AtPickup' >= AtPickup + (now - session.since)
           /\ minutes'.pause = minutes.pause
      /\ session.kind \notin {"free", "paid"} => AtPickup' = AtPickup
      /\ session.kind # "free" => minutes'.free = minutes.free
      /\ session.kind = "free" =>
           minutes'.free = minutes.free + MinutesOf(now - session.since)
      /\ session.kind # "paid" => minutes'.paid = minutes.paid
  BY <1>0, <1>3, <1>4, <1>5, Bill
<1>7. RideTypeOK'
  BY <1>0, <1>1, <1>2, <1>6, RideAssumption DEF EndPause, Attains, Moves,
     closeActiveWaiting, NoSession, Never, Phases, RideTypeOK, FareType,
     ButtonType, Graph!Status, Point, SwitchAt
<1>8. SessionOK' /\ PhaseOK'
  BY <1>0, <1>1, <1>2, <1>6, RideAssumption DEF EndPause, Attains, Moves,
     closeActiveWaiting, NoSession, Never, Phases, RideTypeOK, SessionOK,
     PhaseOK, Arrived, Started, FareType, SwitchAt, Graph!CanTransition
<1>9. AccountOK'
  BY <1>0, <1>1, <1>2, <1>6, <1>7, RideAssumption DEF EndPause, Attains, Moves,
     closeActiveWaiting, NoSession, Never, Phases, RideTypeOK, SessionOK,
     PhaseOK, AccountOK, Arrived, Started, Closed, AllBilled, AtPickup, SoFar,
     FareType, SwitchAt
<1>10. EndsAtLastPoint'
  BY <1>0, <1>7, RideAssumption DEF EndPause, Attains, Moves,
     closeActiveWaiting, NoSession, Never, Phases, RideTypeOK, EndsAtLastPoint,
     PhaseOK, Started, Arrived, Point
<1> QED BY <1>7, <1>8, <1>9, <1>10 DEF RideInv

LEMMA FinishTripOK ==
  ASSUME RideInv, FinishTrip
  PROVE RideInv'
<1>0. RideTypeOK /\ SessionOK /\ PhaseOK /\ AccountOK /\ EndsAtLastPoint
  BY DEF RideInv
<1>1. button' \in [DOMAIN Policy -> ButtonType]
  BY <1>0, ButtonTyped DEF FinishTrip, Presses
<1>2. now \in Nat /\ session.since \in Nat /\ FreeWindow \in Nat
  BY <1>0, RideAssumption DEF RideTypeOK
<1>3. minutes' = Billed(now)
  BY DEF FinishTrip, closeActiveWaiting
<1>4. session.kind # "none" => session.since <= now
  BY <1>0, <1>2 DEF SessionOK
<1>5. now \in Int
  BY <1>2
<1>6. /\ minutes' \in FareType
      /\ session.kind = "none" => minutes' = minutes
      /\ session.kind # "none" =>
           /\ AllBilled' >= AllBilled + (now - session.since)
           /\ AllBilled' <= AllBilled + (now - session.since) + 1
      /\ session.kind \in {"free", "paid"} =>
           /\ AtPickup' >= AtPickup + (now - session.since)
           /\ minutes'.pause = minutes.pause
      /\ session.kind \notin {"free", "paid"} => AtPickup' = AtPickup
      /\ session.kind # "free" => minutes'.free = minutes.free
      /\ session.kind = "free" =>
           minutes'.free = minutes.free + MinutesOf(now - session.since)
      /\ session.kind # "paid" => minutes'.paid = minutes.paid
  BY <1>0, <1>3, <1>4, <1>5, Bill
<1>7. RideTypeOK'
  BY <1>0, <1>1, <1>2, <1>6, RideAssumption DEF FinishTrip, Attains, Moves,
     closeActiveWaiting, NoSession, Never, Phases, RideTypeOK, FareType,
     ButtonType, Graph!Status, Point, SwitchAt
<1>8. SessionOK' /\ PhaseOK'
  BY <1>0, <1>1, <1>2, <1>6, RideAssumption DEF FinishTrip, Attains, Moves,
     closeActiveWaiting, NoSession, Never, Phases, RideTypeOK, SessionOK,
     PhaseOK, Arrived, Started, FareType, SwitchAt, Graph!CanTransition
<1>9. AccountOK'
  BY <1>0, <1>1, <1>2, <1>6, <1>7, RideAssumption DEF FinishTrip, Attains,
     Moves, closeActiveWaiting, NoSession, Never, Phases, RideTypeOK, SessionOK,
     PhaseOK, AccountOK, Arrived, Started, Closed, AllBilled, AtPickup, SoFar,
     FareType, SwitchAt
<1>10. EndsAtLastPoint'
  BY <1>0, <1>7, RideAssumption DEF FinishTrip, Attains, Moves,
     closeActiveWaiting, NoSession, Never, Phases, RideTypeOK, EndsAtLastPoint,
     PhaseOK, Started, Arrived, Point
<1> QED BY <1>7, <1>8, <1>9, <1>10 DEF RideInv

LEMMA MarkNoShowOK ==
  ASSUME RideInv, MarkNoShow
  PROVE RideInv'
<1>0. RideTypeOK /\ SessionOK /\ PhaseOK /\ AccountOK /\ EndsAtLastPoint
  BY DEF RideInv
<1>1. button' \in [DOMAIN Policy -> ButtonType]
  BY <1>0, ButtonTyped DEF MarkNoShow, Presses
<1>2. now \in Nat /\ session.since \in Nat /\ FreeWindow \in Nat
  BY <1>0, RideAssumption DEF RideTypeOK
<1>3. minutes' = Billed(now)
  BY DEF MarkNoShow, closeActiveWaiting
<1>4. session.kind # "none" => session.since <= now
  BY <1>0, <1>2 DEF SessionOK
<1>5. now \in Int
  BY <1>2
<1>6. /\ minutes' \in FareType
      /\ session.kind = "none" => minutes' = minutes
      /\ session.kind # "none" =>
           /\ AllBilled' >= AllBilled + (now - session.since)
           /\ AllBilled' <= AllBilled + (now - session.since) + 1
      /\ session.kind \in {"free", "paid"} =>
           /\ AtPickup' >= AtPickup + (now - session.since)
           /\ minutes'.pause = minutes.pause
      /\ session.kind \notin {"free", "paid"} => AtPickup' = AtPickup
      /\ session.kind # "free" => minutes'.free = minutes.free
      /\ session.kind = "free" =>
           minutes'.free = minutes.free + MinutesOf(now - session.since)
      /\ session.kind # "paid" => minutes'.paid = minutes.paid
  BY <1>0, <1>3, <1>4, <1>5, Bill
<1>7. RideTypeOK'
  BY <1>0, <1>1, <1>2, <1>6, RideAssumption DEF MarkNoShow, Attains, Moves,
     closeActiveWaiting, NoSession, Never, Phases, RideTypeOK, FareType,
     ButtonType, Graph!Status, Point, SwitchAt
<1>8. SessionOK' /\ PhaseOK'
  BY <1>0, <1>1, <1>2, <1>6, RideAssumption DEF MarkNoShow, Attains, Moves,
     closeActiveWaiting, NoSession, Never, Phases, RideTypeOK, SessionOK,
     PhaseOK, Arrived, Started, FareType, SwitchAt, Graph!CanTransition
<1>9. AccountOK'
  BY <1>0, <1>1, <1>2, <1>6, <1>7, RideAssumption DEF MarkNoShow, Attains,
     Moves, closeActiveWaiting, NoSession, Never, Phases, RideTypeOK, SessionOK,
     PhaseOK, AccountOK, Arrived, Started, Closed, AllBilled, AtPickup, SoFar,
     FareType, SwitchAt
<1>10. EndsAtLastPoint'
  BY <1>0, <1>7, RideAssumption DEF MarkNoShow, Attains, Moves,
     closeActiveWaiting, NoSession, Never, Phases, RideTypeOK, EndsAtLastPoint,
     PhaseOK, Started, Arrived, Point
<1> QED BY <1>7, <1>8, <1>9, <1>10 DEF RideInv

LEMMA AdvanceWaitingOK ==
  ASSUME RideInv, AdvanceWaiting
  PROVE RideInv'
<1>0. RideTypeOK /\ SessionOK /\ PhaseOK /\ AccountOK /\ EndsAtLastPoint
  BY DEF RideInv
<1>1. button' \in [DOMAIN Policy -> ButtonType]
  BY <1>0 DEF AdvanceWaiting, RideTypeOK, ButtonType
<1>2. now \in Nat /\ session.since \in Nat /\ FreeWindow \in Nat
  BY <1>0, RideAssumption DEF RideTypeOK
<1>3. minutes' = Billed((session.since + FreeWindow))
  BY DEF AdvanceWaiting
<1>4. session.kind # "none" => session.since <= (session.since + FreeWindow)
  BY <1>0, <1>2 DEF SessionOK
<1>5. (session.since + FreeWindow) \in Int
  BY <1>2
<1>6. /\ minutes' \in FareType
      /\ session.kind = "none" => minutes' = minutes
      /\ session.kind # "none" =>
           /\ AllBilled' >= AllBilled + ((session.since + FreeWindow) - session.since)
           /\ AllBilled' <= AllBilled + ((session.since + FreeWindow) - session.since) + 1
      /\ session.kind \in {"free", "paid"} =>
           /\ AtPickup' >= AtPickup + ((session.since + FreeWindow) - session.since)
           /\ minutes'.pause = minutes.pause
      /\ session.kind \notin {"free", "paid"} => AtPickup' = AtPickup
      /\ session.kind # "free" => minutes'.free = minutes.free
      /\ session.kind = "free" =>
           minutes'.free = minutes.free + MinutesOf((session.since + FreeWindow) - session.since)
      /\ session.kind # "paid" => minutes'.paid = minutes.paid
  BY <1>0, <1>3, <1>4, <1>5, Bill
<1>7. RideTypeOK'
  BY <1>0, <1>1, <1>2, <1>6, RideAssumption DEF AdvanceWaiting, Attains, Moves,
     closeActiveWaiting, NoSession, Never, Phases, RideTypeOK, FareType,
     ButtonType, Graph!Status, Point, SwitchAt
<1>8. SessionOK' /\ PhaseOK'
  BY <1>0, <1>1, <1>2, <1>6, RideAssumption DEF AdvanceWaiting, Attains, Moves,
     closeActiveWaiting, NoSession, Never, Phases, RideTypeOK, SessionOK,
     PhaseOK, Arrived, Started, FareType, SwitchAt, Graph!CanTransition
<1>9. AccountOK'
  <2>1. (session.since + FreeWindow) - session.since = FreeWindow
    BY <1>2
  <2>2. session.kind = "free" /\ session' = [kind |-> "paid", since |-> session.since + FreeWindow]
        /\ sessions' = sessions + 1 /\ UNCHANGED <<now, stamp>>
    BY DEF AdvanceWaiting, SwitchAt
  <2>3. Arrived /\ ~ Started
    BY <1>0, <2>2 DEF PhaseOK, SessionOK
  <2>4. stamp["arrived"] \in Int /\ sessions \in Nat /\ minutes \in FareType
    BY <1>0 DEF RideTypeOK, FareType, Never
  <2>5. /\ Closed >= 0 /\ Closed = sessions - 1
        /\ AllBilled + (now - session.since) <= now - stamp["arrived"] + Closed
        /\ AtPickup + (now - session.since) >= now - stamp["arrived"]
        /\ minutes.free = 0 /\ minutes.paid = 0
    BY <1>0, <2>2, <2>3 DEF AccountOK, SoFar, Closed
  <2>6. Closed' = sessions /\ SoFar' = now - (session.since + FreeWindow)
    BY <1>2, <2>2, <2>4 DEF Closed, SoFar
  <2>7. minutes'.free = MinutesOf(FreeWindow)
    <3>1. minutes'.free = minutes.free + MinutesOf((session.since + FreeWindow) - session.since)
      BY <1>6, <2>2, Zenon
    <3>2. MinutesOf((session.since + FreeWindow) - session.since) = MinutesOf(FreeWindow)
      BY <2>1
    <3>3. MinutesOf(FreeWindow) \in Nat
      BY <1>2, Rounding
    <3> QED BY <2>5, <3>1, <3>2, <3>3
  <2>8. /\ AllBilled' <= AllBilled + FreeWindow + 1
        /\ AtPickup' >= AtPickup + FreeWindow
    BY <1>6, <2>1, <2>2
  <2>9. AllBilled \in Int /\ AllBilled' \in Int /\ AtPickup \in Int /\ AtPickup' \in Int
    BY <1>6, <2>4 DEF AllBilled, AtPickup, FareType
  <2>10. AllBilled' + SoFar' <= now - stamp["arrived"] + Closed'
    BY <1>2, <2>4, <2>5, <2>6, <2>8, <2>9
  <2>11. AtPickup' + SoFar' >= now - stamp["arrived"]
    BY <1>2, <2>4, <2>5, <2>6, <2>8, <2>9
  <2> QED BY <2>2, <2>3, <2>4, <2>5, <2>6, <2>7, <2>10, <2>11 DEF AccountOK, Arrived, Started
<1>10. EndsAtLastPoint'
  BY <1>0, <1>7, RideAssumption DEF AdvanceWaiting, Attains, Moves,
     closeActiveWaiting, NoSession, Never, Phases, RideTypeOK, EndsAtLastPoint,
     PhaseOK, Started, Arrived, Point
<1> QED BY <1>7, <1>8, <1>9, <1>10 DEF RideInv

LEMMA ReachWaypointOK ==
  ASSUME RideInv, ReachWaypoint
  PROVE RideInv'
<1>0. RideTypeOK /\ SessionOK /\ PhaseOK /\ AccountOK /\ EndsAtLastPoint
  BY DEF RideInv
<1>1. button' \in [DOMAIN Policy -> ButtonType]
  BY <1>0 DEF ReachWaypoint, RideTypeOK, ButtonType
<1>7. RideTypeOK'
  BY <1>0, <1>1, RideAssumption DEF ReachWaypoint, Attains, Moves,
     closeActiveWaiting, NoSession, Never, Phases, RideTypeOK, FareType,
     ButtonType, Graph!Status, Point, SwitchAt
<1>8. SessionOK' /\ PhaseOK'
  BY <1>0, <1>1, RideAssumption DEF ReachWaypoint, Attains, Moves,
     closeActiveWaiting, NoSession, Never, Phases, RideTypeOK, SessionOK,
     PhaseOK, Arrived, Started, FareType, SwitchAt, Graph!CanTransition
<1>9. AccountOK'
  BY <1>0, <1>1, <1>7, RideAssumption DEF ReachWaypoint, Attains, Moves,
     closeActiveWaiting, NoSession, Never, Phases, RideTypeOK, SessionOK,
     PhaseOK, AccountOK, Arrived, Started, Closed, AllBilled, AtPickup, SoFar,
     FareType, SwitchAt
<1>10. EndsAtLastPoint'
  BY <1>0, <1>7, RideAssumption DEF ReachWaypoint, Attains, Moves,
     closeActiveWaiting, NoSession, Never, Phases, RideTypeOK, EndsAtLastPoint,
     PhaseOK, Started, Arrived, Point
<1> QED BY <1>7, <1>8, <1>9, <1>10 DEF RideInv

LEMMA ConfirmCashPaymentOK ==
  ASSUME RideInv, ConfirmCashPayment
  PROVE RideInv'
<1>0. RideTypeOK /\ SessionOK /\ PhaseOK /\ AccountOK /\ EndsAtLastPoint
  BY DEF RideInv
<1>1. button' \in [DOMAIN Policy -> ButtonType]
  BY <1>0 DEF ConfirmCashPayment, RideTypeOK, ButtonType
<1>2. now \in Nat /\ session.since \in Nat /\ FreeWindow \in Nat
  BY <1>0, RideAssumption DEF RideTypeOK
<1>3. minutes' = Billed(now)
  BY DEF ConfirmCashPayment, closeActiveWaiting
<1>4. session.kind # "none" => session.since <= now
  BY <1>0, <1>2 DEF SessionOK
<1>5. now \in Int
  BY <1>2
<1>6. /\ minutes' \in FareType
      /\ session.kind = "none" => minutes' = minutes
      /\ session.kind # "none" =>
           /\ AllBilled' >= AllBilled + (now - session.since)
           /\ AllBilled' <= AllBilled + (now - session.since) + 1
      /\ session.kind \in {"free", "paid"} =>
           /\ AtPickup' >= AtPickup + (now - session.since)
           /\ minutes'.pause = minutes.pause
      /\ session.kind \notin {"free", "paid"} => AtPickup' = AtPickup
      /\ session.kind # "free" => minutes'.free = minutes.free
      /\ session.kind = "free" =>
           minutes'.free = minutes.free + MinutesOf(now - session.since)
      /\ session.kind # "paid" => minutes'.paid = minutes.paid
  BY <1>0, <1>3, <1>4, <1>5, Bill
<1>7. RideTypeOK'
  BY <1>0, <1>1, <1>2, <1>6, RideAssumption DEF ConfirmCashPayment, Attains,
     Moves, closeActiveWaiting, NoSession, Never, Phases, RideTypeOK, FareType,
     ButtonType, Graph!Status, Point, SwitchAt
<1>8. SessionOK' /\ PhaseOK'
  BY <1>0, <1>1, <1>2, <1>6, RideAssumption DEF ConfirmCashPayment, Attains,
     Moves, closeActiveWaiting, NoSession, Never, Phases, RideTypeOK, SessionOK,
     PhaseOK, Arrived, Started, FareType, SwitchAt, Graph!CanTransition
<1>9. AccountOK'
  BY <1>0, <1>1, <1>2, <1>6, <1>7, RideAssumption DEF ConfirmCashPayment,
     Attains, Moves, closeActiveWaiting, NoSession, Never, Phases, RideTypeOK,
     SessionOK, PhaseOK, AccountOK, Arrived, Started, Closed, AllBilled,
     AtPickup, SoFar, FareType, SwitchAt
<1>10. EndsAtLastPoint'
  BY <1>0, <1>7, RideAssumption DEF ConfirmCashPayment, Attains, Moves,
     closeActiveWaiting, NoSession, Never, Phases, RideTypeOK, EndsAtLastPoint,
     PhaseOK, Started, Arrived, Point
<1> QED BY <1>7, <1>8, <1>9, <1>10 DEF RideInv

LEMMA PassesOK ==
  ASSUME RideInv, Passes
  PROVE RideInv'
<1>0. RideTypeOK /\ SessionOK /\ PhaseOK /\ AccountOK /\ EndsAtLastPoint
  BY DEF RideInv
<1>1. button' \in [DOMAIN Policy -> ButtonType]
  BY <1>0 DEF Passes, RideTypeOK, ButtonType
<1>7. RideTypeOK'
  BY <1>0, <1>1, RideAssumption DEF Passes, Attains, Moves, closeActiveWaiting,
     NoSession, Never, Phases, RideTypeOK, FareType, ButtonType, Graph!Status,
     Point, SwitchAt
<1>8. SessionOK' /\ PhaseOK'
  BY <1>0, <1>1, RideAssumption DEF Passes, Attains, Moves, closeActiveWaiting,
     NoSession, Never, Phases, RideTypeOK, SessionOK, PhaseOK, Arrived, Started,
     FareType, SwitchAt, Graph!CanTransition
<1>9. AccountOK'
  BY <1>0, <1>1, <1>7, RideAssumption DEF Passes, Attains, Moves,
     closeActiveWaiting, NoSession, Never, Phases, RideTypeOK, SessionOK,
     PhaseOK, AccountOK, Arrived, Started, Closed, AllBilled, AtPickup, SoFar,
     FareType, SwitchAt
<1>10. EndsAtLastPoint'
  BY <1>0, <1>7, RideAssumption DEF Passes, Attains, Moves, closeActiveWaiting,
     NoSession, Never, Phases, RideTypeOK, EndsAtLastPoint, PhaseOK, Started,
     Arrived, Point
<1> QED BY <1>7, <1>8, <1>9, <1>10 DEF RideInv

LEMMA CancelOK ==
  ASSUME RideInv, NEW canceled \in Graph!CanceledByEither, CancelBy(canceled)
  PROVE RideInv'
<1>0. RideTypeOK /\ SessionOK /\ PhaseOK /\ AccountOK /\ EndsAtLastPoint
  BY DEF RideInv
<1>1. button' \in [DOMAIN Policy -> ButtonType]
  BY <1>0, ButtonTyped DEF CancelBy, Presses
<1>2. now \in Nat /\ session.since \in Nat
  BY <1>0, RideAssumption DEF RideTypeOK
<1>3. minutes' = Billed(now)
  BY DEF CancelBy, closeActiveWaiting
<1>4. session.kind # "none" => session.since <= now
  BY <1>0 DEF SessionOK
<1>5. now \in Int
  BY <1>2
<1>6. /\ minutes' \in FareType
      /\ session.kind = "none" => minutes' = minutes
      /\ session.kind # "none" =>
           /\ AllBilled' >= AllBilled + (now - session.since)
           /\ AllBilled' <= AllBilled + (now - session.since) + 1
      /\ session.kind \in {"free", "paid"} =>
           /\ AtPickup' >= AtPickup + (now - session.since)
           /\ minutes'.pause = minutes.pause
      /\ session.kind \notin {"free", "paid"} => AtPickup' = AtPickup
      /\ session.kind # "free" => minutes'.free = minutes.free
      /\ session.kind = "free" =>
           minutes'.free = minutes.free + MinutesOf(now - session.since)
      /\ session.kind # "paid" => minutes'.paid = minutes.paid
  BY <1>0, <1>3, <1>4, <1>5, Bill
\* A phase that a session belongs to has an edge to the cancellation.
<1>7. /\ phase \in {"assigned", "waiting_free", "waiting_paid", "in_progress"} =>
           phase' = canceled
      /\ phase' \in {phase, canceled}
      /\ canceled \in {"canceled_by_passenger", "canceled_by_driver"}
  BY DEF CancelBy, Graph!CanTransition, Graph!Edges, Graph!Row,
     Graph!CanceledByEither
<1>8. RideTypeOK'
  BY <1>0, <1>1, <1>6, <1>7, RideAssumption DEF CancelBy, closeActiveWaiting,
     NoSession, Never, RideTypeOK, FareType, ButtonType, Graph!Status, Point
<1>9. SessionOK' /\ PhaseOK'
  BY <1>0, <1>2, <1>6, <1>7, RideAssumption DEF CancelBy, closeActiveWaiting,
     NoSession, Never, Phases, RideTypeOK, SessionOK, PhaseOK, Arrived, Started,
     FareType
<1>10. AccountOK'
  BY <1>0, <1>2, <1>6, <1>7, <1>8, RideAssumption DEF CancelBy,
     closeActiveWaiting, NoSession, Never, RideTypeOK, SessionOK, PhaseOK,
     AccountOK, Arrived, Started, Closed, AllBilled, AtPickup, SoFar, FareType
<1>11. EndsAtLastPoint'
  BY <1>0, <1>7, <1>8 DEF CancelBy, EndsAtLastPoint
<1> QED BY <1>8, <1>9, <1>10, <1>11 DEF RideInv

LEMMA PressedOK ==
  ASSUME RideInv, NEW a \in DOMAIN Policy, Pressed(a)
  PROVE RideInv'
<1>1. button' \in [DOMAIN Policy -> ButtonType]
  BY ButtonTyped DEF Pressed, RideInv
<1>2. UNCHANGED <<now, phase, next, reached, session, sessions, minutes, stamp>>
  BY DEF Pressed
<1> QED BY <1>1, <1>2 DEF RideInv, RideTypeOK, SessionOK, PhaseOK, AccountOK, EndsAtLastPoint,
     ButtonType, Arrived, Started, Closed, AllBilled, AtPickup, SoFar

LEMMA RideRests == ASSUME RideInv, UNCHANGED tripVars PROVE RideInv'
BY DEF tripVars, RideInv, RideTypeOK, SessionOK, PhaseOK, AccountOK,
   EndsAtLastPoint, Arrived, Started, Closed, AllBilled, AtPickup, SoFar

LEMMA StepOK == ASSUME RideInv, [RideNext]_tripVars PROVE RideInv'
<1>1. CASE UNCHANGED tripVars
  BY <1>1, RideRests
<1>2. CASE RideNext
  <2>1. CASE MarkDriverAtPickup \/ AdvanceWaiting \/ StartTrip \/ ReachWaypoint
    BY <2>1, MarkDriverAtPickupOK, AdvanceWaitingOK, StartTripOK,
       ReachWaypointOK
  <2>2. CASE StartPause \/ EndPause \/ FinishTrip \/ ConfirmCashPayment
    BY <2>2, StartPauseOK, EndPauseOK, FinishTripOK, ConfirmCashPaymentOK
  <2>3. CASE CancelByPassenger \/ CancelByDriver
    BY <2>3, CancelOK DEF CancelByPassenger, CancelByDriver,
       Graph!CanceledByEither
  <2>4. CASE MarkNoShow \/ Passes
    BY <2>4, MarkNoShowOK, PassesOK
  <2>5. CASE \E a \in DOMAIN Policy : Pressed(a)
    BY <2>5, PressedOK
  <2> QED BY <1>2, <2>1, <2>2, <2>3, <2>4, <2>5 DEF RideNext
<1> QED BY <1>1, <1>2

\* The session in progress counts as one that may yet be rounded up.
LEMMA Implied == RideInv => RideTypeOK /\ RideAddsUp
<1> SUFFICES ASSUME RideInv PROVE RideAddsUp
  BY DEF RideInv
<1>1. minutes \in FareType /\ sessions \in Nat /\ now \in Nat /\ stamp["arrived"] \in Int
      /\ (session.kind # "none" => session.since \in Nat)
  BY RideAssumption DEF RideInv, RideTypeOK, FareType, Never
<1>2. Closed <= sessions /\ Closed \in Int /\ AllBilled \in Int /\ AtPickup \in Int
      /\ SoFar \in Int
  BY <1>1 DEF Closed, AllBilled, AtPickup, SoFar, FareType
<1>3. Arrived => AllBilled + SoFar <= now - stamp["arrived"] + sessions
  BY <1>1, <1>2 DEF RideInv, AccountOK
<1>4. stamp["arrived"] = Never => AllBilled = 0
  BY DEF RideInv, PhaseOK, Arrived, AllBilled
<1>5. WaitingAddsUp
  BY <1>1, <1>2, <1>3, <1>4 DEF RideInv, WaitingAddsUp, SessionOK, PhaseOK,
     AccountOK, Arrived, Started, AllBilled, AtPickup, FareType
<1> QED BY <1>5 DEF RideInv, RideAddsUp
-----------------------------------------------------------------------------
\* RideInv holds after any sequence of calls.
THEOREM RideInvariance == RideSpec => []RideInv
<1>1. RideInit => RideInv
  BY InitOK
<1>2. RideInv /\ [RideNext]_tripVars => RideInv'
  BY StepOK
<1> QED BY <1>1, <1>2, PTL DEF RideSpec

\* Every field of an Order keeps its type, however long the ride.
THEOREM RideTypeCorrect == RideSpec => []RideTypeOK
BY RideInvariance, Implied, PTL

\* closeActiveWaiting and AdvanceWaiting bill each moment of waiting once, and
\* a trip ends only at its final point.
THEOREM RideIsBilled == RideSpec => []RideAddsUp
BY RideInvariance, Implied, PTL
=============================================================================
