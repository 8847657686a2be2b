------------------------------- MODULE Invoices -------------------------------
(***************************************************************************)
(* Invoices paid through AirbaPay: the requests that create them, the      *)
(* provider's callbacks, and what a paid invoice grants its user.          *)
(*                                                                         *)
(* One step is one database statement, one call to the provider, or the    *)
(* execution of one target (a deposit, a subscription, seats, a promotion).*)
(* The provider is external: it may deliver any callback late, several     *)
(* times and out of order, but says "success" only of what was paid.       *)
(* Amounts are left out: a target is granted by a callback or it is not.   *)
(***************************************************************************)
EXTENDS FiniteSets, Integers

CONSTANTS
  Invoice,    \* identities, one per request to pay
  Product,    \* what one invoice may grant
  Responses,  \* the product that is granted by the invoice's description
  Delivery    \* the callbacks the provider ever delivers: a bound

ASSUME ResponsesIsProduct == Responses \in Product

Target == Product \ {Responses}   \* products with a row in invoice_targets

VARIABLES
  status,   \* invoices.status, "none" before the row exists
  target,   \* invoice_targets: no row, stored, or with processed_at
  wanted,   \* the products the request asked for
  payment,  \* how far the request that creates the invoice has got
  charge,   \* the provider's side of the invoice
  granted,  \* the callbacks that granted a product
  hook      \* the handling of each callback

vars == <<status, target, wanted, payment, charge, granted, hook>>
request == <<target, wanted, payment>>

InvoiceStatus ==
  {"none", "pending", "created", "error", "paid", "failed", "other"}

HookRecord ==
  [pc : {"undelivered", "AddResponses", "ListTargets", "Execute",
         "MarkProcessed", "done"},
   i : Invoice \cup {"none"},
   todo : SUBSET Target,            \* targets listed and not yet executed
   k : Target \cup {"none"},        \* the target just executed
   late : SUBSET Target]            \* history: processed when it was received

NoHook ==
  [pc |-> "undelivered", i |-> "none", todo |-> {}, k |-> "none", late |-> {}]

TypeOK ==
  /\ status \in [Invoice -> InvoiceStatus]
  /\ target \in [Invoice -> [Target -> {"none", "stored", "processed"}]]
  /\ wanted \in [Invoice -> SUBSET Product]
  /\ payment \in
       [Invoice -> {"none", "AddTarget", "SaveStatus", "SaveError", "done"}]
  /\ charge \in [Invoice -> {"none", "open", "paid"}]
  /\ granted \in [Invoice -> [Product -> SUBSET Delivery]]
  /\ hook \in [Delivery -> HookRecord]

Init ==
  /\ status = [i \in Invoice |-> "none"]
  /\ target = [i \in Invoice |-> [k \in Target |-> "none"]]
  /\ wanted = [i \in Invoice |-> {}]
  /\ payment = [i \in Invoice |-> "none"]
  /\ charge = [i \in Invoice |-> "none"]
  /\ granted = [i \in Invoice |-> [p \in Product |-> {}]]
  /\ hook = [d \in Delivery |-> NoHook]
-----------------------------------------------------------------------------
(* A request to pay.                                                       *)

SetStatus(i, s) == status' = [status EXCEPT ![i] = s]

SetPayment(i, pc) == payment' = [payment EXCEPT ![i] = pc]

SetTarget(i, k, s) == target' = [target EXCEPT ![i][k] = s]

\* Slip: an AddTarget that failed does not end the request.
AllStored_Unchecked(i) == TRUE

\* Every target of the request has its row; an AddTarget that fails ends it.
AllStored(i) == \A k \in wanted[i] \cap Target : target[i][k] # "none"

CreateInvoice(i) ==
  /\ payment[i] = "none"
  /\ \E products \in SUBSET Product :
       wanted' = [wanted EXCEPT ![i] = products]
  /\ SetStatus(i, "pending")
  /\ SetPayment(i, "AddTarget")
  /\ UNCHANGED <<target, charge, granted, hook>>

AddTarget(i, k) ==
  /\ payment[i] = "AddTarget"
  /\ k \in wanted[i]
  /\ target[i][k] = "none"
  /\ SetTarget(i, k, "stored")
  /\ UNCHANGED <<status, wanted, payment, charge, granted, hook>>

\* The provider opens a charge; its answer may be lost.
CreatePaymentLink(i) ==
  /\ payment[i] = "AddTarget"
  /\ AllStored(i)
  /\ \/ /\ charge' = [charge EXCEPT ![i] = "open"]
        /\ payment' \in {[payment EXCEPT ![i] = pc] :
                           pc \in {"SaveStatus", "SaveError"}}
     \/ UNCHANGED charge /\ SetPayment(i, "SaveError")
  /\ UNCHANGED <<status, target, wanted, granted, hook>>

\* Slip: a refusal has no status of the provider's to store.
SaveStatus_Empty(i) ==
  /\ payment[i] \in {"SaveStatus", "SaveError"}
  /\ SetStatus(i, IF payment[i] = "SaveStatus" THEN "created" ELSE "")
  /\ SetPayment(i, "done")
  /\ UNCHANGED <<target, wanted, charge, granted, hook>>

\* The request's last statement, whatever a callback has written meanwhile.
SaveStatus(i) ==
  /\ payment[i] \in {"SaveStatus", "SaveError"}
  /\ SetStatus(i, IF payment[i] = "SaveStatus" THEN "created" ELSE "error")
  /\ SetPayment(i, "done")
  /\ UNCHANGED <<target, wanted, charge, granted, hook>>

\* A statement fails, the client goes away or the process dies.
AbortPayment(i) ==
  /\ payment[i] \notin {"none", "done"}
  /\ SetPayment(i, "done")
  /\ UNCHANGED <<status, target, wanted, charge, granted, hook>>

\* The user pays at the provider.
Pay(i) ==
  /\ charge[i] = "open"
  /\ charge' = [charge EXCEPT ![i] = "paid"]
  /\ UNCHANGED <<status, request, granted, hook>>
-----------------------------------------------------------------------------
(* Callbacks.                                                              *)

Goto(d, pc) == hook' = [hook EXCEPT ![d].pc = pc]

\* Slip: a status the handler does not know is taken for a success.
IsSuccess_Default(s) == s # "failed"

\* "success" stands for the six statuses that mean the money is there,
\* "failed" for the five of a failure, "other" for any other.
IsSuccess(s) == s = "success"

\* What the provider may say of an invoice, at once or much later.
Says(i, s) ==
  \/ s = "success" /\ charge[i] = "paid"
  \/ s \in {"failed", "other"} /\ charge[i] # "none"

\* Callback: the status is written whatever it was; a success goes on.
Callback(d, i, s) ==
  /\ hook[d].pc = "undelivered"
  /\ Says(i, s)
  /\ IF IsSuccess(s)
       THEN /\ SetStatus(i, "paid")
            /\ hook' = [hook EXCEPT
                 ![d].pc = "AddResponses", ![d].i = i,
                 ![d].late = {k \in Target : target[i][k] = "processed"}]
       ELSE /\ SetStatus(i, s)
            /\ hook' = [hook EXCEPT ![d].pc = "done", ![d].i = i]
  /\ UNCHANGED <<request, charge, granted>>

\* The product p is granted, or it fails with or without effect.
Grant(d, p) == granted' = [granted EXCEPT ![hook[d].i][p] = @ \cup {d}]

\* applyInvoiceReward: decided by the description, an error is only logged.
AddResponsesBalance(d) ==
  /\ hook[d].pc = "AddResponses"
  /\ \/ Responses \in wanted[hook[d].i] /\ Grant(d, Responses)
     \/ UNCHANGED granted
  /\ Goto(d, "ListTargets")
  /\ UNCHANGED <<status, request, charge>>

\* Slip: processed_at is not looked at.
Unprocessed_All(i) == {k \in Target : target[i][k] # "none"}

Unprocessed(i) == {k \in Target : target[i][k] = "stored"}

\* Targets without processed_at when the list was read.
ListTargets(d) ==
  /\ hook[d].pc = "ListTargets"
  /\ hook' = [hook EXCEPT ![d].pc = "Execute",
                          ![d].todo = Unprocessed(hook[d].i)]
  /\ UNCHANGED <<status, request, charge, granted>>

ExecuteTarget(d, k) ==
  /\ hook[d].pc = "Execute"
  /\ k \in hook[d].todo
  /\ Grant(d, k)
  /\ hook' = [hook EXCEPT ![d].pc = "MarkProcessed", ![d].k = k,
                          ![d].todo = @ \ {k}]
  /\ UNCHANGED <<status, request, charge>>

\* Slip: an error is logged and the target marked all the same.
ExecuteFails_Marked(d, k) ==
  /\ hook[d].pc = "Execute"
  /\ k \in hook[d].todo
  /\ Grant(d, k) \/ UNCHANGED granted
  /\ hook' = [hook EXCEPT ![d].pc = "MarkProcessed", ![d].k = k,
                          ![d].todo = @ \ {k}]
  /\ UNCHANGED <<status, request, charge>>

\* An error, before or after the target took effect: on to the next one.
ExecuteFails(d, k) ==
  /\ hook[d].pc = "Execute"
  /\ k \in hook[d].todo
  /\ Grant(d, k) \/ UNCHANGED granted
  /\ hook' = [hook EXCEPT ![d].todo = @ \ {k}]
  /\ UNCHANGED <<status, request, charge>>

MarkTargetProcessed(d) ==
  /\ hook[d].pc = "MarkProcessed"
  /\ \/ SetTarget(hook[d].i, hook[d].k, "processed")
     \/ UNCHANGED target
  /\ Goto(d, "Execute")
  /\ UNCHANGED <<status, wanted, payment, charge, granted>>

\* The loop is over, a statement fails, the provider hangs up (the statements
\* use the request's context) or the process dies.
EndCallback(d) ==
  /\ hook[d].pc \notin {"undelivered", "done"}
  /\ Goto(d, "done")
  /\ UNCHANGED <<status, request, charge, granted>>
-----------------------------------------------------------------------------
Next ==
  \/ \E i \in Invoice :
       \/ CreateInvoice(i)
       \/ \E k \in Target : AddTarget(i, k)
       \/ CreatePaymentLink(i)
       \/ SaveStatus(i)
       \/ AbortPayment(i)
       \/ Pay(i)
  \/ \E d \in Delivery :
       \/ \E i \in Invoice, s \in {"success", "failed", "other"} :
            Callback(d, i, s)
       \/ AddResponsesBalance(d)
       \/ ListTargets(d)
       \/ \E k \in Target : ExecuteTarget(d, k) \/ ExecuteFails(d, k)
       \/ MarkTargetProcessed(d)
       \/ EndCallback(d)

Spec == Init /\ [][Next]_vars
-----------------------------------------------------------------------------
(* Properties.                                                             *)

\* Nothing is granted that was not asked for and paid, although a callback
\* works on for several steps and others overwrite the status meanwhile.
GrantedWasPaid ==
  \A i \in Invoice, p \in Product :
    granted[i][p] # {} => charge[i] = "paid" /\ p \in wanted[i]

\* A target with processed_at was executed: no error, crash or overlap of two
\* callbacks makes the next callback pass over a target that was not.
ProcessedWasGranted ==
  \A i \in Invoice, k \in Target :
    target[i][k] = "processed" => granted[i][k] # {}

\* Before the provider can take any money all targets of the request have
\* their rows, so that the first callback's list misses none.
PaymentSeesTargets ==
  \A i \in Invoice :
    charge[i] # "none" =>
      \A k \in wanted[i] \cap Target : target[i][k] # "none"

\* A target that has processed_at when a callback is received, repeated or
\* late, is not executed by that callback.
RepeatedCallbackGrantsNothing ==
  \A d \in Delivery, i \in Invoice, k \in Target :
    d \in granted[i][k] => k \notin hook[d].late

\* What a callback in progress is still to grant when w was asked for.
ClaimsOf(h, w) ==
  CASE h.pc = "AddResponses" -> {h.i} \X ({Responses} \cap w[h.i])
    [] h.pc \in {"Execute", "MarkProcessed"} -> {h.i} \X h.todo
    [] OTHER -> {}

Claims == [d \in Delivery |-> ClaimsOf(hook[d], wanted)]
Settled == [i \in Invoice |-> {k \in Target : target[i][k] = "processed"}]

Book ==
  INSTANCE Ledger WITH
    Account <- Invoice, Item <- Product, Agent <- Delivery,
    Lists <- {{Responses}, Target},
    asked <- wanted, money <- charge, doers <- granted,
    claims <- Claims, settled <- Settled

\* Seen through this mapping, invoices keep what Ledger promises, however
\* requests stop half-way and callbacks repeat, overlap and fail: what was not
\* paid is not granted, a callback grants nothing twice and nothing that was
\* processed when it read the list, its list misses no target, and a target
\* that is processed was granted.
ImplementsLedger == Book!Spec

\* What the payment documentation says of processed_at: it prevents a second
\* grant when callbacks are repeated.
TargetGrantedOnce ==
  \A i \in Invoice, k \in Target : Cardinality(granted[i][k]) <= 1
=============================================================================
