------------------------------- MODULE TaxiMoney --------------------------------
(***************************************************************************)
(* The money of one taxi ride once the passenger is on board: the          *)
(* commission taken when it is completed, and the payments that are asked  *)
(* for and confirmed.  taxi/http/server.go, taxi/repo/payments.go.         *)
(*                                                                         *)
(* A handler reads the order and then writes it if it is unchanged; a      *)
(* payment is made in the background; the provider confirms it whenever,   *)
(* and as often as, it likes.  Who may be on the order is in TaxiOrders.   *)
(***************************************************************************)
EXTENDS Integers, Sequences

CONSTANTS
  Press,            \* handlers in flight: bounds concurrency only
  MaxPay            \* bounds the completions of the ride

ASSUME MoneyAssumption == MaxPay \in Nat

VARIABLES
  ride,       \* orders.status
  online,     \* orders.payment_method; never changes
  taken,      \* commissions taken from the driver's balance
  bills,      \* payments.state, in the order of payments begun; "none" before
              \* the row is there
  maker,      \* what createPayment has left to do for each
  press,      \* handlers in flight
  hooks,      \* webhooks between their two statements
  cash,       \* history: completed by confirm-cash
  again,      \* history: how often it was completed when it was already
  skipped     \* history: one of a webhook's two statements failed

moneyVars ==
  <<ride, online, taken, bills, maker, press, hooks, cash, again, skipped>>

FSM == INSTANCE TaxiFSM

NoPress == [pc |-> "none", old |-> "none", new |-> "none"]
Bills == DOMAIN bills

MoneyTypeOK ==
  /\ ride \in FSM!Status /\ online \in BOOLEAN
  /\ taken \in 0 .. MaxPay /\ again \in 0 .. MaxPay
  /\ bills \in Seq({"none", "created", "failed", "paid"})
  /\ maker \in Seq({"insert", "ask", "answer", "done"}) /\ Len(maker) = Len(bills)
  /\ press \in [Press -> {NoPress} \cup
       [pc : {"charge", "write", "cash"}, old : FSM!Status, new : FSM!Status]]
  /\ hooks \in {0, 1} /\ cash \in BOOLEAN /\ skipped \in BOOLEAN

MoneyInit ==
  /\ ride = "in_progress" /\ online \in BOOLEAN /\ taken = 0
  /\ bills = <<>> /\ maker = <<>> /\ hooks = 0
  /\ press = [r \in Press |-> NoPress]
  /\ cash = FALSE /\ again = 0 /\ skipped = FALSE
-----------------------------------------------------------------------------
(* Handlers.                                                               *)

Reading(r, pc, new) ==
  /\ press[r] = NoPress
  /\ press' = [press EXCEPT ![r] = [pc |-> pc, old |-> ride, new |-> new]]
  /\ UNCHANGED <<ride, online, taken, bills, maker, hooks, cash, again, skipped>>

\* POST .../status, for the targets that end a ride; it takes a commission
\* when the target is completed, which completed itself may be turned into.
handleStatus(r, new) ==
  /\ new \in {"at_last_point", "completed", "paid", "closed"}
  /\ FSM!CanTransition(ride, new)
  /\ Reading(r, IF new = "completed" THEN "charge" ELSE "write", new)

handleLifecycleFinish(r) ==
  ride = "in_progress" /\ Reading(r, "charge", "completed")

handleLifecycleConfirmCash(r) ==
  ride = "at_last_point" /\ Reading(r, "cash", "completed")

\* Slip: WHERE id = ? only.
StatusIs_Any(s) == TRUE
\* WHERE id = ? AND status = ?
StatusIs(s) == ride = s

\* UpdateStatusWithDriverCharge, in one transaction, and then createPayment.
UpdateStatusWithDriverCharge(r) ==
  /\ press[r].pc = "charge" /\ StatusIs(press[r].old)
  /\ taken < MaxPay /\ taken' = taken + 1
  /\ ride' = "completed"
  /\ again' = again + (IF press[r].old = "completed" THEN 1 ELSE 0)
  /\ IF online THEN bills' = Append(bills, "none") /\ maker' = Append(maker, "insert")
               ELSE UNCHANGED <<bills, maker>>
  /\ press' = [press EXCEPT ![r] = NoPress]
  /\ UNCHANGED <<online, hooks, cash, skipped>>

UpdateStatusCAS(r) ==
  /\ press[r].pc \in {"write", "cash"} /\ StatusIs(press[r].old)
  /\ ride' = press[r].new /\ cash' = (cash \/ press[r].pc = "cash")
  /\ press' = [press EXCEPT ![r] = NoPress]
  /\ UNCHANGED <<online, taken, bills, maker, hooks, again, skipped>>

\* The status has changed, or is the same within the same second (then no row is
\* affected), or the statement fails.
Conflict(r) ==
  /\ press[r] # NoPress /\ press' = [press EXCEPT ![r] = NoPress]
  /\ UNCHANGED <<ride, online, taken, bills, maker, hooks, cash, again, skipped>>
-----------------------------------------------------------------------------
(* createPayment.                                                          *)

Making(b, pc) == b \in Bills /\ maker[b] = pc
Then(b, pc) == maker' = [maker EXCEPT ![b] = pc]

Create(b) ==
  /\ Making(b, "insert") /\ Then(b, "ask") /\ bills' = [bills EXCEPT ![b] = "created"]
  /\ UNCHANGED <<ride, online, taken, press, hooks, cash, again, skipped>>

\* The provider has the request; its answer is on the way, or lost.
AskProvider(b) ==
  /\ Making(b, "ask") /\ Then(b, "answer")
  /\ UNCHANGED <<ride, online, taken, bills, press, hooks, cash, again, skipped>>

\* UpdateState, whatever the row says by now.
UpdateState(b) ==
  /\ Making(b, "answer") /\ Then(b, "done")
  /\ \E s \in {"created", "failed"} : bills' = [bills EXCEPT ![b] = s]
  /\ UNCHANGED <<ride, online, taken, press, hooks, cash, again, skipped>>

\* A statement fails, or the server stops.
MakerDies(b) ==
  /\ b \in Bills /\ maker[b] # "done" /\ Then(b, "done")
  /\ UNCHANGED <<ride, online, taken, bills, press, hooks, cash, again, skipped>>
-----------------------------------------------------------------------------
(* The webhook.                                                            *)

\* The provider confirms what it was asked for.
Asked == \E b \in Bills : maker[b] \in {"answer", "done"} /\ bills[b] # "none"

handleAirbaPayWebhook ==
  /\ Asked /\ hooks = 0 /\ hooks' = 1
  /\ \/ ride' = (IF StatusIs("completed") THEN "paid" ELSE ride) /\ UNCHANGED skipped
     \/ UNCHANGED ride /\ skipped' = TRUE
  /\ UNCHANGED <<online, taken, bills, maker, press, cash, again>>

\* All of the order's rows, whatever became of the order.
UpdateStateByOrder ==
  /\ hooks = 1 /\ hooks' = 0
  /\ \/ /\ bills' = [b \in Bills |-> IF bills[b] = "none" THEN "none" ELSE "paid"]
        /\ UNCHANGED skipped
     \/ skipped' = TRUE /\ UNCHANGED bills
  /\ UNCHANGED <<ride, online, taken, maker, press, cash, again>>

MoneyNext ==
  \/ \E r \in Press :
       \/ \E s \in FSM!Status : handleStatus(r, s)
       \/ handleLifecycleFinish(r) \/ handleLifecycleConfirmCash(r)
       \/ UpdateStatusWithDriverCharge(r) \/ UpdateStatusCAS(r) \/ Conflict(r)
  \/ \E b \in Bills : Create(b) \/ AskProvider(b) \/ UpdateState(b) \/ MakerDies(b)
  \/ handleAirbaPayWebhook \/ UpdateStateByOrder

MoneySpec == MoneyInit /\ [][MoneyNext]_moneyVars
-----------------------------------------------------------------------------
Over == {"completed", "paid", "closed"}

\* However many handlers race to end the ride, a commission is taken for it
\* once, and once more for each time it was reported completed when it was; it
\* is missing only if the ride was ended by confirm-cash, and a payment is
\* asked for with each.  A payment is confirmed only for an order that is paid
\* (or closed), unless a statement of the webhook failed.
RideIsSettled ==
  /\ taken <= 1 + again /\ (taken > 0 => ride \in Over)
  /\ ride \in Over => taken > 0 \/ cash
  /\ Len(bills) = IF online THEN taken ELSE 0
  /\ (\E b \in Bills : bills[b] = "paid") => ride \in {"paid", "closed"} \/ skipped
=============================================================================
