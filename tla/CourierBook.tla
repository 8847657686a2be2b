----------------------------- MODULE CourierBook -----------------------------
(***************************************************************************)
(* What a courier order promises, with no request, no dispatcher and no    *)
(* clock: it goes one way, only somebody invited or who named a price is   *)
(* given it, a named price is never forgotten, and nobody is changed once  *)
(* it is under way.                                                        *)
(***************************************************************************)
CONSTANTS Order, Courier, NoCourier

VARIABLES
  stage,   \* how far each order is
  holder,  \* the courier it is given to
  terms    \* per order and courier: "none", "invited", or "named" a price

Stage == {"none", "open", "given", "underway", "delivered", "canceled"}

Init ==
  /\ stage = [o \in Order |-> "none"]
  /\ holder = [o \in Order |-> NoCourier]
  /\ terms = [o \in Order |-> [c \in Courier |-> "none"]]

Moves(o, from, to) == stage[o] \in from /\ stage' = [stage EXCEPT ![o] = to]

Place(o) == Moves(o, {"none"}, "open") /\ UNCHANGED <<holder, terms>>

\* Whoever has said nothing can be invited, at any time.
Invite(o, c) ==
  /\ stage[o] # "none" /\ terms[o][c] = "none"
  /\ terms' = [terms EXCEPT ![o][c] = "invited"]
  /\ UNCHANGED <<stage, holder>>

NamePrice(o, c) ==
  /\ stage[o] # "none" /\ terms[o][c] # "named"
  /\ terms' = [terms EXCEPT ![o][c] = "named"]
  /\ UNCHANGED <<stage, holder>>

\* Until it is under way an order may go from one courier to the next.
Give(o, c) ==
  /\ Moves(o, {"open", "given"}, "given")
  /\ terms[o][c] # "none"
  /\ holder' = [holder EXCEPT ![o] = c]
  /\ UNCHANGED terms

\* An order can be taken off the market and given to nobody.
Withhold(o) == Moves(o, {"open"}, "given") /\ UNCHANGED <<holder, terms>>

SetOut(o) == Moves(o, {"given"}, "underway") /\ UNCHANGED <<holder, terms>>

Deliver(o) ==
  Moves(o, {"given", "underway"}, "delivered") /\ UNCHANGED <<holder, terms>>

Cancel(o) ==
  Moves(o, {"open", "given", "underway"}, "canceled") /\ UNCHANGED <<holder, terms>>

Next ==
  \E o \in Order :
    \/ Place(o) \/ Withhold(o) \/ SetOut(o) \/ Deliver(o) \/ Cancel(o)
    \/ \E c \in Courier : Invite(o, c) \/ NamePrice(o, c) \/ Give(o, c)

Spec == Init /\ [][Next]_<<stage, holder, terms>>
=============================================================================
