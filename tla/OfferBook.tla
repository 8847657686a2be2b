------------------------------ MODULE OfferBook ------------------------------
(***************************************************************************)
(* What the offers of an order promise, with no request, no dispatcher and *)
(* no clock: an offer is open or it is not, an outcome is final, and an    *)
(* order is only ever held by a driver who won it.                         *)
(***************************************************************************)
CONSTANTS Order, Driver, NoDriver

VARIABLES
  book,    \* "none", "open", "declined", "won" or "lost", per order and driver
  holder   \* the driver an order is given to

Outcome == {"none", "open", "declined", "won", "lost"}

Init ==
  /\ book = [o \in Order |-> [d \in Driver |-> "none"]]
  /\ holder = [o \in Order |-> NoDriver]

\* A first offer, or a declined one taken up again.
Open(o, d) ==
  /\ book[o][d] \in {"none", "declined"}
  /\ book' = [book EXCEPT ![o][d] = "open"]
  /\ UNCHANGED holder

Decline(o, d) ==
  /\ book[o][d] = "open"
  /\ book' = [book EXCEPT ![o][d] = "declined"]
  /\ UNCHANGED holder

\* Open offers run out.
Lapse(rows) ==
  /\ \A x \in rows : book[x[1]][x[2]] = "open"
  /\ book' = [o \in Order |-> [d \in Driver |->
                IF <<o, d>> \in rows THEN "lost" ELSE book[o][d]]]
  /\ UNCHANGED holder

\* One open offer wins; every other open offer of the order is lost with it.
Win(o, d) ==
  /\ book[o][d] = "open"
  /\ book' = [book EXCEPT ![o] = [e \in Driver |->
                IF e = d THEN "won"
                ELSE IF book[o][e] = "open" THEN "lost" ELSE book[o][e]]]
  /\ UNCHANGED holder

Take(o, d) ==
  /\ book[o][d] = "won"
  /\ holder' = [holder EXCEPT ![o] = d]
  /\ UNCHANGED book

Next ==
  \/ \E o \in Order, d \in Driver :
       Open(o, d) \/ Decline(o, d) \/ Win(o, d) \/ Take(o, d)
  \/ \E rows \in SUBSET (Order \X Driver) : Lapse(rows)

Spec == Init /\ [][Next]_<<book, holder>>
=============================================================================
