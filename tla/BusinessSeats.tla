----------------------------- MODULE BusinessSeats -----------------------------
(***************************************************************************)
(* A business account: seats that are bought for a time, and the workers   *)
(* hired on them.  business_service.go and business_repository.go.         *)
(*                                                                         *)
(* seats_used is a counter of its own, kept beside business_workers by two *)
(* statements of different calls; hiring is five statements with no        *)
(* transaction and nothing undone when one fails.                          *)
(***************************************************************************)
EXTENDS Integers, FiniteSets

CONSTANTS
  Desk,             \* calls in flight: bounds concurrency only
  Login,            \* logins asked for
  MaxSeats,         \* bounds the seats ever bought
  MaxWorker         \* bounds the rows ever inserted, and the users left without one

ASSUME SeatsAssumption ==
  IsFiniteSet(Desk) /\ MaxSeats \in Nat /\ MaxWorker \in Nat

VARIABLES
  account,    \* business_accounts has the row
  seats,      \* SUM(seats) of the purchases that have not expired
  bought,     \* seats ever bought
  seatsUsed,  \* business_accounts.seats_used
  workers,    \* business_workers
  strays,     \* workers' users without a row of business_workers
  nextWorker, \* AUTO_INCREMENT
  desk,       \* calls in flight
  departed,   \* history: workers who deleted their own accounts
  miscounted  \* history: a hire died before it was counted, or one worker was
              \* dismissed twice, or before being counted

seatVars ==
  <<account, seats, bought, seatsUsed, workers, strays, nextWorker, desk,
    departed, miscounted>>

Worker == [id : 1 .. MaxWorker, login : Login]

\* A call: what it hires or dismisses, and whether, since it looked at the
\* seats, it was the only one to hire and no seat expired (alone).
Free == [pc |-> "free", id |-> 0, login |-> "none", alone |-> FALSE]

HirePc == {"AddUser", "AddChat", "AddWorker", "CountSeat"}

SeatsTypeOK ==
  /\ account \in BOOLEAN
  /\ seats \in 0 .. bought /\ bought \in 0 .. MaxSeats
  /\ seatsUsed \in Nat /\ strays \in Nat
  /\ workers \subseteq Worker /\ departed \subseteq Worker
  /\ nextWorker \in 1 .. MaxWorker + 1
  /\ desk \in [Desk -> [pc : HirePc \cup {"free", "Remove"}, id : 0 .. MaxWorker,
                        login : Login \cup {"none"}, alone : BOOLEAN]]
  /\ miscounted \in BOOLEAN

SeatsInit ==
  /\ account \in BOOLEAN /\ seats = 0 /\ bought = 0 /\ seatsUsed = 0
  /\ workers = {} /\ strays = 0 /\ nextWorker = 1
  /\ desk = [d \in Desk |-> Free] /\ departed = {} /\ miscounted = FALSE
-----------------------------------------------------------------------------
Hiring(d) == desk[d].pc \in HirePc
Step(d, pc) == desk' = [desk EXCEPT ![d].pc = pc]
Leave(d) == desk' = [desk EXCEPT ![d] = Free]

\* GetAccountByUserID recomputes the total and reports no more in use than that.
SeatsInUse == IF seatsUsed > seats THEN seats ELSE seatsUsed

\* Slip: one seat too many.
validateSeatAvailability_OneMore == seats > 0 /\ SeatsInUse <= seats
validateSeatAvailability == seats > 0 /\ SeatsInUse < seats

\* The purchase row, then the summary and the buyer's role.  An account that is
\* created on the way is read back by its own id, so that the call ends in an
\* error, with the seats bought.  A failure after the first statement keeps them.
PurchaseSeats ==
  /\ bought < MaxSeats
  /\ account' = TRUE /\ bought' = bought + 1 /\ seats' = seats + 1
  /\ UNCHANGED <<seatsUsed, workers, strays, nextWorker, desk, departed, miscounted>>

Expire ==
  /\ seats > 0 /\ seats' = seats - 1
  /\ desk' = [d \in Desk |-> [desk[d] EXCEPT !.alone = FALSE]]
  /\ UNCHANGED <<account, bought, seatsUsed, workers, strays, nextWorker, departed, miscounted>>

\* CreateWorker: the account, the free seat and the login are looked at first.
CheckSeat(d, l) ==
  /\ desk[d] = Free /\ account /\ validateSeatAvailability
  /\ \A w \in workers : w.login # l
  /\ LET others == {c \in Desk : Hiring(c)}
     IN desk' = [c \in Desk |->
                   IF c = d THEN [pc |-> "AddUser", id |-> 0, login |-> l,
                                  alone |-> others = {}]
                   ELSE IF c \in others THEN [desk[c] EXCEPT !.alone = FALSE]
                   ELSE desk[c]]
  /\ UNCHANGED <<account, seats, bought, seatsUsed, workers, strays, nextWorker,
                 departed, miscounted>>

AddUser(d) ==
  /\ desk[d].pc = "AddUser" /\ strays < MaxWorker
  /\ Step(d, "AddChat") /\ strays' = strays + 1
  /\ UNCHANGED <<account, seats, bought, seatsUsed, workers, nextWorker, departed, miscounted>>

AddChat(d) ==
  /\ desk[d].pc = "AddChat" /\ Step(d, "AddWorker")
  /\ UNCHANGED <<account, seats, bought, seatsUsed, workers, strays, nextWorker,
                 departed, miscounted>>

\* The login is a unique key: of two hires by one login the second fails here.
AddWorker(d) ==
  /\ desk[d].pc = "AddWorker" /\ nextWorker <= MaxWorker
  /\ \A w \in workers : w.login # desk[d].login
  /\ workers' = workers \cup {[id |-> nextWorker, login |-> desk[d].login]}
  /\ desk' = [desk EXCEPT ![d].pc = "CountSeat", ![d].id = nextWorker]
  /\ nextWorker' = nextWorker + 1 /\ strays' = strays - 1
  /\ UNCHANGED <<account, seats, bought, seatsUsed, departed, miscounted>>

IncrementSeatsUsed(d) ==
  /\ desk[d].pc = "CountSeat" /\ Leave(d) /\ seatsUsed' = seatsUsed + 1
  /\ UNCHANGED <<account, seats, bought, workers, strays, nextWorker, departed, miscounted>>

\* Slip: the counter goes below nothing.
SeatsLeftInUse_Below == seatsUsed - 1
\* Slip: the seat is not given back.
SeatsLeftInUse_Same == seatsUsed
SeatsLeftInUse == IF seatsUsed > 0 THEN seatsUsed - 1 ELSE 0

\* DeleteWorker: the row is read, and then all goes in one transaction, which
\* does not ask whether the row is still there.
FindWorker(d, w) ==
  /\ desk[d] = Free /\ w \in workers
  /\ desk' = [desk EXCEPT ![d].pc = "Remove", ![d].id = w.id]
  /\ UNCHANGED <<account, seats, bought, seatsUsed, workers, strays, nextWorker,
                 departed, miscounted>>

DeleteWorker(d) ==
  /\ desk[d].pc = "Remove" /\ Leave(d)
  /\ workers' = {w \in workers : w.id # desk[d].id}
  /\ seatsUsed' = SeatsLeftInUse
  /\ miscounted' = (miscounted \/ (\A w \in workers : w.id # desk[d].id)
                    \/ \E c \in Desk : desk[c].pc = "CountSeat" /\ desk[c].id = desk[d].id)
  /\ UNCHANGED <<account, seats, bought, strays, nextWorker, departed>>

\* A call stops: a statement fails, or the server does.
Abort(d) ==
  /\ desk[d] # Free /\ Leave(d)
  /\ miscounted' = (miscounted \/ desk[d].pc = "CountSeat")
  /\ UNCHANGED <<account, seats, bought, seatsUsed, workers, strays, nextWorker, departed>>

\* A worker deletes the account: the row goes with it, uncounted.
DeleteOwnUser(w) ==
  /\ w \in workers /\ workers' = workers \ {w} /\ departed' = departed \cup {w}
  /\ UNCHANGED <<account, seats, bought, seatsUsed, strays, nextWorker, desk, miscounted>>

SeatsNext ==
  \/ PurchaseSeats \/ Expire
  \/ \E d \in Desk :
       \/ \E l \in Login : CheckSeat(d, l)
       \/ \E w \in workers : FindWorker(d, w)
       \/ AddUser(d) \/ AddChat(d) \/ AddWorker(d) \/ IncrementSeatsUsed(d)
       \/ DeleteWorker(d) \/ Abort(d)
  \/ \E w \in workers : DeleteOwnUser(w)

SeatsSpec == SeatsInit /\ [][SeatsNext]_seatVars
-----------------------------------------------------------------------------
\* Workers whose seat is about to be counted.
Uncounted == {d \in Desk : desk[d].pc = "CountSeat"}

\* seats_used is the number of workers, those who left by themselves included
\* (their seats are never free again) and those whose hire has one statement to
\* go left out; until a hire dies there, or a worker is dismissed twice.
SeatsCounted ==
  ~ miscounted =>
    seatsUsed + Cardinality(Uncounted) = Cardinality(workers \cup departed)

\* A worker is hired only on a seat that is paid for, unless two were being
\* hired at once, a seat expired meanwhile, or the counter was wrong already.
HiredOnPaidSeat ==
  [][\A d \in Desk :
       AddWorker(d) /\ desk[d].alone /\ ~ miscounted =>
         Cardinality(workers') <= seats]_seatVars
=============================================================================
