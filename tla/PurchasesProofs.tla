-------------------------- MODULE PurchasesProofs --------------------------
(***************************************************************************)
(* Theorems about what an account has bought: seats of a business and      *)
(* purchases in the stores, for any logins, buyers, bounds and, of seats,  *)
(* any finite set of calls.                                                *)
(***************************************************************************)
EXTENDS BusinessSeats, StorePurchases, TLAPS, FiniteSetTheorems, SequenceTheorems

(* Seats.  The inductive invariant says of whom the hires in flight are: a *)
(* worker who is about to be counted is one of those hired, each of a      *)
(* different call, so that a dismissal always finds a seat to give back.   *)

\* Whoever has a row, or left with one.
Hired == workers \cup departed

HiredOK ==
  /\ IsFiniteSet(Hired) /\ workers \cap departed = {}
  /\ \A w \in Hired : w.id < nextWorker
  /\ \A v, w \in Hired : v.id = w.id => v = w

CountingOK ==
  /\ \A d \in Uncounted : desk[d].id < nextWorker
  /\ \A d, e \in Uncounted : desk[d].id = desk[e].id => d = e
  /\ ~ miscounted => \A d \in Uncounted : \E w \in Hired : w.id = desk[d].id

\* Hires whose user has no row of business_workers yet.
Pending == {d \in Desk : desk[d].pc \in {"AddChat", "AddWorker"}}

PendingOK == Cardinality(Pending) <= strays

Unhired == {"AddUser", "AddChat", "AddWorker"}

\* A hire that was alone since it looked has the seat that it saw.
AloneOK ==
  \A d \in Desk : desk[d].alone /\ desk[d].pc \in Unhired =>
    /\ \A c \in Desk : Hiring(c) => c = d
    /\ ~ miscounted => Cardinality(Hired) < seats

LoginOK == \A d \in Desk : desk[d].pc \in Unhired => desk[d].login \in Login

DeskType ==
  [Desk -> [pc : HirePc \cup {"free", "Remove"}, id : 0 .. MaxWorker,
            login : Login \cup {"none"}, alone : BOOLEAN]]

SeatsInv ==
  SeatsTypeOK /\ LoginOK /\ HiredOK /\ CountingOK /\ PendingOK /\ SeatsCounted /\ AloneOK
-----------------------------------------------------------------------------
LEMMA Finite ==
  /\ IsFiniteSet(Pending) /\ Cardinality(Pending) \in Nat
  /\ IsFiniteSet(Uncounted) /\ Cardinality(Uncounted) \in Nat
<1>1. Pending \in SUBSET Desk /\ Uncounted \in SUBSET Desk
  BY DEF Pending, Uncounted
<1>2. IsFiniteSet(Pending) /\ IsFiniteSet(Uncounted)
  BY <1>1, SeatsAssumption, FS_Subset
<1> QED BY <1>2, FS_CardinalityType

LEMMA FinitePrime ==
  /\ IsFiniteSet(Pending') /\ Cardinality(Pending') \in Nat
  /\ IsFiniteSet(Uncounted') /\ Cardinality(Uncounted') \in Nat
<1>1. Pending' \in SUBSET Desk /\ Uncounted' \in SUBSET Desk
  BY DEF Pending, Uncounted
<1>2. IsFiniteSet(Pending') /\ IsFiniteSet(Uncounted')
  BY <1>1, SeatsAssumption, FS_Subset
<1> QED BY <1>2, FS_CardinalityType

LEMMA InitCounted == SeatsInit => SeatsInv
<1> SUFFICES ASSUME SeatsInit PROVE SeatsInv
  OBVIOUS
<1>1. SeatsTypeOK /\ LoginOK
  <2>1. desk \in DeskType /\ \A d \in Desk : desk[d].pc = "free"
    BY SeatsAssumption DEF SeatsInit, DeskType, Free
  <2>2. 1 \in 1 .. MaxWorker + 1 /\ 0 \in 0 .. MaxSeats /\ 0 \in 0 .. 0
    BY SeatsAssumption
  <2>3. SeatsTypeOK
    BY <2>1, <2>2 DEF SeatsInit, SeatsTypeOK, DeskType
  <2> QED BY <2>1, <2>3 DEF LoginOK, Unhired
<1>2. Hired = {} /\ Uncounted = {} /\ Pending = {}
  BY DEF SeatsInit, Hired, Uncounted, Pending, Free
<1>3. HiredOK /\ CountingOK /\ PendingOK /\ SeatsCounted
  BY <1>2, FS_EmptySet DEF SeatsInit, HiredOK, CountingOK, PendingOK, SeatsCounted, Hired
<1>4. AloneOK
  BY DEF SeatsInit, AloneOK, Free
<1> QED BY <1>1, <1>3, <1>4 DEF SeatsInv

\* Of a worker whom no call is about to count, the seat was counted.
LEMMA SeatToGiveBack ==
  ASSUME SeatsInv, ~ miscounted, NEW w \in Hired,
         \A d \in Uncounted : desk[d].id # w.id
  PROVE  seatsUsed > 0
<1> DEFINE Who(d) == CHOOSE v \in Hired : v.id = desk[d].id
           f == [d \in Uncounted |-> Who(d)]
<1>1. \A d \in Uncounted : Who(d) \in Hired /\ Who(d).id = desk[d].id
  BY DEF SeatsInv, CountingOK
<1>2. f \in [Uncounted -> Hired \ {w}]
  BY <1>1
<1>3. \A d, e \in Uncounted : f[d] = f[e] => d = e
  BY <1>1 DEF SeatsInv, CountingOK
<1>4. f \in Injection(Uncounted, Hired \ {w})
  BY <1>2, <1>3 DEF Injection, IsInjective
<1>5. /\ IsFiniteSet(Hired) /\ IsFiniteSet(Hired \ {w})
      /\ Cardinality(Hired \ {w}) = Cardinality(Hired) - 1
  BY FS_RemoveElement DEF SeatsInv, HiredOK
<1>6. Cardinality(Uncounted) <= Cardinality(Hired \ {w})
  BY <1>4, <1>5, FS_Injection
<1>7. Cardinality(Hired) \in Nat
  BY <1>5, FS_CardinalityType
<1>8. seatsUsed + Cardinality(Uncounted) = Cardinality(Hired) /\ seatsUsed \in Nat
  BY DEF SeatsInv, SeatsCounted, SeatsTypeOK, Hired
<1> QED BY <1>5, <1>6, <1>7, <1>8, Finite
-----------------------------------------------------------------------------
(* Seats.                                                                  *)

LEMMA PurchaseStep ==
  ASSUME SeatsInv, PurchaseSeats
  PROVE  SeatsInv'
<1>1. SeatsTypeOK' /\ LoginOK'
  BY SeatsAssumption DEF PurchaseSeats, SeatsInv, SeatsTypeOK, LoginOK
<1>2. HiredOK' /\ CountingOK' /\ PendingOK' /\ SeatsCounted'
  BY DEF PurchaseSeats, SeatsInv, HiredOK, CountingOK, PendingOK, SeatsCounted, Hired,
     Uncounted, Pending
<1>3. Cardinality(Hired) \in Nat /\ Hired' = Hired
  BY FS_CardinalityType DEF SeatsInv, HiredOK, PurchaseSeats, Hired
<1>4. AloneOK'
  BY <1>3 DEF PurchaseSeats, SeatsInv, AloneOK, Hiring, SeatsTypeOK
<1> QED BY <1>1, <1>2, <1>4 DEF SeatsInv

LEMMA ExpireStep ==
  ASSUME SeatsInv, Expire
  PROVE  SeatsInv'
<1>1. \A d \in Desk :
        /\ desk'[d].pc = desk[d].pc /\ desk'[d].id = desk[d].id
        /\ desk'[d].login = desk[d].login /\ desk'[d].alone = FALSE
  BY DEF Expire, SeatsInv, SeatsTypeOK
<1>2. SeatsTypeOK'
  <2>1. desk' \in DeskType
    BY DEF Expire, SeatsInv, SeatsTypeOK, DeskType
  <2> QED BY <2>1 DEF DeskType, Expire, SeatsInv, SeatsTypeOK
<1>3. /\ Uncounted' = Uncounted /\ Pending' = Pending /\ Hired' = Hired
      /\ Uncounted \subseteq Desk
  BY <1>1 DEF Uncounted, Pending, Hired, Expire
<1>4. HiredOK' /\ PendingOK' /\ SeatsCounted'
  BY <1>3 DEF Expire, SeatsInv, HiredOK, PendingOK, SeatsCounted, Hired
<1>5. CountingOK'
  BY <1>1, <1>3 DEF Expire, SeatsInv, CountingOK
<1>6. AloneOK' /\ LoginOK'
  BY <1>1 DEF SeatsInv, AloneOK, LoginOK
<1> QED BY <1>2, <1>4, <1>5, <1>6 DEF SeatsInv
-----------------------------------------------------------------------------
(* Hiring.                                                                 *)

LEMMA CheckSeatStep ==
  ASSUME SeatsInv, NEW d \in Desk, NEW l \in Login, CheckSeat(d, l)
  PROVE  SeatsInv'
<1> DEFINE others == {c \in Desk : Hiring(c)}
<1>0. desk[d].pc = "free"
  BY DEF CheckSeat, Free
<1>1. /\ desk'[d].pc = "AddUser" /\ desk'[d].alone = (others = {})
      /\ desk'[d].login = l
      /\ \A c \in Desk \ {d} :
           /\ desk'[c].pc = desk[c].pc /\ desk'[c].id = desk[c].id
           /\ desk'[c].login = desk[c].login
           /\ c \in others => ~ desk'[c].alone
  BY DEF CheckSeat, SeatsInv, SeatsTypeOK
<1>2. SeatsTypeOK'
  <2>1. ASSUME NEW c \in Desk
        PROVE  \/ desk'[c] = [pc |-> "AddUser", id |-> 0, login |-> l, alone |-> others = {}]
               \/ desk'[c] = [desk[c] EXCEPT !.alone = FALSE]
               \/ desk'[c] = desk[c]
    BY DEF CheckSeat
  <2>2. \A c \in Desk : desk'[c] \in [pc : HirePc \cup {"free", "Remove"}, id : 0 .. MaxWorker,
                                       login : Login \cup {"none"}, alone : BOOLEAN]
    <3> TAKE c \in Desk
    <3>1. desk[c] \in [pc : HirePc \cup {"free", "Remove"}, id : 0 .. MaxWorker,
                       login : Login \cup {"none"}, alone : BOOLEAN]
      BY DEF SeatsInv, SeatsTypeOK
    <3>2. 0 \in 0 .. MaxWorker /\ (others = {}) \in BOOLEAN /\ "AddUser" \in HirePc
      BY SeatsAssumption DEF HirePc
    <3> HIDE DEF others
    <3>3. CASE desk'[c] = [pc |-> "AddUser", id |-> 0, login |-> l, alone |-> others = {}]
      BY <3>2, <3>3
    <3>4. CASE desk'[c] = [desk[c] EXCEPT !.alone = FALSE]
      BY <3>1, <3>4
    <3> QED BY <2>1, <3>1, <3>3, <3>4
  <2>3. desk' \in DeskType
    BY <2>2 DEF CheckSeat, DeskType
  <2> QED BY <2>3 DEF DeskType, CheckSeat, SeatsInv, SeatsTypeOK
<1>3. /\ Uncounted' = Uncounted /\ Pending' = Pending /\ Hired' = Hired
      /\ Uncounted \subseteq Desk
  BY <1>0, <1>1 DEF Uncounted, Pending, Hired, CheckSeat
<1>4. HiredOK' /\ PendingOK' /\ SeatsCounted'
  BY <1>3 DEF CheckSeat, SeatsInv, HiredOK, PendingOK, SeatsCounted, Hired
<1>5. CountingOK'
  <2>1. \A c \in Uncounted : desk'[c].id = desk[c].id
    BY <1>0, <1>1 DEF Uncounted
  <2>2. nextWorker' = nextWorker /\ miscounted' = miscounted
    BY DEF CheckSeat
  <2> QED BY <1>3, <2>1, <2>2 DEF SeatsInv, CountingOK
<1>6. AloneOK'
  <2> SUFFICES ASSUME NEW c \in Desk, desk'[c].alone, desk'[c].pc \in Unhired
               PROVE  /\ \A e \in Desk : Hiring(e)' => e = c
                      /\ ~ miscounted' => Cardinality(Hired') < seats'
    BY DEF AloneOK
  <2>1. c = d
    BY <1>1 DEF Hiring, HirePc, Unhired
  <2>2. others = {}
    BY <1>1, <2>1
  <2>3. \A e \in Desk : Hiring(e)' => e = c
    BY <1>1, <2>1, <2>2 DEF Hiring
  <2>4. Uncounted = {}
    BY <2>2 DEF Uncounted, Hiring, HirePc
  <2>5. seatsUsed < seats
    BY DEF CheckSeat, validateSeatAvailability, SeatsInUse, SeatsInv, SeatsTypeOK
  <2>6. ~ miscounted => Cardinality(Hired) = seatsUsed
    BY <2>4, FS_EmptySet DEF SeatsInv, SeatsCounted, SeatsTypeOK, Hired
  <2> QED BY <1>3, <2>3, <2>5, <2>6 DEF CheckSeat
<1>7. LoginOK'
  BY <1>1 DEF SeatsInv, LoginOK
<1> QED BY <1>2, <1>4, <1>5, <1>6, <1>7 DEF SeatsInv

\* A step of one hire that hires nobody and counts nobody.
LEMMA HireGoesOn ==
  ASSUME SeatsInv, NEW d \in Desk, NEW pc \in {"AddChat", "AddWorker"},
         desk[d].pc \in {"AddUser", "AddChat"}, Step(d, pc),
         strays' = strays + (IF desk[d].pc = "AddUser" THEN 1 ELSE 0),
         UNCHANGED <<account, seats, bought, seatsUsed, workers, nextWorker, departed,
                     miscounted>>
  PROVE  SeatsInv'
<1>1. \A c \in Desk :
        /\ desk'[c].id = desk[c].id /\ desk'[c].alone = desk[c].alone
        /\ desk'[c].login = desk[c].login
        /\ desk'[c].pc = IF c = d THEN pc ELSE desk[c].pc
  BY DEF Step, SeatsInv, SeatsTypeOK
<1>2. SeatsTypeOK'
  <2>1. desk' \in DeskType
    BY DEF Step, SeatsInv, SeatsTypeOK, DeskType, HirePc
  <2> QED BY <2>1 DEF DeskType, SeatsInv, SeatsTypeOK
<1>3. Uncounted' = Uncounted /\ Hired' = Hired /\ Uncounted \subseteq Desk
  BY <1>1 DEF Uncounted, Hired
<1>4. HiredOK' /\ SeatsCounted'
  BY <1>3 DEF SeatsInv, HiredOK, SeatsCounted, Hired
<1>5. CountingOK'
  BY <1>1, <1>3 DEF SeatsInv, CountingOK
<1>6. PendingOK'
  <2>1. Pending' = Pending \cup {d}
    BY <1>1 DEF Pending
  <2>2. Cardinality(Pending') =
          IF d \in Pending THEN Cardinality(Pending) ELSE Cardinality(Pending) + 1
    BY <2>1, Finite, FS_AddElement
  <2>3. d \in Pending <=> desk[d].pc # "AddUser"
    BY DEF Pending
  <2>4. strays \in Nat /\ Cardinality(Pending) <= strays
    BY DEF SeatsInv, SeatsTypeOK, PendingOK
  <2> QED BY <2>2, <2>3, <2>4, Finite DEF PendingOK
<1>7. AloneOK' /\ LoginOK'
  BY <1>1, <1>3 DEF SeatsInv, AloneOK, LoginOK, Hiring, HirePc, Unhired
<1> QED BY <1>2, <1>4, <1>5, <1>6, <1>7 DEF SeatsInv

LEMMA AddUserStep ==
  ASSUME SeatsInv, NEW d \in Desk, AddUser(d) \/ AddChat(d)
  PROVE  SeatsInv'
<1>1. CASE AddUser(d)
  BY <1>1, HireGoesOn DEF AddUser
<1>2. CASE AddChat(d)
  <2>1. strays' = strays + 0
    BY <1>2 DEF AddChat, SeatsInv, SeatsTypeOK
  <2> QED BY <1>2, <2>1, HireGoesOn DEF AddChat
<1> QED BY <1>1, <1>2

LEMMA AddWorkerStep ==
  ASSUME SeatsInv, NEW d \in Desk, AddWorker(d)
  PROVE  SeatsInv'
<1> DEFINE w == [id |-> nextWorker, login |-> desk[d].login]
<1>0. /\ desk[d].pc = "AddWorker" /\ nextWorker \in Nat /\ nextWorker <= MaxWorker
      /\ nextWorker' = nextWorker + 1 /\ Hired' = Hired \cup {w} /\ w \notin Hired
      /\ seatsUsed' = seatsUsed /\ miscounted' = miscounted /\ seats' = seats
  BY DEF AddWorker, SeatsInv, SeatsTypeOK, HiredOK, Hired
<1>1. \A c \in Desk :
        /\ desk'[c].alone = desk[c].alone /\ desk'[c].login = desk[c].login
        /\ desk'[c].pc = IF c = d THEN "CountSeat" ELSE desk[c].pc
        /\ desk'[c].id = IF c = d THEN nextWorker ELSE desk[c].id
  BY DEF AddWorker, SeatsInv, SeatsTypeOK
<1>2. d \in Pending /\ d \notin Uncounted
      /\ Pending' = Pending \ {d} /\ Uncounted' = Uncounted \cup {d}
  BY <1>0, <1>1 DEF Pending, Uncounted
<1>3. strays > 0 /\ strays \in Nat /\ strays' = strays - 1 /\ PendingOK'
  <2>1. strays \in Nat /\ Cardinality(Pending) <= strays /\ strays' = strays - 1
    BY DEF SeatsInv, SeatsTypeOK, PendingOK, AddWorker
  <2>2. Cardinality(Pending') = Cardinality(Pending) - 1
    BY <1>2, Finite, FS_RemoveElement
  <2>3. Cardinality(Pending') \in Nat
    BY FinitePrime
  <2> QED BY <2>1, <2>2, <2>3, Finite DEF PendingOK
<1>4. SeatsTypeOK'
  <2>1. desk' \in DeskType
    <3>1. nextWorker \in 0 .. MaxWorker
      BY <1>0, SeatsAssumption
    <3>2. desk \in DeskType /\ "CountSeat" \in HirePc
      BY DEF SeatsInv, SeatsTypeOK, DeskType, HirePc
    <3> QED BY <3>1, <3>2 DEF AddWorker, DeskType
  <2>2. nextWorker' \in 1 .. MaxWorker + 1
    BY <1>0, SeatsAssumption DEF SeatsInv, SeatsTypeOK
  <2>3. w \in Worker
    BY <1>0, SeatsAssumption DEF Worker, SeatsInv, LoginOK, Unhired, SeatsTypeOK
  <2>4. workers' \subseteq Worker
    BY <2>3 DEF AddWorker, SeatsInv, SeatsTypeOK
  <2> QED BY <2>1, <2>2, <2>4, <1>3 DEF AddWorker, SeatsInv, SeatsTypeOK, DeskType
<1>5. HiredOK'
  <2>1. IsFiniteSet(Hired')
    BY <1>0, FS_AddElement DEF SeatsInv, HiredOK
  <2>2. workers' \cap departed' = {}
    BY <1>0 DEF AddWorker, SeatsInv, HiredOK, Hired
  <2> QED BY <1>0, <2>1, <2>2 DEF SeatsInv, HiredOK, SeatsTypeOK, Worker, Hired
<1>6. CountingOK'
  BY <1>0, <1>1, <1>2 DEF SeatsInv, CountingOK, SeatsTypeOK, Uncounted
<1>7. SeatsCounted'
  <2>1. Cardinality(Hired') = Cardinality(Hired) + 1 /\ Cardinality(Hired) \in Nat
    BY <1>0, FS_AddElement, FS_CardinalityType DEF SeatsInv, HiredOK
  <2>2. Cardinality(Uncounted') = Cardinality(Uncounted) + 1
    BY <1>2, Finite, FS_AddElement
  <2> QED BY <1>0, <2>1, <2>2, Finite DEF SeatsInv, SeatsCounted, SeatsTypeOK, Hired
<1>8. AloneOK' /\ LoginOK'
  BY <1>0, <1>1 DEF SeatsInv, AloneOK, LoginOK, Hiring, HirePc, Unhired
<1> QED BY <1>3, <1>4, <1>5, <1>6, <1>7, <1>8 DEF SeatsInv

LEMMA CountStep ==
  ASSUME SeatsInv, NEW d \in Desk, IncrementSeatsUsed(d)
  PROVE  SeatsInv'
<1>1. /\ d \in Uncounted /\ seatsUsed' = seatsUsed + 1 /\ seatsUsed \in Nat
      /\ miscounted' = miscounted /\ nextWorker' = nextWorker
      /\ Hired' = Hired /\ seats' = seats /\ strays' = strays
  BY DEF IncrementSeatsUsed, Uncounted, Hired, SeatsInv, SeatsTypeOK
<1>2. desk'[d] = Free /\ \A c \in Desk \ {d} : desk'[c] = desk[c]
  BY DEF IncrementSeatsUsed, Leave, SeatsInv, SeatsTypeOK
<1>3. /\ Uncounted' = Uncounted \ {d} /\ Pending' = Pending
      /\ Uncounted \subseteq Desk
  BY <1>1, <1>2 DEF Uncounted, Pending, Free
<1>4. SeatsTypeOK'
  <2>1. desk' \in DeskType
    BY SeatsAssumption DEF IncrementSeatsUsed, Leave, Free, SeatsInv, SeatsTypeOK, DeskType
  <2> QED BY <1>1, <2>1 DEF IncrementSeatsUsed, SeatsInv, SeatsTypeOK, DeskType
<1>5. HiredOK' /\ PendingOK'
  BY <1>1, <1>3 DEF IncrementSeatsUsed, SeatsInv, HiredOK, PendingOK, Hired
<1>6. CountingOK'
  BY <1>1, <1>2, <1>3 DEF SeatsInv, CountingOK
<1>7. SeatsCounted'
  <2>1. Cardinality(Uncounted') = Cardinality(Uncounted) - 1
    BY <1>1, <1>3, Finite, FS_RemoveElement
  <2> QED BY <1>1, <2>1, Finite DEF SeatsInv, SeatsCounted, Hired
<1>8. AloneOK' /\ LoginOK'
  BY <1>1, <1>2 DEF SeatsInv, AloneOK, LoginOK, Hiring, HirePc, Unhired, Free
<1> QED BY <1>4, <1>5, <1>6, <1>7, <1>8 DEF SeatsInv
-----------------------------------------------------------------------------
(* Dismissing.                                                             *)

LEMMA FindStep ==
  ASSUME SeatsInv, NEW d \in Desk, NEW w \in workers, FindWorker(d, w)
  PROVE  SeatsInv'
<1>0. desk[d].pc = "free" /\ w.id \in 0 .. MaxWorker
  BY DEF FindWorker, Free, SeatsInv, SeatsTypeOK, Worker
<1>1. /\ desk'[d].pc = "Remove"
      /\ \A c \in Desk \ {d} : desk'[c] = desk[c]
  BY DEF FindWorker, SeatsInv, SeatsTypeOK
<1>2. /\ Uncounted' = Uncounted /\ Pending' = Pending /\ Hired' = Hired
      /\ Uncounted \subseteq Desk \ {d}
  BY <1>0, <1>1 DEF Uncounted, Pending, Hired, FindWorker
<1>3. SeatsTypeOK'
  <2>1. desk' \in DeskType
    BY <1>0 DEF FindWorker, SeatsInv, SeatsTypeOK, DeskType
  <2> QED BY <2>1 DEF FindWorker, SeatsInv, SeatsTypeOK, DeskType
<1>4. HiredOK' /\ PendingOK' /\ SeatsCounted'
  BY <1>2 DEF FindWorker, SeatsInv, HiredOK, PendingOK, SeatsCounted, Hired
<1>5. CountingOK'
  <2>1. \A c \in Uncounted : desk'[c].id = desk[c].id
    BY <1>1, <1>2
  <2>2. nextWorker' = nextWorker /\ miscounted' = miscounted
    BY DEF FindWorker
  <2> QED BY <1>2, <2>1, <2>2 DEF SeatsInv, CountingOK
<1>6. AloneOK' /\ LoginOK'
  BY <1>1, <1>2 DEF FindWorker, SeatsInv, AloneOK, LoginOK, Hiring, HirePc, Unhired
<1> QED BY <1>3, <1>4, <1>5, <1>6 DEF SeatsInv

LEMMA DismissStep ==
  ASSUME SeatsInv, NEW d \in Desk, DeleteWorker(d)
  PROVE  SeatsInv'
<1>1. /\ desk'[d] = Free /\ \A c \in Desk \ {d} : desk'[c] = desk[c]
      /\ desk[d].pc = "Remove" /\ strays' = strays /\ seats' = seats
      /\ departed' = departed /\ nextWorker' = nextWorker
      /\ workers' = {w \in workers : w.id # desk[d].id}
  BY DEF DeleteWorker, Leave, SeatsInv, SeatsTypeOK
<1>2. /\ Uncounted' = Uncounted /\ Pending' = Pending
      /\ Uncounted \subseteq Desk \ {d} /\ Hired' \in SUBSET Hired
  BY <1>1 DEF Uncounted, Pending, Hired, Free
<1>3. IsFiniteSet(Hired) /\ IsFiniteSet(Hired') /\ Cardinality(Hired') <= Cardinality(Hired)
  BY <1>2, FS_Subset DEF SeatsInv, HiredOK
<1>4. SeatsTypeOK'
  <2>1. desk' \in DeskType
    BY SeatsAssumption DEF DeleteWorker, Leave, Free, SeatsInv, SeatsTypeOK, DeskType
  <2>2. seatsUsed' \in Nat /\ miscounted' \in BOOLEAN
    BY DEF DeleteWorker, SeatsLeftInUse, SeatsInv, SeatsTypeOK
  <2> QED BY <1>1, <2>1, <2>2 DEF DeleteWorker, SeatsInv, SeatsTypeOK, DeskType
<1>5. HiredOK' /\ PendingOK'
  BY <1>1, <1>2, <1>3 DEF SeatsInv, HiredOK, PendingOK
<1>6. AloneOK' /\ LoginOK'
  <2>1. ~ miscounted' => ~ miscounted
    BY DEF DeleteWorker, SeatsInv, SeatsTypeOK
  <2>2. /\ Cardinality(Hired) \in Nat /\ Cardinality(Hired') \in Nat /\ seats \in Int
    BY <1>3, FS_CardinalityType DEF SeatsInv, SeatsTypeOK
  <2> QED BY <1>1, <1>3, <2>1, <2>2
          DEF SeatsInv, AloneOK, LoginOK, Hiring, HirePc, Unhired, Free
<1>7. CountingOK' /\ SeatsCounted'
  <2>1. CASE miscounted'
    BY <1>1, <1>2, <2>1 DEF SeatsInv, CountingOK, SeatsCounted
  <2>2. CASE ~ miscounted'
    <3>1. /\ ~ miscounted /\ \A c \in Uncounted : desk[c].id # desk[d].id
      BY <2>2 DEF DeleteWorker, SeatsInv, SeatsTypeOK, Uncounted
    <3>2. PICK w \in workers : w.id = desk[d].id
      BY <2>2 DEF DeleteWorker, SeatsInv, SeatsTypeOK
    <3>3. Hired' = Hired \ {w}
      BY <1>1, <3>2 DEF SeatsInv, HiredOK, Hired
    <3>4. w \in Hired
      BY DEF Hired
    <3>5. seatsUsed > 0
      BY <3>1, <3>2, <3>4, SeatToGiveBack
    <3>6. seatsUsed' = seatsUsed - 1
      BY <3>5 DEF DeleteWorker, SeatsLeftInUse
    <3>7. /\ Cardinality(Hired') = Cardinality(Hired) - 1
          /\ Cardinality(Hired) \in Nat
      BY <1>3, <3>3, <3>4, FS_RemoveElement, FS_CardinalityType
    <3>8. SeatsCounted'
      BY <1>2, <3>1, <3>6, <3>7, Finite DEF SeatsInv, SeatsCounted, SeatsTypeOK, Hired
    <3>9. CountingOK'
      BY <1>1, <1>2, <3>1, <3>2, <3>3 DEF SeatsInv, CountingOK
    <3> QED BY <3>8, <3>9
  <2> QED BY <2>1, <2>2
<1> QED BY <1>4, <1>5, <1>6, <1>7 DEF SeatsInv

LEMMA AbortStep ==
  ASSUME SeatsInv, NEW d \in Desk, Abort(d)
  PROVE  SeatsInv'
<1>1. /\ desk'[d] = Free /\ \A c \in Desk \ {d} : desk'[c] = desk[c]
      /\ strays' = strays /\ seats' = seats /\ nextWorker' = nextWorker
      /\ workers' = workers /\ departed' = departed /\ seatsUsed' = seatsUsed
      /\ Hired' = Hired
  BY DEF Abort, Leave, SeatsInv, SeatsTypeOK, Hired
<1>0. ~ miscounted' => ~ miscounted /\ desk[d].pc # "CountSeat"
  BY DEF Abort, SeatsInv, SeatsTypeOK
<1>2. /\ Uncounted' = Uncounted \ {d} /\ Pending' = Pending \ {d}
      /\ Uncounted \subseteq Desk
  BY <1>1 DEF Uncounted, Pending, Free
<1>3. SeatsTypeOK'
  <2>1. desk' \in DeskType
    BY SeatsAssumption DEF Abort, Leave, Free, SeatsInv, SeatsTypeOK, DeskType
  <2>2. miscounted' \in BOOLEAN
    BY DEF Abort, SeatsInv, SeatsTypeOK
  <2> QED BY <1>1, <2>1, <2>2 DEF Abort, SeatsInv, SeatsTypeOK, DeskType
<1>4. PendingOK'
  <2>1. Pending' \in SUBSET Pending
    BY <1>2
  <2>2. Cardinality(Pending') <= Cardinality(Pending)
    BY <2>1, Finite, FS_Subset
  <2> QED BY <1>1, <2>2, Finite, FinitePrime DEF SeatsInv, PendingOK, SeatsTypeOK
<1>5. HiredOK'
  BY <1>1 DEF SeatsInv, HiredOK
<1>6. CountingOK' /\ SeatsCounted'
  <2>1. \A c \in Uncounted' : c \in Uncounted /\ desk'[c].id = desk[c].id
    BY <1>1, <1>2
  <2>2. ~ miscounted' => Uncounted' = Uncounted
    BY <1>0, <1>2 DEF Uncounted
  <2>3. CountingOK'
    BY <1>0, <1>1, <2>1 DEF SeatsInv, CountingOK
  <2>4. SeatsCounted'
    BY <1>0, <1>1, <2>2 DEF SeatsInv, SeatsCounted
  <2> QED BY <2>3, <2>4
<1>7. AloneOK' /\ LoginOK'
  BY <1>0, <1>1 DEF SeatsInv, AloneOK, LoginOK, Hiring, HirePc, Unhired, Free
<1> QED BY <1>3, <1>4, <1>5, <1>6, <1>7 DEF SeatsInv

LEMMA DepartStep ==
  ASSUME SeatsInv, NEW w \in workers, DeleteOwnUser(w)
  PROVE  SeatsInv'
<1>1. Hired' = Hired /\ workers' = workers \ {w} /\ departed' = departed \cup {w}
  BY DEF DeleteOwnUser, Hired
<1>2. SeatsTypeOK'
  BY <1>1 DEF DeleteOwnUser, SeatsInv, SeatsTypeOK
<1>3. HiredOK'
  BY <1>1 DEF DeleteOwnUser, SeatsInv, HiredOK
<1>4. Uncounted' = Uncounted /\ Pending' = Pending
  BY DEF DeleteOwnUser, Uncounted, Pending
<1>5. CountingOK' /\ PendingOK' /\ SeatsCounted'
  BY <1>1, <1>4 DEF DeleteOwnUser, SeatsInv, CountingOK, PendingOK, SeatsCounted, Hired
<1>6. AloneOK' /\ LoginOK'
  BY <1>1 DEF DeleteOwnUser, SeatsInv, AloneOK, LoginOK, Hiring
<1> QED BY <1>2, <1>3, <1>5, <1>6 DEF SeatsInv
-----------------------------------------------------------------------------
LEMMA Stutter ==
  ASSUME SeatsInv, UNCHANGED seatVars
  PROVE  SeatsInv'
<1>1. SeatsTypeOK' /\ LoginOK'
  BY DEF seatVars, SeatsInv, SeatsTypeOK, LoginOK
<1>2. Hired' = Hired /\ Uncounted' = Uncounted /\ Pending' = Pending
  BY DEF seatVars, Hired, Uncounted, Pending
<1>3. HiredOK' /\ CountingOK' /\ PendingOK' /\ SeatsCounted'
  BY <1>2 DEF seatVars, SeatsInv, HiredOK, CountingOK, PendingOK, SeatsCounted, Hired
<1>4. AloneOK'
  BY <1>2 DEF seatVars, SeatsInv, AloneOK, Hiring
<1> QED BY <1>1, <1>3, <1>4 DEF SeatsInv

LEMMA NextCounted == SeatsInv /\ [SeatsNext]_seatVars => SeatsInv'
<1> SUFFICES ASSUME SeatsInv, [SeatsNext]_seatVars PROVE SeatsInv'
  OBVIOUS
<1>1. CASE PurchaseSeats \/ Expire
  BY <1>1, PurchaseStep, ExpireStep
<1>2. ASSUME NEW d \in Desk, NEW l \in Login, CheckSeat(d, l)
      PROVE  SeatsInv'
  BY <1>2, CheckSeatStep
<1>3. ASSUME NEW d \in Desk, NEW w \in workers, FindWorker(d, w)
      PROVE  SeatsInv'
  BY <1>3, FindStep
<1>4. ASSUME NEW d \in Desk,
             \/ AddUser(d) \/ AddChat(d) \/ AddWorker(d) \/ IncrementSeatsUsed(d)
             \/ DeleteWorker(d) \/ Abort(d)
      PROVE  SeatsInv'
  BY <1>4, AddUserStep, AddWorkerStep, CountStep, DismissStep, AbortStep
<1>5. ASSUME NEW w \in workers, DeleteOwnUser(w)
      PROVE  SeatsInv'
  BY <1>5, DepartStep
<1>6. CASE UNCHANGED seatVars
  BY <1>6, Stutter
<1> QED BY <1>1, <1>2, <1>3, <1>4, <1>5, <1>6 DEF SeatsNext

THEOREM SeatsInvariance == SeatsSpec => []SeatsInv
<1>1. SeatsInit => SeatsInv
  BY InitCounted
<1>2. SeatsInv /\ [SeatsNext]_seatVars => SeatsInv'
  BY NextCounted
<1> QED BY <1>1, <1>2, PTL DEF SeatsSpec

\* The account's variables keep their types: no counter goes below nothing.
THEOREM SeatsTypeCorrect == SeatsSpec => []SeatsTypeOK
<1>1. SeatsInv => SeatsTypeOK
  BY DEF SeatsInv
<1> QED BY <1>1, SeatsInvariance, PTL

\* seats_used is right as long as no hire dies before its last statement and
\* nobody is dismissed twice.
THEOREM SeatsAreCounted == SeatsSpec => []SeatsCounted
<1>1. SeatsInv => SeatsCounted
  BY DEF SeatsInv
<1> QED BY <1>1, SeatsInvariance, PTL

\* A hire that was alone ends on a paid seat, whatever other calls do.
THEOREM HiredOnPaid == SeatsSpec => HiredOnPaidSeat
<1> DEFINE A == \A d \in Desk :
                  AddWorker(d) /\ desk[d].alone /\ ~ miscounted =>
                    Cardinality(workers') <= seats
<1>1. ASSUME SeatsInv, SeatsInv', NEW d \in Desk, AddWorker(d), desk[d].alone, ~ miscounted
      PROVE  Cardinality(workers') <= seats
  <2>1. Cardinality(Hired) < seats
    BY <1>1 DEF SeatsInv, AloneOK, AddWorker, Unhired
  <2>2. /\ workers' \in SUBSET Hired' /\ IsFiniteSet(Hired')
        /\ Hired' = Hired \cup {[id |-> nextWorker, login |-> desk[d].login]}
    BY <1>1 DEF SeatsInv, HiredOK, AddWorker, Hired
  <2>3. IsFiniteSet(Hired) /\ Cardinality(Hired) \in Nat
    BY <1>1, FS_CardinalityType DEF SeatsInv, HiredOK
  <2>4. Cardinality(Hired') <= Cardinality(Hired) + 1
    <3> DEFINE w == [id |-> nextWorker, login |-> desk[d].login]
    <3>1. Cardinality(Hired \cup {w}) =
            IF w \in Hired THEN Cardinality(Hired) ELSE Cardinality(Hired) + 1
      BY <2>3, FS_AddElement
    <3> QED BY <2>2, <2>3, <3>1
  <2>5. IsFiniteSet(workers') /\ Cardinality(workers') <= Cardinality(Hired')
    BY <2>2, FS_Subset
  <2>6. Cardinality(workers') \in Nat /\ Cardinality(Hired') \in Nat /\ seats \in Int
    BY <1>1, <2>2, <2>5, FS_CardinalityType DEF SeatsInv, SeatsTypeOK
  <2> QED BY <2>1, <2>3, <2>4, <2>5, <2>6
<1>2. SeatsInv /\ SeatsInv' /\ [SeatsNext]_seatVars => [A]_seatVars
  BY <1>1
<1> QED BY <1>2, SeatsInvariance, PTL DEF SeatsSpec, HiredOnPaidSeat
-----------------------------------------------------------------------------
(* Store purchases.  The inductive invariant says of each key with whom its*)
(* one call is: a transaction may be granted once more only while its row  *)
(* is missing or belongs to a call that has not granted it yet.            *)

\* The key of the transaction that a call is about.
KeyOf(c) == Key(pcall[c].n)

\* Calls that hold a row back from having its effect, or from being gone.
Saving == {"Save", "Apply", "Undo"}
Saved == {"Apply", "Undo"}

RowsDiffer == \A i, j \in DOMAIN rows : rows[i].key = rows[j].key => i = j

OnlyAppleDeletes == \A c \in StoreCall : At(c, "Delete") => store = "apple"

\* A call about a key that is not tangled runs alone.
RunsAlone ==
  \A c \in StoreCall : Running(c) /\ KeyOf(c) \notin tangled =>
    \A d \in StoreCall : Running(d) => d = c

GrantsBounded ==
  \A n \in Notice : IsFiniteSet(Times(n)) /\ \A u \in Buyer : granted[n][u] <= MaxGrant

RowIsSaved ==
  \A c \in StoreCall : pcall[c].pc \in Saved /\ KeyOf(c) \notin tangled =>
    IsProcessed(KeyOf(c))

\* The transaction may be granted once more: its row is gone, or about to be
\* written, or written by a call that has not granted it yet.
Ungranted(n) ==
  \/ ~ IsProcessed(Key(n))
  \/ \E c \in StoreCall : pcall[c].pc \in Saving /\ KeyOf(c) = Key(n)

GrantedOnce ==
  \A n \in Notice : Key(n) \notin tangled /\ n \notin spoiled =>
    /\ Cardinality(Times(n)) <= 1 + revoked[n]
    /\ Ungranted(n) => Cardinality(Times(n)) <= revoked[n]

Undisturbed == tangled = {} /\ spoiled = {} /\ \A n \in Notice : revoked[n] = 0

\* Every row is one buyer's, who alone was granted anything and is the one in
\* whose name the call in progress goes on.
OneBuyer ==
  Undisturbed =>
    /\ \A i, j \in DOMAIN rows : rows[i].by = rows[j].by
    /\ \A n \in Notice, u \in Buyer : granted[n][u] > 0 =>
         \E i \in DOMAIN rows : rows[i].key = Key(n) /\ rows[i].by = u
    /\ \A c \in StoreCall : pcall[c].pc \in Saving \cup {"IsProcessed"} =>
         \A i \in DOMAIN rows : rows[i].by = pcall[c].by

\* A row stands for something granted, but for one that is not yet granted or
\* was left behind.
RowMeansGrant ==
  \A i \in DOMAIN rows :
    \/ rows[i].key \in cut \cup tangled
    \/ \E c \in StoreCall : pcall[c].pc \in Saved /\ KeyOf(c) = rows[i].key
    \/ \E n \in Notice : Key(n) = rows[i].key /\ Times(n) # {}

StoreInv ==
  /\ StoreTypeOK /\ RowsDiffer /\ OnlyAppleDeletes /\ RunsAlone /\ GrantsBounded
  /\ RowIsSaved /\ GrantedOnce /\ OneBuyer /\ RowMeansGrant /\ AnsweredIsGranted
-----------------------------------------------------------------------------
LEMMA Keys ==
  ASSUME StoreTypeOK
  PROVE /\ \A n \in Notice : Key(n) \in Notice
        /\ \A c \in StoreCall : Running(c) =>
             KeyOf(c) \in Notice /\ pcall[c].n \in Notice /\ pcall[c].by \in Buyer
BY StoreAssumption DEF StoreTypeOK, Key, Notice, Running, KeyOf, Quiet

LEMMA CallTyped ==
  ASSUME StoreTypeOK, NEW c \in StoreCall, NEW q \in StoreCall
  PROVE /\ pcall[c] = Quiet \/ (pcall[c].pc \in {"Owner", "IsProcessed", "Save", "Apply",
                                      "Undo", "Delete", "Expire"}
                                /\ pcall[c].by \in Buyer /\ pcall[c].n \in Notice
                                /\ pcall[c] = [pc |-> pcall[c].pc, by |-> pcall[c].by,
                                              n |-> pcall[c].n])
        /\ DOMAIN pcall = StoreCall
BY DEF StoreTypeOK

PCs == {"Owner", "IsProcessed", "Save", "Apply", "Undo", "Delete", "Expire"}
CallType == [StoreCall -> {Quiet} \cup [pc : PCs, by : Buyer, n : Notice]]

LEMMA Going ==
  ASSUME StoreTypeOK, NEW c \in StoreCall, Running(c), NEW pc \in PCs, Goes(c, pc)
  PROVE /\ pcall'[c] = [pc |-> pc, by |-> pcall[c].by, n |-> pcall[c].n]
        /\ \A d \in StoreCall \ {c} : pcall'[d] = pcall[d]
        /\ pcall' \in CallType
<1>1. pcall \in CallType
  BY DEF StoreTypeOK, CallType, PCs
<1>2. pcall[c] \in [pc : PCs, by : Buyer, n : Notice]
  BY <1>1 DEF CallType, Running, Quiet
<1> QED BY <1>1, <1>2 DEF CallType, Goes

LEMMA Ending ==
  ASSUME StoreTypeOK, NEW c \in StoreCall, Ends(c)
  PROVE /\ pcall'[c] = Quiet
        /\ \A d \in StoreCall \ {c} : pcall'[d] = pcall[d]
        /\ pcall' \in CallType
<1>1. pcall \in CallType
  BY DEF StoreTypeOK, CallType, PCs
<1> QED BY <1>1 DEF CallType, Ends

LEMMA CountTimes ==
  ASSUME GrantsBounded, StoreTypeOK, NEW n \in Notice
  PROVE /\ Cardinality(Times(n)) \in Nat
        /\ Cardinality(Times(n)) = 0 <=> Times(n) = {}
        /\ \A u \in Buyer : granted[n][u] \in Nat /\ (granted[n][u] > 0 => Times(n) # {})
<1>1. IsFiniteSet(Times(n))
  BY DEF GrantsBounded
<1>2. ASSUME NEW u \in Buyer PROVE granted[n][u] \in Nat /\ (granted[n][u] > 0 => Times(n) # {})
  <2>1. granted[n][u] \in Nat /\ granted[n][u] <= MaxGrant
    BY DEF GrantsBounded, StoreTypeOK
  <2>2. ASSUME granted[n][u] > 0 PROVE <<u, 1>> \in Times(n)
    BY <2>1, <2>2, StoreAssumption DEF Times
  <2> QED BY <2>1, <2>2
<1> QED BY <1>1, <1>2, FS_CardinalityType, FS_EmptySet

LEMMA SameTimes == ASSUME granted' = granted PROVE \A n \in Notice : Times(n)' = Times(n)
BY DEF Times

LEMMA Shifting ==
  ASSUME NEW n \in Nat, NEW i \in 1 .. n, NEW s, NEW a, NEW b, NEW r,
         \A j \in 1 .. i - 1 : a[j] = s[j],
         \A j \in 1 .. n - i : b[j] = s[i + j],
         \A j \in 1 .. n - 1 : r[j] = IF j <= i - 1 THEN a[j] ELSE b[j - (i - 1)]
  PROVE \A j \in 1 .. n - 1 : r[j] = IF j < i THEN s[j] ELSE s[j + 1]
<1> TAKE j \in 1 .. n - 1
<1>1. CASE j < i
  BY <1>1
<1>2. CASE j >= i
  <2>1. r[j] = b[j - (i - 1)] /\ j - (i - 1) \in 1 .. n - i
    BY <1>2
  <2>2. b[j - (i - 1)] = s[i + (j - (i - 1))] /\ i + (j - (i - 1)) = j + 1
    BY <1>2, <2>1
  <2> QED BY <1>2, <2>1, <2>2
<1> QED BY <1>1, <1>2

LEMMA Removing ==
  ASSUME NEW T, NEW s \in Seq(T), NEW i \in 1 .. Len(s), NEW r,
         r = SubSeq(s, 1, i - 1) \o SubSeq(s, i + 1, Len(s))
  PROVE /\ r \in Seq(T) /\ Len(r) = Len(s) - 1
        /\ \A j \in 1 .. Len(s) - 1 : r[j] = IF j < i THEN s[j] ELSE s[j + 1]
<1> DEFINE a == SubSeq(s, 1, i - 1)
           b == SubSeq(s, i + 1, Len(s))
<1>1. /\ Len(s) \in Nat /\ i \in Int /\ i - 1 \in Int /\ i + 1 \in Int /\ 1 \in Int
      /\ \A j \in 1 .. Len(s) : s[j] \in T
  BY LenProperties
<1>2. (\A j \in 1 .. i - 1 : s[j] \in T) /\ (\A j \in i + 1 .. Len(s) : s[j] \in T)
  BY <1>1
<1>3. /\ a \in Seq(T) /\ Len(a) = IF 1 <= i - 1 THEN i - 1 - 1 + 1 ELSE 0
      /\ \A j \in 1 .. i - 1 - 1 + 1 : a[j] = s[1 + j - 1]
  BY ONLY <1>1, <1>2, SubSeqProperties
<1>4. /\ b \in Seq(T) /\ Len(b) = IF i + 1 <= Len(s) THEN Len(s) - (i + 1) + 1 ELSE 0
      /\ \A j \in 1 .. Len(s) - (i + 1) + 1 : b[j] = s[i + 1 + j - 1]
  BY ONLY <1>1, <1>2, SubSeqProperties
<1>5. Len(a) = i - 1 /\ \A j \in 1 .. i - 1 : a[j] = s[j]
  BY <1>1, <1>3
<1>6. Len(b) = Len(s) - i /\ \A j \in 1 .. Len(s) - i : b[j] = s[i + j]
  BY <1>1, <1>4
<1>7. /\ r \in Seq(T) /\ Len(r) = Len(a) + Len(b)
      /\ \A j \in 1 .. Len(a) + Len(b) : r[j] = IF j <= Len(a) THEN a[j] ELSE b[j - Len(a)]
  BY <1>3, <1>4, ConcatProperties
<1> HIDE DEF a, b
<1>8. \A j \in 1 .. Len(s) - 1 : r[j] = IF j <= i - 1 THEN a[j] ELSE b[j - (i - 1)]
  BY ONLY <1>1, <1>5, <1>6, <1>7, i \in 1 .. Len(s)
<1>9. \A j \in 1 .. Len(s) - 1 : r[j] = IF j < i THEN s[j] ELSE s[j + 1]
  BY ONLY <1>1, <1>5, <1>6, <1>8, i \in 1 .. Len(s), Shifting
<1>10. Len(r) = Len(s) - 1
  BY ONLY <1>1, <1>5, <1>6, <1>7
<1> QED BY <1>7, <1>9, <1>10

\* The row with the key goes and all others stay.
LEMMA Deleting ==
  ASSUME StoreTypeOK, RowsDiffer, NEW k, rows' = DeleteByTransactionID(k)
  PROVE /\ rows' \in Seq([key : Notice, by : Buyer])
        /\ RowsDiffer'
        /\ \A i \in DOMAIN rows' :
             rows'[i].key # k /\ \E j \in DOMAIN rows : rows[j] = rows'[i]
        /\ \A j \in DOMAIN rows :
             rows[j].key # k => \E i \in DOMAIN rows' : rows'[i] = rows[j]
<1> DEFINE T == [key : Notice, by : Buyer]
           i == CHOOSE j \in DOMAIN rows : rows[j].key = k
<1>1. rows \in Seq(T) /\ Len(rows) \in Nat /\ DOMAIN rows = 1 .. Len(rows)
  BY DEF StoreTypeOK
<1>2. CASE ~ IsProcessed(k)
  BY <1>1, <1>2 DEF DeleteByTransactionID, IsProcessed, RowsDiffer
<1>3. CASE IsProcessed(k)
  <2>1. i \in 1 .. Len(rows) /\ rows[i].key = k
    BY <1>1, <1>3 DEF IsProcessed
  <2>2. rows' = SubSeq(rows, 1, i - 1) \o SubSeq(rows, i + 1, Len(rows))
    BY <1>3 DEF DeleteByTransactionID
  <2> HIDE DEF i, T
  <2>5. /\ rows' \in Seq(T) /\ Len(rows') = Len(rows) - 1
        /\ \A j \in 1 .. Len(rows) - 1 : rows'[j] = IF j < i THEN rows[j] ELSE rows[j + 1]
    BY ONLY <1>1, <2>1, <2>2, Removing
  <2>6. \A j \in 1 .. Len(rows) - 1 : rows'[j] = IF j < i THEN rows[j] ELSE rows[j + 1]
    BY <2>5
  <2>11. DOMAIN rows' = 1 .. Len(rows) - 1
    BY <1>1, <2>5, LenProperties
  <2>7. \A j \in 1 .. Len(rows) : j # i => rows[j].key # k
    BY <1>1, <2>1 DEF RowsDiffer
  <2>8. RowsDiffer'
    <3> SUFFICES ASSUME NEW p \in 1 .. Len(rows) - 1, NEW q \in 1 .. Len(rows) - 1,
                        rows'[p].key = rows'[q].key
                 PROVE p = q
      BY <2>11 DEF RowsDiffer
    <3> DEFINE Was(j) == IF j < i THEN j ELSE j + 1
    <3>1. /\ Was(p) \in 1 .. Len(rows) /\ Was(q) \in 1 .. Len(rows)
          /\ rows'[p] = rows[Was(p)] /\ rows'[q] = rows[Was(q)]
      BY <1>1, <2>1, <2>6
    <3>2. Was(p) = Was(q)
      BY <1>1, <3>1 DEF RowsDiffer
    <3> QED BY <1>1, <2>1, <3>2
  <2>9. ASSUME NEW j \in DOMAIN rows'
        PROVE rows'[j].key # k /\ \E m \in DOMAIN rows : rows[m] = rows'[j]
    <3> DEFINE m == IF j < i THEN j ELSE j + 1
    <3>1. m \in 1 .. Len(rows) /\ m # i /\ rows'[j] = rows[m]
      BY <1>1, <2>1, <2>6, <2>11
    <3> QED BY <1>1, <2>7, <3>1
  <2>10. ASSUME NEW j \in DOMAIN rows, rows[j].key # k
         PROVE \E m \in DOMAIN rows' : rows'[m] = rows[j]
    <3>1. CASE j < i
      BY <1>1, <2>1, <2>5, <2>6, <2>11, <3>1
    <3>2. CASE j > i
      <4>1. j - 1 \in DOMAIN rows' /\ rows'[j - 1] = rows[j]
        BY <1>1, <2>1, <2>5, <2>6, <2>11, <3>2
      <4> QED BY <4>1
    <3> QED BY <1>1, <2>1, <2>10, <3>1, <3>2
  <2>12. rows' \in Seq([key : Notice, by : Buyer])
    BY <2>5 DEF T
  <2> QED BY <2>8, <2>9, <2>10, <2>12
<1> QED BY <1>2, <1>3

\* A row comes at the end, unless one with its key is there.
LEMMA Inserting ==
  ASSUME StoreTypeOK, RowsDiffer, NEW k \in Notice, NEW u \in Buyer, rows' = Save(k, u)
  PROVE /\ rows' \in Seq([key : Notice, by : Buyer])
        /\ RowsDiffer' /\ IsProcessed(k)'
        /\ DOMAIN rows \subseteq DOMAIN rows'
        /\ \A i \in DOMAIN rows : rows'[i] = rows[i]
        /\ \A i \in DOMAIN rows' \ DOMAIN rows :
             rows'[i] = [key |-> k, by |-> u] /\ ~ IsProcessed(k)
<1> DEFINE T == [key : Notice, by : Buyer]
           row == [key |-> k, by |-> u]
<1>1. rows \in Seq(T) /\ Len(rows) \in Nat /\ DOMAIN rows = 1 .. Len(rows)
  BY DEF StoreTypeOK
<1>2. CASE IsProcessed(k)
  BY <1>1, <1>2 DEF Save, IsProcessed, RowsDiffer
<1>3. CASE ~ IsProcessed(k)
  <2>1. rows' = Append(rows, row) /\ row \in T
    BY <1>3 DEF Save
  <2>2. /\ rows' \in Seq(T) /\ Len(rows') = Len(rows) + 1
        /\ DOMAIN rows' = 1 .. Len(rows) + 1
        /\ \A i \in 1 .. Len(rows) : rows'[i] = rows[i]
        /\ rows'[Len(rows) + 1] = row
    BY <1>1, <2>1
  <2>3. \A i \in DOMAIN rows : rows[i].key # k
    BY <1>3 DEF IsProcessed
  <2>4. RowsDiffer'
    BY <1>1, <2>2, <2>3 DEF RowsDiffer
  <2>5. IsProcessed(k)'
    BY <1>1, <2>2 DEF IsProcessed
  <2>6. DOMAIN rows' \ DOMAIN rows = {Len(rows) + 1}
    BY <1>1, <2>2
  <2> QED BY <1>1, <1>3, <2>2, <2>4, <2>5, <2>6
<1> QED BY <1>2, <1>3
-----------------------------------------------------------------------------
\* Steps that leave the rows and what was granted alone.
Reads(c) ==
  \/ pcall'[c] = pcall[c]
  \/ pcall'[c].pc \in {"quiet", "Owner", "Expire"}
  \/ pcall'[c].pc = "Delete" /\ store = "apple"
  \/ /\ pcall'[c].pc = "IsProcessed" /\ pcall'[c].by = pcall[c].by
     /\ ~ BelongsToAnother(pcall[c].by)
  \/ /\ pcall'[c].pc = "Save" /\ pcall'[c].by = pcall[c].by /\ pcall'[c].n = pcall[c].n
     /\ pcall[c].pc = "IsProcessed" /\ ~ IsProcessed(KeyOf(c))

LEMMA ReadingKeeps ==
  ASSUME StoreInv, UNCHANGED <<store, rows, granted, revoked, spoiled>>,
         tangled \subseteq tangled', cut \subseteq cut',
         \A c \in StoreCall : Reads(c),
         \A c \in StoreCall : pcall[c].pc \in Saved =>
           pcall'[c] = pcall[c] \/ KeyOf(c) \in cut'
  PROVE /\ RowsDiffer' /\ OnlyAppleDeletes' /\ GrantsBounded' /\ RowIsSaved'
        /\ GrantedOnce' /\ OneBuyer' /\ RowMeansGrant'
<1>1. \A n \in Notice : Times(n)' = Times(n) /\ Key(n)' = Key(n)
  BY SameTimes DEF Key
<1>2. \A k : IsProcessed(k)' = IsProcessed(k)
  BY DEF IsProcessed
<1>3. RowsDiffer' /\ OnlyAppleDeletes'
  BY DEF StoreInv, RowsDiffer, OnlyAppleDeletes, At, Reads
<1>4. GrantsBounded'
  BY <1>1 DEF StoreInv, GrantsBounded
<1>5. \A c \in StoreCall : pcall'[c].pc \in Saved => pcall'[c] = pcall[c]
  BY DEF Reads, Saved
<1>6. \A c \in StoreCall : pcall'[c] = pcall[c] => KeyOf(c)' = KeyOf(c)
  BY DEF KeyOf, Key
<1>7. RowIsSaved'
  BY <1>2, <1>5, <1>6 DEF StoreInv, RowIsSaved
<1>8. ASSUME NEW n \in Notice, Ungranted(n)' PROVE Ungranted(n)
  <2>1. CASE ~ IsProcessed(Key(n))'
    BY <1>1, <1>2, <2>1 DEF Ungranted
  <2>2. ASSUME NEW c \in StoreCall, pcall'[c].pc \in Saving, KeyOf(c)' = Key(n)'
        PROVE Ungranted(n)
    <3>1. CASE pcall'[c] = pcall[c]
      BY <1>1, <1>6, <2>2, <3>1 DEF Ungranted
    <3>2. CASE pcall'[c] # pcall[c]
      <4>1. pcall'[c].n = pcall[c].n /\ ~ IsProcessed(KeyOf(c))
        BY <2>2, <3>2 DEF Reads, Saving
      <4>2. KeyOf(c)' = KeyOf(c)
        BY <4>1 DEF KeyOf, Key
      <4> QED BY <1>1, <2>2, <4>1, <4>2 DEF Ungranted
    <3> QED BY <3>1, <3>2
  <2>3. Ungranted(n)' => \/ ~ IsProcessed(Key(n))'
                        \/ \E c \in StoreCall : pcall'[c].pc \in Saving /\ KeyOf(c)' = Key(n)'
    BY DEF Ungranted
  <2> QED BY <1>8, <2>1, <2>2, <2>3
<1>9. GrantedOnce'
  BY <1>1, <1>8 DEF StoreInv, GrantedOnce
<1>10. OneBuyer'
  <2> SUFFICES ASSUME Undisturbed' PROVE
        /\ \A i, j \in DOMAIN rows : rows[i].by = rows[j].by
        /\ \A n \in Notice, u \in Buyer : granted[n][u] > 0 =>
             \E i \in DOMAIN rows : rows[i].key = Key(n) /\ rows[i].by = u
        /\ \A c \in StoreCall : pcall'[c].pc \in Saving \cup {"IsProcessed"} =>
             \A i \in DOMAIN rows : rows[i].by = pcall'[c].by
    BY <1>1 DEF OneBuyer
  <2>1. Undisturbed
    BY DEF Undisturbed
  <2>2. /\ \A i, j \in DOMAIN rows : rows[i].by = rows[j].by
        /\ \A n \in Notice, u \in Buyer : granted[n][u] > 0 =>
             \E i \in DOMAIN rows : rows[i].key = Key(n) /\ rows[i].by = u
        /\ \A c \in StoreCall : pcall[c].pc \in Saving \cup {"IsProcessed"} =>
             \A i \in DOMAIN rows : rows[i].by = pcall[c].by
    BY <2>1 DEF StoreInv, OneBuyer
  <2>3. ASSUME NEW c \in StoreCall, pcall'[c].pc \in Saving \cup {"IsProcessed"},
               NEW i \in DOMAIN rows
        PROVE rows[i].by = pcall'[c].by
    <3>1. CASE pcall'[c] = pcall[c]
      BY <2>2, <2>3, <3>1
    <3>2. CASE pcall'[c].pc = "IsProcessed" /\ pcall'[c].by = pcall[c].by
                 /\ ~ BelongsToAnother(pcall[c].by)
      <4>1. rows # <<>> /\ Len(rows) \in DOMAIN rows
        BY LenProperties, EmptySeq DEF StoreInv, StoreTypeOK
      <4>2. rows[Len(rows)].by = pcall[c].by
        BY <3>2, <4>1 DEF BelongsToAnother, Owned, GetOwner
      <4> QED BY <2>2, <3>2, <4>1, <4>2
    <3>3. CASE pcall'[c].by = pcall[c].by /\ pcall[c].pc = "IsProcessed"
      BY <2>2, <3>3
    <3> QED BY <2>3, <3>1, <3>2, <3>3 DEF Reads, Saving
  <2> QED BY <2>2, <2>3
<1>11. RowMeansGrant'
  <2> SUFFICES ASSUME NEW i \in DOMAIN rows
      PROVE \/ rows[i].key \in cut' \cup tangled'
            \/ \E c \in StoreCall : pcall'[c].pc \in Saved /\ KeyOf(c)' = rows[i].key
            \/ \E n \in Notice : Key(n) = rows[i].key /\ Times(n) # {}
    BY <1>1 DEF RowMeansGrant
  <2>1. ASSUME NEW c \in StoreCall, pcall[c].pc \in Saved, KeyOf(c) = rows[i].key
        PROVE \/ rows[i].key \in cut'
              \/ pcall'[c].pc \in Saved /\ KeyOf(c)' = rows[i].key
    BY <1>6, <2>1
  <2> QED BY <2>1 DEF StoreInv, RowMeansGrant
<1> QED BY <1>3, <1>4, <1>7, <1>9, <1>10, <1>11

LEMMA RunningOn ==
  ASSUME StoreInv, store' = store, tangled' = tangled,
         \A c \in StoreCall : Running(c)' => Running(c) /\ pcall'[c].n = pcall[c].n
  PROVE RunsAlone'
BY DEF StoreInv, RunsAlone, KeyOf, Key

LEMMA AnswersStand ==
  ASSUME StoreInv, store' = store, cut \subseteq cut', tangled \subseteq tangled',
         \A n \in Notice : Times(n) # {} => Times(n)' # {},
         answered' \subseteq Notice,
         \A n \in answered' \ answered :
           \/ Times(n)' # {}
           \/ Key(n) \in cut \cup tangled
           \/ store = "google" /\ \E m \in Notice : Times(m)' # {}
  PROVE AnsweredIsGranted'
<1> SUFFICES ASSUME NEW n \in answered'
    PROVE \/ Times(n)' # {}
          \/ Key(n) \in cut' \cup tangled'
          \/ store = "google" /\ \E m \in Notice : Times(m)' # {}
  BY DEF AnsweredIsGranted, Key
<1>1. n \in Notice
  OBVIOUS
<1>2. CASE n \in answered
  BY <1>1, <1>2 DEF StoreInv, AnsweredIsGranted
<1> QED BY <1>2

LEMMA BeginStep ==
  ASSUME StoreInv, NEW c \in StoreCall, NEW u \in Buyer, NEW n \in Notice,
         NEW pc \in {"Owner", "Delete", "Expire"}, pc = "Delete" => store = "apple",
         Begin(c, pc, u, n)
  PROVE StoreInv'
<1> DEFINE others == {d \in StoreCall : Running(d)}
<1>0. StoreTypeOK /\ DOMAIN pcall = StoreCall
  BY DEF StoreInv, StoreTypeOK
<1>1. pcall'[c] = [pc |-> pc, by |-> u, n |-> n] /\ \A d \in StoreCall \ {c} : pcall'[d] = pcall[d]
  BY <1>0 DEF Begin
<1>2. tangled \subseteq tangled' /\ tangled' \subseteq Notice
  BY <1>0, Keys DEF Begin, StoreTypeOK, KeyOf
<1>3. StoreTypeOK'
  BY <1>0, <1>2 DEF Begin, StoreTypeOK
<1>4. /\ RowsDiffer' /\ OnlyAppleDeletes' /\ GrantsBounded' /\ RowIsSaved'
      /\ GrantedOnce' /\ OneBuyer' /\ RowMeansGrant'
  <2>1. \A d \in StoreCall : Reads(d)
    BY <1>1 DEF Reads
  <2>2. pcall[c].pc \notin Saved
    BY DEF Begin, Running, Saved
  <2>3. \A d \in StoreCall : pcall[d].pc \in Saved => pcall'[d] = pcall[d]
    BY <1>1, <2>2
  <2> QED BY <1>2, <2>1, <2>3, ReadingKeeps DEF Begin
<1>5. RunsAlone'
  <2>1. \A d \in StoreCall : Running(d)' => d = c \/ d \in others
    BY <1>1 DEF Running
  <2>2. CASE others = {}
    BY <2>1, <2>2 DEF RunsAlone
  <2>3. CASE others # {}
    <3>1. tangled' = tangled \cup {Key(n)} \cup {Key(pcall[d].n) : d \in others}
      BY <2>3 DEF Begin
    <3>2. KeyOf(c)' = Key(n) /\ \A d \in others : KeyOf(d)' = Key(pcall[d].n)
      BY <1>1 DEF KeyOf, Key, Begin
    <3> QED BY <2>1, <3>1, <3>2 DEF RunsAlone
  <2> QED BY <2>2, <2>3
<1>6. AnsweredIsGranted'
  BY <1>0, <1>2, SameTimes, AnswersStand DEF Begin, StoreTypeOK
<1> QED BY <1>3, <1>4, <1>5, <1>6 DEF StoreInv

\* Owned rows have an owner.
LEMMA OwnerTyped == ASSUME StoreTypeOK, Owned PROVE GetOwner \in Buyer
<1>1. Len(rows) \in 1 .. Len(rows)
  BY LenProperties, EmptySeq DEF StoreTypeOK, Owned
<1>2. rows[Len(rows)] \in [key : Notice, by : Buyer]
  BY <1>1, ElementOfSeq DEF StoreTypeOK
<1> QED BY <1>2 DEF GetOwner

LEMMA RequestStep ==
  ASSUME StoreInv, NEW c \in StoreCall, NEW n \in Notice,
         \/ \E u \in Buyer : VerifyIOSPurchase(c, u, n) \/ VerifyAndroidPurchase(c, u, n)
         \/ AppleNotificationsV2(c, n) \/ GoogleNotifications(c, n)
  PROVE StoreInv'
<1>1. Owned => GetOwner \in Buyer
  BY OwnerTyped DEF StoreInv
<1> QED BY <1>1, BeginStep DEF VerifyIOSPurchase, VerifyAndroidPurchase,
           AppleNotificationsV2, GoogleNotifications

LEMMA CheckOwnerStep == ASSUME StoreInv, NEW c \in StoreCall, CheckOwner(c) PROVE StoreInv'
<1>0. StoreTypeOK /\ DOMAIN pcall = StoreCall
  BY DEF StoreInv, StoreTypeOK
<1>1. \A d \in StoreCall \ {c} : pcall'[d] = pcall[d]
  BY <1>0 DEF CheckOwner, Ends, Goes
<1>2. pcall[c].pc = "Owner" /\ pcall[c].by \in Buyer /\ pcall[c].n \in Notice
  BY <1>0, CallTyped DEF CheckOwner, At, Quiet
<1>3. /\ pcall' \in CallType
      /\ \/ pcall'[c] = Quiet
         \/ /\ pcall'[c] = [pc |-> "IsProcessed", by |-> pcall[c].by, n |-> pcall[c].n]
            /\ ~ BelongsToAnother(pcall[c].by)
  <2>1. Running(c) /\ "IsProcessed" \in PCs
    BY <1>2 DEF Running, PCs
  <2>2. CASE BelongsToAnother(pcall[c].by)
    BY <1>0, <2>2, Ending DEF CheckOwner
  <2>3. CASE ~ BelongsToAnother(pcall[c].by)
    BY <1>0, <2>1, <2>3, Going DEF CheckOwner
  <2> QED BY <2>2, <2>3
<1>4. StoreTypeOK'
  BY <1>0, <1>3 DEF CheckOwner, StoreTypeOK, CallType, PCs, history
<1>5. /\ RowsDiffer' /\ OnlyAppleDeletes' /\ GrantsBounded' /\ RowIsSaved'
      /\ GrantedOnce' /\ OneBuyer' /\ RowMeansGrant'
  <2>1. \A d \in StoreCall : Reads(d)
    BY <1>1, <1>3 DEF Reads, Quiet
  <2>2. \A d \in StoreCall : pcall[d].pc \in Saved => pcall'[d] = pcall[d]
    BY <1>1, <1>2 DEF Saved
  <2> QED BY <2>1, <2>2, ReadingKeeps DEF CheckOwner, history
<1>6. RunsAlone'
  BY <1>1, <1>2, <1>3, RunningOn DEF Running, Quiet, CheckOwner, history
<1>7. AnsweredIsGranted'
  BY <1>0, SameTimes, AnswersStand DEF CheckOwner, StoreTypeOK, history
<1> QED BY <1>4, <1>5, <1>6, <1>7 DEF StoreInv

LEMMA CheckProcessedStep == ASSUME StoreInv, NEW c \in StoreCall, CheckProcessed(c) PROVE StoreInv'
<1> DEFINE n == pcall[c].n
<1>0. StoreTypeOK /\ DOMAIN pcall = StoreCall
  BY DEF StoreInv, StoreTypeOK
<1>1. \A d \in StoreCall \ {c} : pcall'[d] = pcall[d]
  BY <1>0 DEF CheckProcessed, Ends, Goes
<1>2. pcall[c].pc = "IsProcessed" /\ pcall[c].by \in Buyer /\ n \in Notice
  BY <1>0, CallTyped DEF CheckProcessed, At, Quiet
<1>3. /\ pcall' \in CallType
      /\ \/ pcall'[c] = Quiet /\ IsProcessed(KeyOf(c)) /\ answered' = answered \cup {n}
         \/ /\ pcall'[c] = [pc |-> "Save", by |-> pcall[c].by, n |-> n]
            /\ ~ IsProcessed(KeyOf(c)) /\ answered' = answered
  <2>1. Running(c) /\ "Save" \in PCs
    BY <1>2 DEF Running, PCs
  <2>2. CASE IsProcessed(KeyOf(c))
    BY <1>0, <2>2, Ending DEF CheckProcessed, KeyOf
  <2>3. CASE ~ IsProcessed(KeyOf(c))
    BY <1>0, <2>1, <2>3, Going DEF CheckProcessed, KeyOf
  <2> QED BY <2>2, <2>3
<1>4. StoreTypeOK'
  BY <1>0, <1>2, <1>3 DEF CheckProcessed, StoreTypeOK, CallType, PCs
<1>5. /\ RowsDiffer' /\ OnlyAppleDeletes' /\ GrantsBounded' /\ RowIsSaved'
      /\ GrantedOnce' /\ OneBuyer' /\ RowMeansGrant'
  <2>1. \A d \in StoreCall : Reads(d)
    BY <1>1, <1>2, <1>3 DEF Reads, Quiet
  <2>2. \A d \in StoreCall : pcall[d].pc \in Saved => pcall'[d] = pcall[d]
    BY <1>1, <1>2 DEF Saved
  <2> QED BY <2>1, <2>2, ReadingKeeps DEF CheckProcessed
<1>6. RunsAlone'
  BY <1>1, <1>2, <1>3, RunningOn DEF Running, Quiet, CheckProcessed
<1>7. AnsweredIsGranted'
  <2>1. ASSUME IsProcessed(KeyOf(c))
        PROVE \/ Times(n) # {}
              \/ Key(n) \in cut \cup tangled
              \/ store = "google" /\ \E m \in Notice : Times(m) # {}
    <3>1. PICK i \in DOMAIN rows : rows[i].key = Key(n)
      BY <2>1 DEF IsProcessed, KeyOf
    <3>2. ASSUME NEW d \in StoreCall, pcall[d].pc \in Saved, KeyOf(d) = Key(n)
          PROVE Key(n) \in tangled
      <4>1. Running(c) /\ Running(d) /\ d # c /\ KeyOf(c) = Key(n)
        BY <1>2, <3>2 DEF Running, Saved, KeyOf
      <4> QED BY <4>1 DEF StoreInv, RunsAlone
    <3>3. CASE \E m \in Notice : Key(m) = Key(n) /\ Times(m) # {}
      BY <1>0, <3>3 DEF Key, StoreTypeOK
    <3>4. \/ Key(n) \in cut \cup tangled
          \/ \E d \in StoreCall : pcall[d].pc \in Saved /\ KeyOf(d) = Key(n)
          \/ \E m \in Notice : Key(m) = Key(n) /\ Times(m) # {}
      BY <3>1 DEF StoreInv, RowMeansGrant
    <3>5. CASE Key(n) \in cut \cup tangled
      BY <3>5
    <3>6. CASE \E d \in StoreCall : pcall[d].pc \in Saved /\ KeyOf(d) = Key(n)
      BY <3>2, <3>6
    <3> QED BY <3>3, <3>4, <3>5, <3>6
  <2>2. \A m \in Notice : Times(m)' = Times(m)
    BY SameTimes DEF CheckProcessed
  <2> QED BY <1>2, <1>3, <1>4, <2>1, <2>2, AnswersStand DEF CheckProcessed, StoreTypeOK
<1> QED BY <1>4, <1>5, <1>6, <1>7 DEF StoreInv

LEMMA ForceExpireStep ==
  ASSUME StoreInv, NEW c \in StoreCall, ForceExpireSubscription(c) PROVE StoreInv'
<1>0. StoreTypeOK /\ DOMAIN pcall = StoreCall
  BY DEF StoreInv, StoreTypeOK
<1>1. pcall'[c] = Quiet /\ \A d \in StoreCall \ {c} : pcall'[d] = pcall[d]
  BY <1>0 DEF ForceExpireSubscription, Ends
<1>2. pcall[c].pc = "Expire"
  BY DEF ForceExpireSubscription, At
<1>4. StoreTypeOK'
  BY <1>0 DEF ForceExpireSubscription, StoreTypeOK, Ends, history
<1>5. /\ RowsDiffer' /\ OnlyAppleDeletes' /\ GrantsBounded' /\ RowIsSaved'
      /\ GrantedOnce' /\ OneBuyer' /\ RowMeansGrant'
  <2>1. \A d \in StoreCall : Reads(d)
    BY <1>1 DEF Reads, Quiet
  <2>2. \A d \in StoreCall : pcall[d].pc \in Saved => pcall'[d] = pcall[d]
    BY <1>1, <1>2 DEF Saved
  <2> QED BY <2>1, <2>2, ReadingKeeps DEF ForceExpireSubscription, history
<1>6. RunsAlone'
  BY <1>1, RunningOn DEF Running, Quiet, ForceExpireSubscription, history
<1>7. AnsweredIsGranted'
  BY <1>0, SameTimes, AnswersStand DEF ForceExpireSubscription, StoreTypeOK, history
<1> QED BY <1>4, <1>5, <1>6, <1>7 DEF StoreInv

LEMMA DiesStep == ASSUME StoreInv, NEW c \in StoreCall, Dies(c) PROVE StoreInv'
<1>0. StoreTypeOK /\ DOMAIN pcall = StoreCall
  BY DEF StoreInv, StoreTypeOK
<1>1. pcall'[c] = Quiet /\ \A d \in StoreCall \ {c} : pcall'[d] = pcall[d]
  BY <1>0 DEF Dies, Ends
<1>2. /\ cut \subseteq cut' /\ cut' \subseteq Notice
      /\ pcall[c].pc \in Saved => KeyOf(c) \in cut'
  BY <1>0, Keys DEF Dies, StoreTypeOK, KeyOf, At, Saved
<1>4. StoreTypeOK'
  BY <1>0, <1>2 DEF Dies, StoreTypeOK, Ends
<1>5. /\ RowsDiffer' /\ OnlyAppleDeletes' /\ GrantsBounded' /\ RowIsSaved'
      /\ GrantedOnce' /\ OneBuyer' /\ RowMeansGrant'
  <2>1. \A d \in StoreCall : Reads(d)
    BY <1>1 DEF Reads, Quiet
  <2>2. \A d \in StoreCall : pcall[d].pc \in Saved => pcall'[d] = pcall[d] \/ KeyOf(d) \in cut'
    BY <1>1, <1>2
  <2> QED BY <1>2, <2>1, <2>2, ReadingKeeps DEF Dies
<1>6. RunsAlone'
  BY <1>1, RunningOn DEF Running, Quiet, Dies
<1>7. AnsweredIsGranted'
  BY <1>0, <1>2, SameTimes, AnswersStand DEF Dies, StoreTypeOK
<1> QED BY <1>4, <1>5, <1>6, <1>7 DEF StoreInv

\* The store's own steps and stuttering.
LEMMA OutsideStep ==
  ASSUME StoreInv, Renew \/ (\E n \in Txn : Refund(n)) \/ UNCHANGED storeVars
  PROVE StoreInv'
<1>0. StoreTypeOK /\ UNCHANGED <<store, product, hasAccount, rows, held, pcall, history>>
  BY DEF StoreInv, Renew, Refund, storeVars
<1>1. issued' \in 1 .. MaxTxn /\ refunded' \subseteq 1 .. issued'
  <2>0. MaxTxn \in Nat /\ issued \in 1 .. MaxTxn /\ refunded \subseteq 1 .. issued
    BY <1>0, StoreAssumption DEF StoreTypeOK
  <2>1. CASE Renew
    BY <2>0, <2>1 DEF Renew
  <2>2. CASE \E n \in Txn : Refund(n)
    BY <2>0, <2>2 DEF Refund
  <2>3. CASE UNCHANGED storeVars
    BY <2>0, <2>3 DEF storeVars
  <2> QED BY <2>1, <2>2, <2>3
<1>4. StoreTypeOK'
  BY <1>0, <1>1 DEF StoreTypeOK, history
<1>5. /\ RowsDiffer' /\ OnlyAppleDeletes' /\ GrantsBounded' /\ RowIsSaved'
      /\ GrantedOnce' /\ OneBuyer' /\ RowMeansGrant'
  BY <1>0, ReadingKeeps DEF history, Reads
<1>6. RunsAlone'
  BY <1>0, RunningOn DEF Running, history
<1>7. AnsweredIsGranted'
  BY <1>0, SameTimes, AnswersStand DEF StoreTypeOK, history
<1> QED BY <1>4, <1>5, <1>6, <1>7 DEF StoreInv

LEMMA SaveRowStep == ASSUME StoreInv, NEW c \in StoreCall, SaveRow(c) PROVE StoreInv'
<1>0. StoreTypeOK /\ RowsDiffer
  BY DEF StoreInv
<1>20. PICK n \in Notice, u \in Buyer, k \in Notice :
         pcall[c].n = n /\ pcall[c].by = u /\ KeyOf(c) = k
  BY <1>0, Keys DEF SaveRow, At, Running
<1>1. pcall[c].pc = "Save" /\ Running(c) /\ KeyOf(c) = k /\ pcall[c].by = u
  BY <1>20 DEF SaveRow, At, Running
<1>2. /\ pcall'[c] = [pc |-> "Apply", by |-> u, n |-> n] /\ pcall' \in CallType
      /\ \A d \in StoreCall \ {c} : pcall'[d] = pcall[d]
  BY <1>0, <1>1, <1>20, Going DEF SaveRow, PCs
<1>3. /\ rows' \in Seq([key : Notice, by : Buyer])
      /\ RowsDiffer' /\ IsProcessed(k)'
      /\ DOMAIN rows \subseteq DOMAIN rows'
      /\ \A i \in DOMAIN rows : rows'[i] = rows[i]
      /\ \A i \in DOMAIN rows' \ DOMAIN rows :
           rows'[i] = [key |-> k, by |-> u] /\ ~ IsProcessed(k)
  <2>1. rows' = Save(k, u)
    BY <1>20 DEF SaveRow, KeyOf
  <2> QED BY <1>0, <2>1, Inserting
<1>4. UNCHANGED <<store, product, hasAccount, issued, refunded, held, granted, revoked,
                  spoiled, cut, tangled, answered>>
  BY DEF SaveRow, history
<1>5. StoreTypeOK'
  BY <1>0, <1>2, <1>3, <1>4 DEF StoreTypeOK, CallType, PCs
<1>6. \A m \in Notice : Times(m)' = Times(m) /\ Key(m)' = Key(m)
  BY <1>4, SameTimes DEF Key
<1>7. \A d \in StoreCall : KeyOf(d)' = KeyOf(d)
  BY <1>1, <1>2, <1>4, <1>20 DEF KeyOf, Key
<1>8. \A x : IsProcessed(x) => IsProcessed(x)'
  BY <1>3 DEF IsProcessed
<1>9. OnlyAppleDeletes' /\ GrantsBounded'
  BY <1>2, <1>4, <1>6 DEF StoreInv, OnlyAppleDeletes, GrantsBounded, At
<1>10. RunsAlone'
  BY <1>1, <1>2, <1>4, <1>20, RunningOn DEF Running
<1>11. RowIsSaved'
  BY <1>1, <1>2, <1>3, <1>4, <1>7, <1>8 DEF StoreInv, RowIsSaved
<1>12. ASSUME NEW m \in Notice, Ungranted(m)' PROVE Ungranted(m)
  <2>1. CASE ~ IsProcessed(Key(m))'
    <3>1. ~ IsProcessed(Key(m))
      BY <1>6, <1>8, <2>1
    <3> QED BY <3>1 DEF Ungranted
  <2>2. ASSUME NEW d \in StoreCall, pcall'[d].pc \in Saving, KeyOf(d)' = Key(m)'
        PROVE Ungranted(m)
    <3>1. pcall[d].pc \in Saving /\ KeyOf(d) = Key(m)
      BY <1>1, <1>2, <1>6, <1>7, <2>2 DEF Saving
    <3> QED BY <3>1 DEF Ungranted
  <2>3. ~ IsProcessed(Key(m))' \/ \E d \in StoreCall : pcall'[d].pc \in Saving /\ KeyOf(d)' = Key(m)'
    BY <1>12 DEF Ungranted
  <2> QED BY <2>1, <2>2, <2>3
<1>13. GrantedOnce'
  BY <1>4, <1>6, <1>12 DEF StoreInv, GrantedOnce
<1>14. OneBuyer'
  <2> SUFFICES ASSUME Undisturbed PROVE
        /\ \A i, j \in DOMAIN rows' : rows'[i].by = rows'[j].by
        /\ \A m \in Notice, v \in Buyer : granted[m][v] > 0 =>
             \E i \in DOMAIN rows' : rows'[i].key = Key(m) /\ rows'[i].by = v
        /\ \A d \in StoreCall : pcall'[d].pc \in Saving \cup {"IsProcessed"} =>
             \A i \in DOMAIN rows' : rows'[i].by = pcall'[d].by
    BY <1>4, <1>6 DEF OneBuyer, Undisturbed
  <2>1. /\ \A m \in Notice, v \in Buyer : granted[m][v] > 0 =>
             \E i \in DOMAIN rows : rows[i].key = Key(m) /\ rows[i].by = v
        /\ \A d \in StoreCall : pcall[d].pc \in Saving \cup {"IsProcessed"} =>
             \A i \in DOMAIN rows : rows[i].by = pcall[d].by
    BY DEF StoreInv, OneBuyer
  <2>2. \A i \in DOMAIN rows' : rows'[i].by = u
    BY <1>1, <1>3, <2>1 DEF Saving
  <2>3. \A d \in StoreCall : Running(d) => d = c
    BY <1>1 DEF StoreInv, RunsAlone, Undisturbed
  <2>4. \A d \in StoreCall : pcall'[d].pc \in Saving \cup {"IsProcessed"} => d = c
    BY <1>2, <2>3 DEF Running, Saving
  <2>5. \A m \in Notice, v \in Buyer : granted[m][v] > 0 =>
             \E i \in DOMAIN rows' : rows'[i].key = Key(m) /\ rows'[i].by = v
    BY <1>3, <2>1
  <2> QED BY <1>2, <2>2, <2>4, <2>5
<1>15. RowMeansGrant'
  <2> SUFFICES ASSUME NEW i \in DOMAIN rows'
      PROVE \/ rows'[i].key \in cut \cup tangled
            \/ \E d \in StoreCall : pcall'[d].pc \in Saved /\ KeyOf(d)' = rows'[i].key
            \/ \E m \in Notice : Key(m) = rows'[i].key /\ Times(m) # {}
    BY <1>4, <1>6 DEF RowMeansGrant
  <2>1. CASE i \in DOMAIN rows
    <3>1. \A d \in StoreCall : pcall[d].pc \in Saved => pcall'[d].pc \in Saved
      BY <1>1, <1>2 DEF Saved
    <3> QED BY <1>3, <1>7, <2>1, <3>1 DEF StoreInv, RowMeansGrant
  <2>2. CASE i \notin DOMAIN rows
    <3>1. rows'[i].key = k
      BY <1>3, <2>2
    <3>2. pcall'[c].pc \in Saved /\ KeyOf(c)' = rows'[i].key
      BY <1>1, <1>2, <1>7, <3>1 DEF Saved
    <3> QED BY <3>2
  <2> QED BY <2>1, <2>2
<1>16. AnsweredIsGranted'
  BY <1>0, <1>4, <1>6, AnswersStand DEF StoreTypeOK
<1> QED BY <1>3, <1>5, <1>9, <1>10, <1>11, <1>13, <1>14, <1>15, <1>16 DEF StoreInv

\* What every deletion of a row leaves true.
LEMMA DeletingKeeps ==
  ASSUME StoreInv, NEW c \in StoreCall, NEW k \in Notice,
         rows' = DeleteByTransactionID(k), Running(c), k = KeyOf(c),
         UNCHANGED <<store, granted, spoiled, cut, tangled, answered>>,
         \A d \in StoreCall \ {c} : pcall'[d] = pcall[d],
         pcall'[c].pc \in {"quiet", "Expire"}, pcall'[c].n = pcall[c].n \/ pcall'[c].pc = "quiet",
         StoreTypeOK'
  PROVE /\ RowsDiffer' /\ OnlyAppleDeletes' /\ RunsAlone' /\ GrantsBounded' /\ RowIsSaved'
        /\ RowMeansGrant' /\ AnsweredIsGranted'
        /\ \A m \in Notice : Key(m) # k /\ Ungranted(m)' => Ungranted(m)
<1>0. StoreTypeOK /\ RowsDiffer
  BY DEF StoreInv
<1>1. /\ RowsDiffer'
      /\ \A i \in DOMAIN rows' :
           rows'[i].key # k /\ \E j \in DOMAIN rows : rows[j] = rows'[i]
      /\ \A j \in DOMAIN rows :
           rows[j].key # k => \E i \in DOMAIN rows' : rows'[i] = rows[j]
  BY <1>0, Deleting
<1>2. \A m \in Notice : Times(m)' = Times(m) /\ Key(m)' = Key(m)
  BY SameTimes DEF Key
<1>3. \A d \in StoreCall : pcall'[d].pc \in Saving => d # c /\ pcall'[d] = pcall[d] /\ KeyOf(d)' = KeyOf(d)
  BY DEF Saving, KeyOf, Key
<1>4. \A x : x # k => (IsProcessed(x)' <=> IsProcessed(x))
  BY <1>1 DEF IsProcessed
<1>5. OnlyAppleDeletes' /\ GrantsBounded'
  BY <1>2 DEF StoreInv, OnlyAppleDeletes, GrantsBounded, At
<1>6. RunsAlone'
  BY RunningOn DEF Running
<1>7. RowIsSaved'
  <2> SUFFICES ASSUME NEW d \in StoreCall, pcall'[d].pc \in Saved, KeyOf(d)' \notin tangled
               PROVE FALSE
    BY DEF RowIsSaved
  <2>1. d # c /\ pcall'[d] = pcall[d] /\ KeyOf(d)' = KeyOf(d)
    BY <1>3 DEF Saved, Saving
  <2>2. Running(d)
    BY <2>1 DEF Running, Saved
  <2> QED BY <2>1, <2>2 DEF StoreInv, RunsAlone
<1>8. RowMeansGrant'
  <2> SUFFICES ASSUME NEW i \in DOMAIN rows'
      PROVE \/ rows'[i].key \in cut \cup tangled
            \/ \E d \in StoreCall : pcall'[d].pc \in Saved /\ KeyOf(d)' = rows'[i].key
            \/ \E m \in Notice : Key(m) = rows'[i].key /\ Times(m) # {}
    BY <1>2 DEF RowMeansGrant
  <2>1. PICK j \in DOMAIN rows : rows[j] = rows'[i] /\ rows[j].key # k
    BY <1>1
  <2>2. ASSUME NEW d \in StoreCall, pcall[d].pc \in Saved, KeyOf(d) = rows[j].key
        PROVE pcall'[d].pc \in Saved /\ KeyOf(d)' = rows'[i].key
    BY <2>1, <2>2 DEF KeyOf, Key
  <2> QED BY <2>1, <2>2 DEF StoreInv, RowMeansGrant
<1>9. AnsweredIsGranted'
  BY <1>0, <1>2, AnswersStand DEF StoreTypeOK
<1>10. ASSUME NEW m \in Notice, Key(m) # k, Ungranted(m)' PROVE Ungranted(m)
  <2>1. CASE ~ IsProcessed(Key(m))'
    <3>1. ~ IsProcessed(Key(m))
      BY <1>2, <1>4, <1>10, <2>1
    <3> QED BY <3>1 DEF Ungranted
  <2>2. ASSUME NEW d \in StoreCall, pcall'[d].pc \in Saving, KeyOf(d)' = Key(m)'
        PROVE Ungranted(m)
    BY <1>2, <1>3, <2>2 DEF Ungranted
  <2>3. ~ IsProcessed(Key(m))' \/ \E d \in StoreCall : pcall'[d].pc \in Saving /\ KeyOf(d)' = Key(m)'
    BY <1>10 DEF Ungranted
  <2> QED BY <2>1, <2>2, <2>3
<1> QED BY <1>1, <1>5, <1>6, <1>7, <1>8, <1>9, <1>10

LEMMA UndoStep == ASSUME StoreInv, NEW c \in StoreCall, Undo(c) PROVE StoreInv'
<1> DEFINE k == KeyOf(c)
<1>0. StoreTypeOK /\ RowsDiffer
  BY DEF StoreInv
<1>1. pcall[c].pc = "Undo" /\ Running(c) /\ k \in Notice
  BY <1>0, Keys DEF Undo, At, Running
<1>2. /\ pcall'[c] = Quiet /\ pcall' \in CallType
      /\ \A d \in StoreCall \ {c} : pcall'[d] = pcall[d]
  BY <1>0, Ending DEF Undo
<1>3. /\ rows' \in Seq([key : Notice, by : Buyer])
      /\ \A i \in DOMAIN rows' :
           rows'[i].key # k /\ \E j \in DOMAIN rows : rows[j] = rows'[i]
      /\ \A j \in DOMAIN rows :
           rows[j].key # k => \E i \in DOMAIN rows' : rows'[i] = rows[j]
  BY <1>0, Deleting DEF Undo, KeyOf
<1>4. UNCHANGED <<store, product, hasAccount, issued, refunded, held, granted, revoked,
                  spoiled, cut, tangled, answered>>
  BY DEF Undo, history
<1>5. StoreTypeOK'
  BY <1>0, <1>2, <1>3, <1>4 DEF StoreTypeOK, CallType, PCs
<1>6. /\ RowsDiffer' /\ OnlyAppleDeletes' /\ RunsAlone' /\ GrantsBounded' /\ RowIsSaved'
      /\ RowMeansGrant' /\ AnsweredIsGranted'
      /\ \A m \in Notice : Key(m) # k /\ Ungranted(m)' => Ungranted(m)
  <2>1. rows' = DeleteByTransactionID(k)
    BY DEF Undo, KeyOf
  <2>2. pcall'[c].pc = "quiet"
    BY <1>2 DEF Quiet
  <2> QED BY <1>1, <1>2, <1>4, <1>5, <2>1, <2>2, DeletingKeeps
<1>7. \A m \in Notice : Times(m)' = Times(m) /\ Key(m)' = Key(m)
  BY <1>4, SameTimes DEF Key
<1>8. \A m \in Notice : Key(m) = k => Ungranted(m)
  BY <1>1 DEF Ungranted, Saving
<1>9. GrantedOnce'
  BY <1>4, <1>6, <1>7, <1>8 DEF StoreInv, GrantedOnce
<1>10. OneBuyer'
  <2> SUFFICES ASSUME Undisturbed PROVE
        /\ \A i, j \in DOMAIN rows' : rows'[i].by = rows'[j].by
        /\ \A m \in Notice, v \in Buyer : granted[m][v] > 0 =>
             \E i \in DOMAIN rows' : rows'[i].key = Key(m) /\ rows'[i].by = v
        /\ \A d \in StoreCall : pcall'[d].pc \in Saving \cup {"IsProcessed"} =>
             \A i \in DOMAIN rows' : rows'[i].by = pcall'[d].by
    BY <1>4, <1>7 DEF OneBuyer, Undisturbed
  <2>1. /\ \A i, j \in DOMAIN rows : rows[i].by = rows[j].by
        /\ \A m \in Notice, v \in Buyer : granted[m][v] > 0 =>
             \E i \in DOMAIN rows : rows[i].key = Key(m) /\ rows[i].by = v
        /\ \A d \in StoreCall : pcall[d].pc \in Saving \cup {"IsProcessed"} =>
             \A i \in DOMAIN rows : rows[i].by = pcall[d].by
    BY DEF StoreInv, OneBuyer
  <2>2. ASSUME NEW m \in Notice, NEW v \in Buyer, granted[m][v] > 0
        PROVE \E i \in DOMAIN rows' : rows'[i].key = Key(m) /\ rows'[i].by = v
    <3>1. Cardinality(Times(m)) \in Nat /\ (Cardinality(Times(m)) = 0 <=> Times(m) = {})
          /\ Times(m) # {}
      BY <1>0, <2>2, CountTimes DEF StoreInv
    <3>2. ~ Ungranted(m)
      BY <3>1 DEF StoreInv, GrantedOnce, Undisturbed
    <3>3. Key(m) # k
      BY <1>8, <3>2
    <3> QED BY <1>3, <2>1, <2>2, <3>3
  <2>3. \A i, j \in DOMAIN rows' : rows'[i].by = rows'[j].by
    BY <1>3, <2>1
  <2>4. ASSUME NEW d \in StoreCall, pcall'[d].pc \in Saving \cup {"IsProcessed"},
               NEW i \in DOMAIN rows'
        PROVE rows'[i].by = pcall'[d].by
    <3>1. d # c
      BY <1>2, <2>4 DEF Quiet, Saving
    <3> QED BY <1>2, <1>3, <2>1, <2>4, <3>1
  <2> QED BY <2>2, <2>3, <2>4
<1> QED BY <1>5, <1>6, <1>9, <1>10 DEF StoreInv

LEMMA DeleteRowStep == ASSUME StoreInv, NEW c \in StoreCall, DeleteRow(c) PROVE StoreInv'
<1> DEFINE n == pcall[c].n
<1>0. StoreTypeOK /\ RowsDiffer
  BY DEF StoreInv
<1>1. pcall[c].pc = "Delete" /\ Running(c) /\ n \in Notice
  BY <1>0, Keys DEF DeleteRow, At, Running
<1>2. /\ pcall'[c] = [pc |-> "Expire", by |-> pcall[c].by, n |-> n] /\ pcall' \in CallType
      /\ \A d \in StoreCall \ {c} : pcall'[d] = pcall[d]
  BY <1>0, <1>1, Going DEF DeleteRow, PCs
<1>3. store = "apple" /\ (\A m \in Notice : Key(m) = m) /\ KeyOf(c) = n
  BY <1>1 DEF StoreInv, OnlyAppleDeletes, At, Key, KeyOf
<1>4. /\ UNCHANGED <<store, product, hasAccount, issued, refunded, held, granted,
                     spoiled, cut, tangled, answered>>
      /\ revoked' = [revoked EXCEPT ![n] = @ + 1] /\ rows' = DeleteByTransactionID(n)
  BY DEF DeleteRow
<1>5. rows' \in Seq([key : Notice, by : Buyer])
  BY <1>0, <1>4, Deleting
<1>6. /\ revoked \in [Notice -> Nat] /\ revoked' \in [Notice -> Nat] /\ revoked'[n] = revoked[n] + 1
      /\ \A m \in Notice \ {n} : revoked'[m] = revoked[m]
  BY <1>0, <1>1, <1>4 DEF StoreTypeOK
<1>7. StoreTypeOK'
  BY <1>0, <1>2, <1>4, <1>5, <1>6 DEF StoreTypeOK, CallType, PCs
<1>8. /\ RowsDiffer' /\ OnlyAppleDeletes' /\ RunsAlone' /\ GrantsBounded' /\ RowIsSaved'
      /\ RowMeansGrant' /\ AnsweredIsGranted'
      /\ \A m \in Notice : Key(m) # n /\ Ungranted(m)' => Ungranted(m)
  <2>1. pcall'[c].pc = "Expire" /\ pcall'[c].n = pcall[c].n
    BY <1>2
  <2> QED BY <1>1, <1>2, <1>3, <1>4, <1>7, <2>1, DeletingKeeps
<1>9. \A m \in Notice : Times(m)' = Times(m) /\ Key(m)' = Key(m)
  BY <1>4, SameTimes DEF Key
<1>10. \A m \in Notice : Cardinality(Times(m)) \in Nat
  BY <1>0, CountTimes DEF StoreInv
<1>11. GrantedOnce'
  <2> SUFFICES ASSUME NEW m \in Notice, Key(m) \notin tangled, m \notin spoiled
               PROVE /\ Cardinality(Times(m)) <= 1 + revoked'[m]
                     /\ Ungranted(m)' => Cardinality(Times(m)) <= revoked'[m]
    BY <1>4, <1>9 DEF GrantedOnce
  <2>1. /\ Cardinality(Times(m)) <= 1 + revoked[m]
        /\ Ungranted(m) => Cardinality(Times(m)) <= revoked[m]
    BY DEF StoreInv, GrantedOnce
  <2>2. CASE m = n
    BY <1>6, <1>10, <2>1, <2>2
  <2>3. CASE m # n
    BY <1>3, <1>6, <1>8, <2>1, <2>3
  <2> QED BY <2>2, <2>3
<1>12. OneBuyer'
  <2>1. revoked'[n] # 0
    BY <1>1, <1>6
  <2> QED BY <1>1, <2>1 DEF OneBuyer, Undisturbed
<1> QED BY <1>7, <1>8, <1>11, <1>12 DEF StoreInv

\* One more grant of the transaction to the buyer.
LEMMA Granting ==
  ASSUME StoreInv, NEW n \in Notice, NEW u \in Buyer, Grants(n, u)
  PROVE /\ granted' \in [Notice -> [Buyer -> Nat]] /\ held' \in [Buyer -> Nat]
        /\ \A m \in Notice \ {n} : granted'[m] = granted[m] /\ Times(m)' = Times(m)
        /\ \A v \in Buyer : granted'[n][v] > 0 => v = u \/ granted[n][v] > 0
        /\ Times(n)' # {} /\ GrantsBounded'
        /\ Cardinality(Times(n)') = Cardinality(Times(n)) + 1
<1>0. StoreTypeOK /\ GrantsBounded
  BY DEF StoreInv
<1>1. /\ granted \in [Notice -> [Buyer -> Nat]] /\ held \in [Buyer -> Nat]
      /\ granted[n][u] < MaxGrant /\ granted[n][u] \in Nat /\ MaxGrant \in Nat
      /\ granted' = [granted EXCEPT ![n][u] = @ + 1] /\ held' = [held EXCEPT ![u] = @ + 1]
  BY <1>0, StoreAssumption DEF Grants, StoreTypeOK
<1>2. /\ granted' \in [Notice -> [Buyer -> Nat]] /\ held' \in [Buyer -> Nat]
      /\ \A m \in Notice \ {n} : granted'[m] = granted[m]
      /\ granted'[n][u] = granted[n][u] + 1
      /\ \A v \in Buyer \ {u} : granted'[n][v] = granted[n][v]
  BY <1>1
<1>3. \A m \in Notice \ {n} : Times(m)' = Times(m)
  BY <1>2 DEF Times
<1> DEFINE t == <<u, granted[n][u] + 1>>
<1>4. Times(n)' = Times(n) \cup {t}
  <2>1. ASSUME NEW x \in Buyer \X (1 .. MaxGrant)
        PROVE x[2] <= granted'[n][x[1]] <=> x[2] <= granted[n][x[1]] \/ x = t
    <3>0. x = <<x[1], x[2]>> /\ x[2] \in Int
      BY <1>1
    <3>1. CASE x[1] = u
      <4>1. x = t <=> x[2] = granted[n][u] + 1
        BY <3>0, <3>1
      <4>2. granted'[n][x[1]] = granted[n][u] + 1 /\ granted[n][x[1]] = granted[n][u]
        BY <1>2, <3>1
      <4> HIDE DEF t
      <4>3. \A a, b \in Int : (b <= a + 1) <=> (b <= a \/ b = a + 1)
        OBVIOUS
      <4>4. granted[n][u] \in Int
        BY <1>1
      <4> QED BY <3>0, <4>1, <4>2, <4>3, <4>4
    <3>2. CASE x[1] # u
      <4>1. x[1] \in Buyer /\ x # t
        BY <3>2
      <4> QED BY <1>2, <3>2, <4>1
    <3> QED BY <3>1, <3>2
  <2>2. t \in Buyer \X (1 .. MaxGrant)
    BY <1>1
  <2> QED BY <2>1, <2>2 DEF Times
<1>5. t \notin Times(n)
  BY <1>1 DEF Times
<1>6. IsFiniteSet(Times(n)) /\ Cardinality(Times(n)) \in Nat
  BY <1>0, CountTimes DEF GrantsBounded
<1>7. IsFiniteSet(Times(n)') /\ Cardinality(Times(n)') = Cardinality(Times(n)) + 1
  <2> HIDE DEF t
  <2> QED BY <1>4, <1>5, <1>6, FS_AddElement
<1>8. ASSUME NEW m \in Notice, NEW v \in Buyer PROVE granted'[m][v] <= MaxGrant
  <2>1. granted[m][v] <= MaxGrant
    BY <1>0 DEF GrantsBounded
  <2> QED BY <1>1, <1>2, <2>1
<1>9. GrantsBounded'
  BY <1>0, <1>3, <1>7, <1>8 DEF GrantsBounded
<1> QED BY <1>2, <1>3, <1>4, <1>7, <1>9

\* A grant that succeeds ends the call, and one that fails, or comes before a
\* failure, leaves it to undo the row.
LEMMA ApplyStep == ASSUME StoreInv, NEW c \in StoreCall, Apply(c) PROVE StoreInv'
<1>0. StoreTypeOK
  BY DEF StoreInv
<1>20. PICK n \in Notice, u \in Buyer, k \in Notice :
         pcall[c].n = n /\ pcall[c].by = u /\ KeyOf(c) = k
  BY <1>0, Keys DEF Apply, At, Running
<1>1. /\ pcall[c].pc = "Apply" /\ Running(c) /\ pcall[c].n = n /\ pcall[c].by = u
      /\ KeyOf(c) = k /\ k = Key(n)
  BY <1>20 DEF Apply, At, Running, KeyOf
<1>2. UNCHANGED <<store, product, issued, refunded, rows, revoked, cut, tangled>>
  BY DEF Apply
<1>3. \/ Grants(n, u) /\ Ends(c) /\ answered' = answered \cup {n} /\ UNCHANGED <<hasAccount, spoiled>>
      \/ /\ hasAccount' = TRUE /\ Grants(n, u) /\ Goes(c, "Undo") /\ spoiled' = spoiled \cup {n}
         /\ UNCHANGED answered
      \/ Goes(c, "Undo") /\ UNCHANGED <<hasAccount, held, granted, spoiled, answered>>
  BY <1>1 DEF Apply
<1>4. /\ pcall' \in CallType /\ \A d \in StoreCall \ {c} : pcall'[d] = pcall[d]
      /\ \/ pcall'[c] = Quiet /\ Grants(n, u) /\ answered' = answered \cup {n} /\ spoiled' = spoiled
         \/ /\ pcall'[c] = [pc |-> "Undo", by |-> u, n |-> n] /\ answered' = answered
            /\ \/ Grants(n, u) /\ spoiled' = spoiled \cup {n}
               \/ granted' = granted /\ held' = held /\ spoiled' = spoiled
      /\ hasAccount' \in BOOLEAN
  <2>0. hasAccount \in BOOLEAN /\ "Undo" \in PCs
    BY <1>0 DEF StoreTypeOK, PCs
  <2>1. CASE Grants(n, u) /\ Ends(c) /\ answered' = answered \cup {n} /\ UNCHANGED <<hasAccount, spoiled>>
    BY <1>0, <2>0, <2>1, Ending
  <2>2. CASE /\ hasAccount' = TRUE /\ Grants(n, u) /\ Goes(c, "Undo") /\ spoiled' = spoiled \cup {n}
             /\ UNCHANGED answered
    BY <1>0, <1>1, <2>0, <2>2, Going
  <2>3. CASE Goes(c, "Undo") /\ UNCHANGED <<hasAccount, held, granted, spoiled, answered>>
    BY <1>0, <1>1, <2>0, <2>3, Going
  <2> QED BY <1>3, <2>1, <2>2, <2>3
<1>5. /\ granted' \in [Notice -> [Buyer -> Nat]] /\ held' \in [Buyer -> Nat] /\ GrantsBounded'
      /\ \A m \in Notice \ {n} : granted'[m] = granted[m] /\ Times(m)' = Times(m)
      /\ \A v \in Buyer : granted'[n][v] > 0 => v = u \/ granted[n][v] > 0
      /\ Times(n) # {} => Times(n)' # {}
  <2>1. CASE Grants(n, u)
    BY <1>1, <2>1, Granting
  <2>2. CASE granted' = granted /\ held' = held
    <3>1. \A m \in Notice : Times(m)' = Times(m)
      BY <2>2, SameTimes
    <3> QED BY <1>0, <1>1, <2>2, <3>1 DEF StoreInv, GrantsBounded, StoreTypeOK
  <2> QED BY <1>4, <2>1, <2>2
<1>6. Grants(n, u) => Times(n)' # {} /\ Cardinality(Times(n)') = Cardinality(Times(n)) + 1
  BY <1>1, Granting
<1>7. spoiled \subseteq spoiled' /\ spoiled' \subseteq Notice /\ answered' \subseteq Notice
  BY <1>0, <1>1, <1>4 DEF StoreTypeOK
<1>8. StoreTypeOK'
  BY <1>0, <1>2, <1>4, <1>5, <1>7 DEF StoreTypeOK, CallType, PCs
<1>9. /\ \A m \in Notice : Key(m)' = Key(m)
      /\ \A x : IsProcessed(x)' = IsProcessed(x)
      /\ \A d \in StoreCall : Running(d)' =>
           Running(d) /\ pcall'[d].n = pcall[d].n /\ pcall'[d].by = pcall[d].by /\ KeyOf(d)' = KeyOf(d)
      /\ \A d \in StoreCall : pcall'[d].pc \in {"Save", "Apply", "IsProcessed"} => d # c
  BY <1>1, <1>2, <1>4 DEF Key, IsProcessed, Running, KeyOf, Quiet
<1>10. RowsDiffer' /\ OnlyAppleDeletes'
  BY <1>2, <1>4 DEF StoreInv, RowsDiffer, OnlyAppleDeletes, At, Quiet
<1>11. RunsAlone'
  BY <1>2, <1>9, RunningOn
<1>12. \A d \in StoreCall : pcall'[d].pc \in Saved =>
         pcall[d].pc \in Saved /\ KeyOf(d)' = KeyOf(d)
  BY <1>1, <1>4, <1>9 DEF Saved, Running, Quiet
<1>13. RowIsSaved'
  BY <1>2, <1>9, <1>12 DEF StoreInv, RowIsSaved
<1>14. Ungranted(n) /\ \A m \in Notice : Ungranted(m)' => Ungranted(m)
  <2>1. Ungranted(n)
    BY <1>1 DEF Ungranted, Saving
  <2>2. ASSUME NEW m \in Notice, Ungranted(m)' PROVE Ungranted(m)
    <3>1. CASE ~ IsProcessed(Key(m))'
      <4>1. ~ IsProcessed(Key(m))
        BY <1>9, <3>1
      <4> QED BY <4>1 DEF Ungranted
    <3>2. ASSUME NEW d \in StoreCall, pcall'[d].pc \in Saving, KeyOf(d)' = Key(m)'
          PROVE Ungranted(m)
      <4>1. pcall[d].pc \in Saving /\ KeyOf(d) = Key(m)
        BY <1>1, <1>4, <1>9, <3>2 DEF Saving, Running, Quiet
      <4> QED BY <4>1 DEF Ungranted
    <3>3. ~ IsProcessed(Key(m))' \/ \E d \in StoreCall : pcall'[d].pc \in Saving /\ KeyOf(d)' = Key(m)'
      BY <2>2 DEF Ungranted
    <3> QED BY <3>1, <3>2, <3>3
  <2> QED BY <2>1, <2>2
<1>15. ASSUME Key(n) \notin tangled, pcall'[c] = Quiet PROVE ~ Ungranted(n)'
  <2>1. IsProcessed(Key(n))
    BY <1>1, <1>15 DEF StoreInv, RowIsSaved, Saved
  <2>2. \A d \in StoreCall : Running(d) => d = c
    BY <1>1, <1>15 DEF StoreInv, RunsAlone
  <2>3. \A d \in StoreCall : ~ Running(d)'
    BY <1>9, <1>15, <2>2 DEF Running, Quiet
  <2>4. \A d \in StoreCall : pcall'[d].pc \notin Saving
    BY <2>3 DEF Running, Saving
  <2>5. IsProcessed(Key(n))'
    BY <1>9, <2>1
  <2> QED BY <2>4, <2>5 DEF Ungranted
<1>16. GrantedOnce'
  <2> SUFFICES ASSUME NEW m \in Notice, Key(m) \notin tangled, m \notin spoiled'
               PROVE /\ Cardinality(Times(m)') <= 1 + revoked[m]
                     /\ Ungranted(m)' => Cardinality(Times(m)') <= revoked[m]
    BY <1>2, <1>9 DEF GrantedOnce
  <2>1. /\ Cardinality(Times(m)) <= 1 + revoked[m]
        /\ Ungranted(m) => Cardinality(Times(m)) <= revoked[m]
    BY <1>7 DEF StoreInv, GrantedOnce
  <2>2. Cardinality(Times(m)) \in Nat /\ revoked[m] \in Nat
    BY <1>0, CountTimes DEF StoreInv, StoreTypeOK
  <2>3. CASE Times(m)' = Times(m)
    BY <1>14, <2>1, <2>3
  <2>4. CASE m = n /\ Grants(n, u) /\ pcall'[c] = Quiet
    <3>1. ~ Ungranted(n)' /\ Cardinality(Times(n)) <= revoked[n]
      BY <1>14, <1>15, <2>1, <2>4
    <3> QED BY <1>6, <2>2, <2>4, <3>1
  <2>5. granted' = granted => Times(m)' = Times(m)
    BY SameTimes
  <2>6. m # n => Times(m)' = Times(m)
    BY <1>5
  <2> QED BY <1>4, <2>3, <2>4, <2>5, <2>6
<1>17. OneBuyer'
  <2> SUFFICES ASSUME Undisturbed' PROVE
        /\ \A i, j \in DOMAIN rows : rows[i].by = rows[j].by
        /\ \A m \in Notice, v \in Buyer : granted'[m][v] > 0 =>
             \E i \in DOMAIN rows : rows[i].key = Key(m) /\ rows[i].by = v
        /\ \A d \in StoreCall : pcall'[d].pc \in Saving \cup {"IsProcessed"} =>
             \A i \in DOMAIN rows : rows[i].by = pcall'[d].by
    BY <1>2, <1>9 DEF OneBuyer
  <2>1. Undisturbed
    BY <1>2, <1>7 DEF Undisturbed
  <2>2. /\ \A i, j \in DOMAIN rows : rows[i].by = rows[j].by
        /\ \A m \in Notice, v \in Buyer : granted[m][v] > 0 =>
             \E i \in DOMAIN rows : rows[i].key = Key(m) /\ rows[i].by = v
        /\ \A d \in StoreCall : pcall[d].pc \in Saving \cup {"IsProcessed"} =>
             \A i \in DOMAIN rows : rows[i].by = pcall[d].by
    BY <2>1 DEF StoreInv, OneBuyer
  <2>3. PICK i \in DOMAIN rows : rows[i].key = k
    BY <1>1, <2>1 DEF StoreInv, RowIsSaved, Saved, Undisturbed, IsProcessed
  <2>4. rows[i].by = u /\ rows[i].key = Key(n)
    BY <1>1, <2>2, <2>3 DEF Saving
  <2>5. ASSUME NEW m \in Notice, NEW v \in Buyer, granted'[m][v] > 0
        PROVE \E j \in DOMAIN rows : rows[j].key = Key(m) /\ rows[j].by = v
    BY <1>5, <2>2, <2>4, <2>5
  <2>6. ASSUME NEW d \in StoreCall, pcall'[d].pc \in Saving \cup {"IsProcessed"}
        PROVE pcall[d].pc \in Saving \cup {"IsProcessed"} /\ pcall'[d].by = pcall[d].by
    BY <1>1, <1>4, <1>9, <2>6 DEF Saving, Running, Quiet
  <2> QED BY <2>2, <2>5, <2>6
<1>18. RowMeansGrant'
  <2> SUFFICES ASSUME NEW i \in DOMAIN rows
      PROVE \/ rows[i].key \in cut \cup tangled
            \/ \E d \in StoreCall : pcall'[d].pc \in Saved /\ KeyOf(d)' = rows[i].key
            \/ \E m \in Notice : Key(m) = rows[i].key /\ Times(m)' # {}
    BY <1>2, <1>9 DEF RowMeansGrant
  <2>1. \/ rows[i].key \in cut \cup tangled
        \/ \E d \in StoreCall : pcall[d].pc \in Saved /\ KeyOf(d) = rows[i].key
        \/ \E m \in Notice : Key(m) = rows[i].key /\ Times(m) # {}
    BY DEF StoreInv, RowMeansGrant
  <2>2. CASE \E m \in Notice : Key(m) = rows[i].key /\ Times(m) # {}
    BY <1>5, <2>2
  <2>3. ASSUME NEW d \in StoreCall, pcall[d].pc \in Saved, KeyOf(d) = rows[i].key
        PROVE \/ pcall'[d].pc \in Saved /\ KeyOf(d)' = rows[i].key
              \/ Key(n) = rows[i].key /\ Times(n)' # {}
    <3>1. CASE d = c /\ pcall'[c] = Quiet
      BY <1>1, <1>4, <1>6, <2>3, <3>1 DEF Quiet
    <3>2. CASE d = c /\ pcall'[c].pc = "Undo"
      BY <1>9, <2>3, <3>2 DEF Saved, Running
    <3>3. CASE d # c
      BY <1>4, <1>9, <2>3, <3>3 DEF Saved, Running
    <3> QED BY <1>4, <3>1, <3>2, <3>3
  <2> QED BY <1>1, <2>1, <2>2, <2>3
<1>19. AnsweredIsGranted'
  <2>1. \A m \in Notice : Times(m) # {} => Times(m)' # {}
    BY <1>5
  <2>2. \A m \in answered' \ answered : Times(m)' # {}
    BY <1>4, <1>6 DEF Quiet
  <2> QED BY <1>2, <1>7, <2>1, <2>2, AnswersStand
<1> QED BY <1>5, <1>8, <1>10, <1>11, <1>13, <1>16, <1>17, <1>18, <1>19 DEF StoreInv
-----------------------------------------------------------------------------
LEMMA InitStore == StoreInit => StoreInv
<1> SUFFICES ASSUME StoreInit PROVE StoreInv
  OBVIOUS
<1>1. StoreTypeOK
  <2>1. rows \in Seq([key : Notice, by : Buyer])
    BY EmptySeq DEF StoreInit
  <2> QED BY <2>1, StoreAssumption DEF StoreInit, StoreTypeOK, Notice
<1>2. /\ \A n \in Notice : Times(n) = {} /\ \A u \in Buyer : granted[n][u] = 0
      /\ \A n \in Notice : revoked[n] = 0
  BY StoreAssumption DEF StoreInit, Times
<1>3. DOMAIN rows = {} /\ \A c \in StoreCall : pcall[c].pc = "quiet"
  BY DEF StoreInit, Quiet
<1>4. IsFiniteSet({}) /\ Cardinality({}) = 0
  BY FS_EmptySet
<1>5. GrantsBounded /\ GrantedOnce
  <2>1. \A n \in Notice : IsFiniteSet(Times(n)) /\ Cardinality(Times(n)) = 0
    BY <1>2, <1>4
  <2> QED BY <1>2, <2>1, StoreAssumption DEF GrantsBounded, GrantedOnce
<1>6. RowsDiffer /\ OnlyAppleDeletes /\ RunsAlone /\ RowIsSaved /\ RowMeansGrant
  BY <1>3 DEF RowsDiffer, OnlyAppleDeletes, RunsAlone, RowIsSaved, RowMeansGrant, At, Running, Saved
<1>7. OneBuyer
  BY <1>2, <1>3 DEF OneBuyer, Saving
<1>8. AnsweredIsGranted
  BY DEF StoreInit, AnsweredIsGranted
<1> QED BY <1>1, <1>5, <1>6, <1>7, <1>8 DEF StoreInv

LEMMA NextStore == StoreInv /\ [StoreNext]_storeVars => StoreInv'
<1> SUFFICES ASSUME StoreInv, [StoreNext]_storeVars PROVE StoreInv'
  OBVIOUS
<1>1. ASSUME NEW c \in StoreCall, NEW n \in Notice,
         \/ \E u \in Buyer : VerifyIOSPurchase(c, u, n) \/ VerifyAndroidPurchase(c, u, n)
         \/ AppleNotificationsV2(c, n) \/ GoogleNotifications(c, n)
      PROVE StoreInv'
  BY <1>1, RequestStep
<1>2. ASSUME NEW c \in StoreCall,
             \/ CheckOwner(c) \/ CheckProcessed(c) \/ SaveRow(c) \/ Apply(c) \/ Undo(c)
             \/ DeleteRow(c) \/ ForceExpireSubscription(c) \/ Dies(c)
      PROVE StoreInv'
  BY <1>2, CheckOwnerStep, CheckProcessedStep, SaveRowStep, ApplyStep, UndoStep, DeleteRowStep,
     ForceExpireStep, DiesStep
<1>3. CASE Renew \/ (\E n \in Txn : Refund(n)) \/ UNCHANGED storeVars
  BY <1>3, OutsideStep
<1> QED BY <1>1, <1>2, <1>3 DEF StoreNext

\* What a purchase's rows, grants and calls in flight are to each other.
THEOREM StoreInvariance == StoreSpec => []StoreInv
BY InitStore, NextStore, PTL DEF StoreSpec

THEOREM StoreTypeCorrect == StoreSpec => []StoreTypeOK
<1>1. StoreInv => StoreTypeOK
  BY DEF StoreInv
<1> QED BY <1>1, StoreInvariance, PTL

LEMMA OnceFollows == StoreInv => TakesEffectOnce
<1> SUFFICES ASSUME StoreInv PROVE TakesEffectOnce
  OBVIOUS
<1>1. \A n \in Notice : Key(n) \notin tangled /\ n \notin spoiled =>
        Cardinality(Times(n)) <= 1 + revoked[n]
  BY DEF StoreInv, GrantedOnce
<1>2. ASSUME Undisturbed PROVE IsFiniteSet(Grantees) /\ Cardinality(Grantees) <= 1
  <2>1. \A u, v \in Grantees : u = v
    BY <1>2 DEF StoreInv, OneBuyer, Grantees
  <2>2. CASE Grantees = {}
    BY <2>2, FS_EmptySet
  <2>3. ASSUME NEW u \in Grantees PROVE IsFiniteSet(Grantees) /\ Cardinality(Grantees) <= 1
    <3>1. Grantees = {u}
      BY <2>1
    <3> QED BY <3>1, FS_Singleton
  <2> QED BY <2>2, <2>3
<1> QED BY <1>1, <1>2 DEF TakesEffectOnce, Undisturbed

\* A transaction is granted once, and once more for each revocation, and so is each
\* notice with renewal info only, which Apple's handler gives an id of its own; one
\* buyer gets the purchase and its renewals: TakesEffectOnce, for any number of
\* buyers, calls, renewals and notices.
THEOREM PurchaseTakesEffectOnce == StoreSpec => []TakesEffectOnce
BY OnceFollows, StoreInvariance, PTL

\* Whoever is told "ok" has been granted something, with the exceptions that
\* AnsweredIsGranted names.
THEOREM AnswerMeansGrant == StoreSpec => []AnsweredIsGranted
<1>1. StoreInv => AnsweredIsGranted
  BY DEF StoreInv
<1> QED BY <1>1, StoreInvariance, PTL
=============================================================================
