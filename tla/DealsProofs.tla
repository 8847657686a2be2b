----------------------------- MODULE DealsProofs -----------------------------
(***************************************************************************)
(* Theorems about Deals for any parties, any finite set of calls and any   *)
(* number of responses bought.  The inductive invariant follows, for each  *)
(* party whose calls did not overlap, the one call in flight: at every     *)
(* statement it says what was charged so far, which rows stand and which   *)
(* of them still lack their order.                                         *)
(***************************************************************************)
EXTENDS Deals, TLAPS, FiniteSetTheorems

(* The scripts, by what is left of them.                                   *)
Messaging == <<"message">>
Confirming == <<"confirm", "message">>
Chatting == <<"chat", "confirm", "message">>
Loading == <<"load", "chat", "confirm", "message">>
Consuming == <<"consume", "load", "chat", "confirm", "message">>
Inserting == <<"insert", "consume", "load", "chat", "confirm", "message">>
Restoring == <<"restore", "delete">>
Deleting == <<"delete">>
Removing == <<"remove", "unconfirm", "refund">>
Unconfirming == <<"unconfirm", "refund">>
Refunding == <<"refund">>

ResponderScripts ==
  {CheckedOpening, Opening, Inserting, Consuming, Loading, Chatting, Confirming,
   Messaging, Restoring, Deleting, Removing, Unconfirming, Refunding}

EarlyIds == <<"status", "ids", "cancel", "refundAll">>
EarlyIds2 == <<"ids", "cancel", "refundAll">>
EarlyIds3 == <<"cancel", "refundAll">>
LateIds == <<"status", "cancel", "ids", "refundAll">>
LateIds2 == <<"cancel", "ids", "refundAll">>
LateIds3 == <<"ids", "refundAll">>
OnlyCancel == <<"cancel">>
Paying == <<"refundAll">>

OwnerScripts ==
  {EarlyIds, EarlyIds2, EarlyIds3, LateIds, LateIds2, LateIds3, OnlyCancel, Paying}

Stage(c) == IF Busy(c) THEN Head(call[c].todo) ELSE "idle"
By(c, p) == Busy(c) /\ call[c].by = p
-----------------------------------------------------------------------------
(* The invariant.                                                          *)

CallType ==
  [todo : {<<>>} \cup ResponderScripts \cup OwnerScripts, by : Party \cup {"nobody"},
   row : 0 .. MaxOrder, ids : SUBSET Party,
   seen : {"none", "active", "archive", "in_progress", "done"}]

TypesOK ==
  /\ DealTypeOK
  /\ call \in [Call -> CallType]
  /\ \A c \in Call :
       /\ call[c].todo \in ResponderScripts => call[c].by \in Party
       /\ call[c].todo \in OwnerScripts => call[c].by = "nobody"

\* A row was inserted, its order was not yet.
Unopened == {"consume", "load", "chat", "confirm"}

RowsOK ==
  /\ \A o \in orders : o.row < nextRow
  /\ \A m, n \in orders : m.row = n.row => m = n
  /\ \A c \in Call : Stage(c) \in Unopened =>
       /\ call[c].row > 0 /\ call[c].row < nextRow
       /\ \A o \in orders : o.row # call[c].row
  /\ \A c, d \in Call :
       Stage(c) \in Unopened /\ Stage(d) \in Unopened /\ call[c].row = call[d].row => c = d

\* Owners' calls past the cancellation that may yet refund p.
Due(p) ==
  {c \in Call : call[c].todo = LateIds3 \/ (call[c].todo = Paying /\ p \in call[c].ids)}

Room(p) == Bought + called - Cardinality(Due(p)) - left[p]

\* A row of p's has its order, or lost it with its chat or to the owner.
Open(r, p) == r \in orphaned \/ \E o \in orders : o.row = r /\ o.by = p

\* What may be said of p while its call is at a statement st and has a row.
FitAt(p, st, row) ==
  /\ Room(p) >= 0
  /\ st \in {"load", "chat", "confirm", "message", "restore", "remove", "unconfirm",
             "refund"} => Room(p) >= 1
  /\ Of(standing, p) # {} /\ st \in {"idle", "balance", "count"} => Room(p) >= 1
  /\ \A x, y \in Of(standing, p) : x = y
  /\ st \in {"insert", "unconfirm", "refund"} => Of(standing, p) = {}
  /\ st \in {"consume", "load", "chat", "confirm", "message", "restore", "delete",
             "remove"} => \A x \in Of(standing, p) : x.row = row
  /\ called = 0 /\ st \notin Unopened \cup {"restore", "delete"} =>
       \A x \in Of(standing, p) : Open(x.row, p)

PartyOK(p) ==
  /\ \A c, d \in Call : By(c, p) /\ By(d, p) => c = d
  /\ \A c \in Call : By(c, p) => FitAt(p, Stage(c), call[c].row)
  /\ (\A c \in Call : ~ By(c, p)) => FitAt(p, "idle", 0)

IndInv == TypesOK /\ RowsOK /\ \A p \in Party \ muddled : PartyOK(p)
-----------------------------------------------------------------------------
LEMMA ResponderTails ==
  /\ CheckedOpening # <<>> /\ Head(CheckedOpening) = "balance" /\ Tail(CheckedOpening) = Opening
  /\ Opening # <<>> /\ Head(Opening) = "count" /\ Tail(Opening) = Inserting
  /\ Inserting # <<>> /\ Head(Inserting) = "insert" /\ Tail(Inserting) = Consuming
  /\ Consuming # <<>> /\ Head(Consuming) = "consume" /\ Tail(Consuming) = Loading
  /\ Loading # <<>> /\ Head(Loading) = "load" /\ Tail(Loading) = Chatting
  /\ Chatting # <<>> /\ Head(Chatting) = "chat" /\ Tail(Chatting) = Confirming
  /\ Confirming # <<>> /\ Head(Confirming) = "confirm" /\ Tail(Confirming) = Messaging
  /\ Messaging # <<>> /\ Head(Messaging) = "message" /\ Tail(Messaging) = <<>>
  /\ Restoring # <<>> /\ Head(Restoring) = "restore" /\ Tail(Restoring) = Deleting
  /\ Deleting # <<>> /\ Head(Deleting) = "delete" /\ Tail(Deleting) = <<>>
  /\ Removing # <<>> /\ Head(Removing) = "remove" /\ Tail(Removing) = Unconfirming
  /\ Unconfirming # <<>> /\ Head(Unconfirming) = "unconfirm" /\ Tail(Unconfirming) = Refunding
  /\ Refunding # <<>> /\ Head(Refunding) = "refund" /\ Tail(Refunding) = <<>>
BY DEF CheckedOpening, Opening, Inserting, Consuming, Loading, Chatting, Confirming,
   Messaging, Restoring, Deleting, Removing, Unconfirming, Refunding

LEMMA OwnerTails ==
  /\ EarlyIds # <<>> /\ Head(EarlyIds) = "status" /\ Tail(EarlyIds) = EarlyIds2
  /\ EarlyIds2 # <<>> /\ Head(EarlyIds2) = "ids" /\ Tail(EarlyIds2) = EarlyIds3
  /\ EarlyIds3 # <<>> /\ Head(EarlyIds3) = "cancel" /\ Tail(EarlyIds3) = Paying
  /\ LateIds # <<>> /\ Head(LateIds) = "status" /\ Tail(LateIds) = LateIds2
  /\ LateIds2 # <<>> /\ Head(LateIds2) = "cancel" /\ Tail(LateIds2) = LateIds3
  /\ LateIds3 # <<>> /\ Head(LateIds3) = "ids" /\ Tail(LateIds3) = Paying
  /\ OnlyCancel # <<>> /\ Head(OnlyCancel) = "cancel" /\ Tail(OnlyCancel) = <<>>
  /\ Paying # <<>> /\ Head(Paying) = "refundAll" /\ Tail(Paying) = <<>>
BY DEF EarlyIds, EarlyIds2, EarlyIds3, LateIds, LateIds2, LateIds3, OnlyCancel, Paying
-----------------------------------------------------------------------------
(* Scripts and their heads.                                                *)

Scripts == {<<>>} \cup ResponderScripts \cup OwnerScripts

\* The first statement that is left of a script.
First(s) == IF s # <<>> THEN Head(s) ELSE "idle"

LEMMA NextStatements ==
  /\ First(CheckedOpening) = "balance" /\ First(Opening) = "count"
  /\ First(Inserting) = "insert" /\ First(Consuming) = "consume"
  /\ First(Loading) = "load" /\ First(Chatting) = "chat"
  /\ First(Confirming) = "confirm" /\ First(Messaging) = "message"
  /\ First(Restoring) = "restore" /\ First(Deleting) = "delete"
  /\ First(Removing) = "remove" /\ First(Unconfirming) = "unconfirm"
  /\ First(Refunding) = "refund" /\ First(<<>>) = "idle"
BY ResponderTails DEF First

LEMMA OwnerStatements ==
  /\ First(EarlyIds) = "status" /\ First(EarlyIds2) = "ids"
  /\ First(EarlyIds3) = "cancel" /\ First(LateIds) = "status"
  /\ First(LateIds2) = "cancel" /\ First(LateIds3) = "ids"
  /\ First(OnlyCancel) = "cancel" /\ First(Paying) = "refundAll"
BY OwnerTails DEF First

\* What a responder's script begins with, and what is left of it after.
LEMMA ResponderHeads ==
  ASSUME NEW s \in ResponderScripts
  PROVE  /\ s # <<>> /\ Head(s) = First(s) /\ Tail(s) \in {<<>>} \cup ResponderScripts
         /\ First(s) \in {"balance", "count", "insert", "consume", "load", "chat",
                          "confirm", "message", "restore", "delete", "remove",
                          "unconfirm", "refund"}
         /\ First(s) = "balance" => First(Tail(s)) = "count"
         /\ First(s) = "count" => First(Tail(s)) = "insert"
         /\ First(s) = "insert" => First(Tail(s)) = "consume"
         /\ First(s) = "consume" => First(Tail(s)) = "load"
         /\ First(s) = "load" => First(Tail(s)) = "chat"
         /\ First(s) = "chat" => First(Tail(s)) = "confirm"
         /\ First(s) = "confirm" => First(Tail(s)) = "message"
         /\ First(s) = "restore" => First(Tail(s)) = "delete"
         /\ First(s) = "delete" => First(Tail(s)) = "idle"
         /\ First(s) = "remove" => First(Tail(s)) = "unconfirm"
         /\ First(s) = "unconfirm" => First(Tail(s)) = "refund"
         /\ First(s) = "refund" => First(Tail(s)) = "idle"
<1>1. /\ s # <<>> /\ Head(s) = First(s)
  BY ResponderTails DEF ResponderScripts, First
<1>2. Tail(s) \in {<<>>} \cup ResponderScripts
  BY ResponderTails DEF ResponderScripts
<1>3. CASE s = CheckedOpening
  <2>1. First(s) = "balance" /\ First(Tail(s)) = "count"
    BY <1>3, ResponderTails, NextStatements
  <2> QED BY <1>1, <1>2, <2>1
<1>4. CASE s = Opening
  <2>1. First(s) = "count" /\ First(Tail(s)) = "insert"
    BY <1>4, ResponderTails, NextStatements
  <2> QED BY <1>1, <1>2, <2>1
<1>5. CASE s = Inserting
  <2>1. First(s) = "insert" /\ First(Tail(s)) = "consume"
    BY <1>5, ResponderTails, NextStatements
  <2> QED BY <1>1, <1>2, <2>1
<1>6. CASE s = Consuming
  <2>1. First(s) = "consume" /\ First(Tail(s)) = "load"
    BY <1>6, ResponderTails, NextStatements
  <2> QED BY <1>1, <1>2, <2>1
<1>7. CASE s = Loading
  <2>1. First(s) = "load" /\ First(Tail(s)) = "chat"
    BY <1>7, ResponderTails, NextStatements
  <2> QED BY <1>1, <1>2, <2>1
<1>8. CASE s = Chatting
  <2>1. First(s) = "chat" /\ First(Tail(s)) = "confirm"
    BY <1>8, ResponderTails, NextStatements
  <2> QED BY <1>1, <1>2, <2>1
<1>9. CASE s = Confirming
  <2>1. First(s) = "confirm" /\ First(Tail(s)) = "message"
    BY <1>9, ResponderTails, NextStatements
  <2> QED BY <1>1, <1>2, <2>1
<1>10. CASE s = Messaging
  <2>1. First(s) = "message" /\ First(Tail(s)) = "idle"
    BY <1>10, ResponderTails, NextStatements
  <2> QED BY <1>1, <1>2, <2>1
<1>11. CASE s = Restoring
  <2>1. First(s) = "restore" /\ First(Tail(s)) = "delete"
    BY <1>11, ResponderTails, NextStatements
  <2> QED BY <1>1, <1>2, <2>1
<1>12. CASE s = Deleting
  <2>1. First(s) = "delete" /\ First(Tail(s)) = "idle"
    BY <1>12, ResponderTails, NextStatements
  <2> QED BY <1>1, <1>2, <2>1
<1>13. CASE s = Removing
  <2>1. First(s) = "remove" /\ First(Tail(s)) = "unconfirm"
    BY <1>13, ResponderTails, NextStatements
  <2> QED BY <1>1, <1>2, <2>1
<1>14. CASE s = Unconfirming
  <2>1. First(s) = "unconfirm" /\ First(Tail(s)) = "refund"
    BY <1>14, ResponderTails, NextStatements
  <2> QED BY <1>1, <1>2, <2>1
<1>15. CASE s = Refunding
  <2>1. First(s) = "refund" /\ First(Tail(s)) = "idle"
    BY <1>15, ResponderTails, NextStatements
  <2> QED BY <1>1, <1>2, <2>1
<1> QED BY <1>3, <1>4, <1>5, <1>6, <1>7, <1>8, <1>9, <1>10, <1>11, <1>12, <1>13, <1>14, <1>15 DEF ResponderScripts

LEMMA OwnerHeads ==
  ASSUME NEW s \in OwnerScripts
  PROVE  /\ s # <<>> /\ Head(s) = First(s) /\ Tail(s) \in {<<>>} \cup OwnerScripts
         /\ First(s) \in {"status", "ids", "cancel", "refundAll"}
         /\ First(s) = "refundAll" <=> s = Paying
         /\ First(s) \in {"status", "refundAll"} => Tail(s) # Paying /\ Tail(s) # LateIds3
         /\ First(s) = "ids" => Tail(s) # LateIds3 /\ (Tail(s) = Paying => s = LateIds3)
         /\ s = LateIds3 => First(s) = "ids"
<1>1. /\ s # <<>> /\ Head(s) = First(s)
  BY OwnerTails DEF OwnerScripts, First
<1>2. Tail(s) \in {<<>>} \cup OwnerScripts
  BY OwnerTails DEF OwnerScripts
<1>3. First(<<>>) = "idle"
  BY DEF First
<1>4. CASE s \in {EarlyIds, EarlyIds2, EarlyIds3, OnlyCancel, Paying}
  BY <1>1, <1>2, <1>3, <1>4, OwnerTails, OwnerStatements
<1>5. CASE s \in {LateIds, LateIds2, LateIds3}
  BY <1>1, <1>2, <1>3, <1>5, OwnerTails, OwnerStatements
<1> QED BY <1>4, <1>5 DEF OwnerScripts

LEMMA Sides ==
  /\ \A s \in ResponderScripts : s \notin OwnerScripts /\ s # LateIds3 /\ s # Paying
  /\ <<>> \notin ResponderScripts \cup OwnerScripts
  /\ <<>> # LateIds3 /\ <<>> # Paying
<1>1. LateIds3 \in OwnerScripts /\ Paying \in OwnerScripts
  BY DEF OwnerScripts
<1> QED BY <1>1, ResponderHeads, OwnerHeads
-----------------------------------------------------------------------------
(* What a step leaves as it was.                                           *)

LEMMA CallsFinite ==
  ASSUME NEW S \in SUBSET Call, NEW T \in SUBSET S
  PROVE  /\ IsFiniteSet(S) /\ Cardinality(S) \in Nat /\ Cardinality(T) \in Nat
         /\ Cardinality(T) <= Cardinality(S)
BY DealAssumption, FS_Subset, FS_CardinalityType

LEMMA OneCallMore ==
  ASSUME NEW S \in SUBSET Call, NEW c \in Call
  PROVE  Cardinality(S \cup {c}) <= Cardinality(S) + 1
<1>1. IsFiniteSet(S) /\ Cardinality(S) \in Nat
  BY CallsFinite
<1>2. Cardinality(S \cup {c}) = IF c \in S THEN Cardinality(S) ELSE Cardinality(S) + 1
  BY <1>1, FS_AddElement, Zenon
<1> QED BY <1>1, <1>2

LEMMA RoomIsInt == TypesOK => \A p \in Party : Room(p) \in Int
<1> SUFFICES ASSUME TypesOK, NEW p \in Party
             PROVE  Room(p) \in Int
  OBVIOUS
<1>1. Due(p) \in SUBSET Call
  BY DEF Due
<1>2. Cardinality(Due(p)) \in Nat
  BY <1>1, CallsFinite
<1> QED BY <1>2, DealAssumption DEF TypesOK, DealTypeOK, Room

LEMMA RoomIsIntAfter == TypesOK' => \A p \in Party : Room(p)' \in Int
<1> SUFFICES ASSUME TypesOK', NEW p \in Party
             PROVE  Room(p)' \in Int
  OBVIOUS
<1>1. Due(p)' \in SUBSET Call
  BY DEF Due
<1>2. Cardinality(Due(p)') \in Nat
  BY <1>1, CallsFinite
<1> QED BY <1>2, DealAssumption DEF TypesOK, DealTypeOK, Room

LEMMA RoomKept ==
  ASSUME TypesOK, TypesOK', NEW p \in Party, called' = called, left'[p] = left[p],
         Due(p)' \subseteq Due(p)
  PROVE  Room(p)' >= Room(p)
<1>1. Due(p) \in SUBSET Call /\ Due(p)' \in SUBSET Due(p)
  BY DEF Due
<1>2. /\ Cardinality(Due(p)) \in Nat /\ Cardinality(Due(p)') \in Nat
      /\ Cardinality(Due(p)') <= Cardinality(Due(p))
  BY <1>1, CallsFinite
<1> QED BY <1>2, DealAssumption DEF TypesOK, DealTypeOK, Room

\* The same statement, with as much room, no more rows and the same orders.
LEMMA FitKept ==
  ASSUME NEW p \in Party, NEW st, NEW row, FitAt(p, st, row),
         Room(p) \in Int, Room(p)' \in Int, Room(p)' >= Room(p),
         Of(standing, p)' \subseteq Of(standing, p),
         called' = 0 => called = 0 /\ \A r : Open(r, p) => Open(r, p)'
  PROVE  FitAt(p, st, row)'
<1>1. Room(p)' >= 0 /\ (Room(p) >= 1 => Room(p)' >= 1)
  BY DEF FitAt
<1>2. /\ st \in {"load", "chat", "confirm", "message", "restore", "remove",
                 "unconfirm", "refund"} => Room(p)' >= 1
      /\ Of(standing, p)' # {} /\ st \in {"idle", "balance", "count"} => Room(p)' >= 1
  BY <1>1 DEF FitAt
<1>3. /\ \A x, y \in Of(standing, p)' : x = y
      /\ st \in {"insert", "unconfirm", "refund"} => Of(standing, p)' = {}
      /\ st \in {"consume", "load", "chat", "confirm", "message", "restore", "delete",
                 "remove"} => \A x \in Of(standing, p)' : x.row = row
  BY DEF FitAt
<1>4. ASSUME called' = 0, st \notin Unopened \cup {"restore", "delete"},
             NEW x \in Of(standing, p)'
      PROVE  Open(x.row, p)'
  <2>1. Open(x.row, p)
    BY <1>4 DEF FitAt
  <2> QED BY <1>4, <2>1
<1> QED BY <1>1, <1>2, <1>3, <1>4 DEF FitAt, Unopened

\* A party that none of the step's calls belong to.
LEMMA OthersKept ==
  ASSUME NEW p \in Party, PartyOK(p), TypesOK, TypesOK',
         \A d \in Call : By(d, p)' <=> By(d, p),
         \A d \in Call : By(d, p) => Stage(d)' = Stage(d) /\ call'[d].row = call[d].row,
         Room(p)' >= Room(p),
         Of(standing, p)' \subseteq Of(standing, p),
         called' = 0 => called = 0 /\ \A r : Open(r, p) => Open(r, p)'
  PROVE  PartyOK(p)'
<1>1. Room(p) \in Int /\ Room(p)' \in Int
  BY RoomIsInt, RoomIsIntAfter
<1>2. \A c, d \in Call : By(c, p)' /\ By(d, p)' => c = d
  BY DEF PartyOK
<1>3. ASSUME NEW c \in Call, By(c, p)'
      PROVE  FitAt(p, Stage(c), call[c].row)'
  <2>1. By(c, p) /\ FitAt(p, Stage(c), call[c].row)
    BY <1>3 DEF PartyOK
  <2>2. Stage(c)' = Stage(c) /\ call'[c].row = call[c].row
    BY <2>1
  <2> DEFINE st == Stage(c)
  <2> DEFINE row == call[c].row
  <2> QED BY <1>1, <2>1, <2>2, FitKept
<1>4. ASSUME \A c \in Call : ~ By(c, p)'
      PROVE  FitAt(p, "idle", 0)'
  <2>1. FitAt(p, "idle", 0)
    BY <1>4 DEF PartyOK
  <2> QED BY <1>1, <2>1, FitKept
<1> QED BY <1>2, <1>3, <1>4 DEF PartyOK

\* The party whose one call in flight makes the step.
LEMMA OwnKept ==
  ASSUME NEW p \in Party, NEW c \in Call, By(c, p), PartyOK(p),
         \A d \in Call \ {c} : call'[d] = call[d],
         call'[c].by = p, FitAt(p, Stage(c), call[c].row)'
  PROVE  PartyOK(p)'
<1>1. \A d \in Call : By(d, p) => d = c
  BY DEF PartyOK
<1>2. \A d \in Call \ {c} : ~ By(d, p)'
  BY <1>1 DEF By, Busy
<1>3. CASE By(c, p)'
  BY <1>2, <1>3 DEF PartyOK
<1>4. CASE ~ By(c, p)'
  <2>1. Stage(c)' = "idle"
    BY <1>4 DEF By, Stage, Busy
  <2>2. FitAt(p, "idle", 0)'
    BY <2>1 DEF FitAt, Unopened
  <2> QED BY <1>2, <1>4, <2>2 DEF PartyOK
<1> QED BY <1>3, <1>4

\* Where a call stands.
LEMMA StageIsFirst ==
  ASSUME TypesOK, NEW c \in Call
  PROVE  /\ Stage(c) = First(call[c].todo)
         /\ Busy(c) <=> call[c].todo # <<>>
         /\ call[c] \in CallType /\ call[c].todo \in Scripts
         /\ call[c].by \in Party /\ Busy(c) => call[c].todo \in ResponderScripts
<1>1. call[c] \in CallType
  BY DEF TypesOK
<1>2. call[c].todo \in Scripts
  BY <1>1 DEF CallType, Scripts
<1>3. Stage(c) = First(call[c].todo) /\ (Busy(c) <=> call[c].todo # <<>>)
  BY DEF Stage, Busy, First
<1>4. call[c].by \in Party /\ Busy(c) => call[c].todo \in ResponderScripts
  BY <1>2, DealAssumption DEF TypesOK, Busy, Scripts
<1> QED BY <1>1, <1>2, <1>3, <1>4

\* A statement of a responder's script.
Speaks(c, p) ==
  /\ By(c, p)
  /\ call' \in [Call -> CallType]
  /\ \A d \in Call \ {c} : call'[d] = call[d]
  /\ call'[c].by = p /\ call'[c].todo \in {<<>>} \cup ResponderScripts
  /\ called' = called /\ muddled \subseteq muddled' /\ orphaned \subseteq orphaned'
  /\ \A q \in Party \ {p} :
       /\ left'[q] = left[q] /\ Of(standing, q)' \subseteq Of(standing, q)
       /\ \A o \in orders : o.by = q => o \in orders' \/ o.row \in orphaned'

LEMMA SpeaksKeepsDue ==
  ASSUME TypesOK, NEW c \in Call, NEW p \in Party, Speaks(c, p), NEW q \in Party
  PROVE  Due(q)' = Due(q)
<1>1. call[c].todo \in ResponderScripts
  BY StageIsFirst DEF Speaks, By
<1>2. c \notin Due(q) /\ c \notin Due(q)'
  BY <1>1, Sides DEF Speaks, Due
<1>3. \A d \in Call \ {c} : d \in Due(q)' <=> d \in Due(q)
  BY DEF Speaks, Due
<1> QED BY <1>2, <1>3 DEF Due

LEMMA SpeaksKeepsParties ==
  ASSUME TypesOK, TypesOK', NEW c \in Call, NEW p \in Party, Speaks(c, p),
         \A q \in Party \ muddled : PartyOK(q),
         p \notin muddled' => FitAt(p, Stage(c), call[c].row)'
  PROVE  \A q \in Party \ muddled' : PartyOK(q)'
<1> SUFFICES ASSUME NEW q \in Party \ muddled'
             PROVE  PartyOK(q)'
  OBVIOUS
<1>1. PartyOK(q)
  BY DEF Speaks
<1>2. CASE q = p
  BY <1>1, <1>2, OwnKept DEF Speaks
<1>3. CASE q # p
  <2>1. Due(q)' = Due(q)
    BY SpeaksKeepsDue
  <2>2. Room(q)' >= Room(q)
    BY <1>3, <2>1, RoomKept DEF Speaks
  <2>3. \A d \in Call : By(d, q)' <=> By(d, q)
    BY <1>3 DEF Speaks, By, Busy
  <2>4. ASSUME NEW d \in Call, By(d, q)
        PROVE  Stage(d)' = Stage(d) /\ call'[d].row = call[d].row
    <3>1. d # c
      BY <1>3, <2>4 DEF Speaks, By
    <3> QED BY <3>1 DEF Speaks, Stage, Busy
  <2>5. Of(standing, q)' \subseteq Of(standing, q)
    BY <1>3 DEF Speaks
  <2>6. called' = 0 => called = 0 /\ \A r : Open(r, q) => Open(r, q)'
    BY <1>3 DEF Speaks, Open
  <2> QED BY <1>1, <2>2, <2>3, <2>4, <2>5, <2>6, OthersKept
<1> QED BY <1>2, <1>3

LEMMA RoomSpoken ==
  ASSUME TypesOK, TypesOK', NEW c \in Call, NEW p \in Party, Speaks(c, p)
  PROVE  Room(p)' = Room(p) + left[p] - left'[p] /\ Room(p) \in Int
<1>1. Due(p)' = Due(p)
  BY SpeaksKeepsDue
<1>2. Due(p) \in SUBSET Call
  BY DEF Due
<1>3. Cardinality(Due(p)) \in Nat
  BY <1>2, CallsFinite
<1>4. Cardinality(Due(p)') = Cardinality(Due(p))
  BY <1>1
<1>5. called' = called
  BY DEF Speaks
<1> QED BY <1>3, <1>4, <1>5, DealAssumption DEF TypesOK, DealTypeOK, Room

LEMMA ReachedByResponder ==
  ASSUME TypesOK, NEW c \in Call, NEW st, Reaches(c, st),
         st \notin {"status", "ids", "cancel", "refundAll"}
  PROVE  /\ call[c].todo \in ResponderScripts /\ call[c].by \in Party
         /\ By(c, call[c].by) /\ Stage(c) = st /\ First(call[c].todo) = st
<1>1. /\ call[c].todo # <<>> /\ call[c].todo \in Scripts /\ Busy(c)
      /\ First(call[c].todo) = st /\ Stage(c) = st
  BY StageIsFirst DEF Reaches, First, Stage, Busy
<1>2. call[c].todo \notin OwnerScripts
  BY <1>1, OwnerHeads
<1>3. call[c].todo \in ResponderScripts
  BY <1>1, <1>2 DEF Scripts
<1> QED BY <1>1, <1>3 DEF TypesOK, By

LEMMA ReachedByOwner ==
  ASSUME TypesOK, NEW c \in Call, NEW st, Reaches(c, st),
         st \in {"status", "ids", "cancel", "refundAll"}
  PROVE  /\ call[c].todo \in OwnerScripts /\ call[c].by = "nobody"
         /\ Stage(c) = st /\ First(call[c].todo) = st
<1>1. /\ call[c].todo # <<>> /\ call[c].todo \in Scripts
      /\ First(call[c].todo) = st /\ Stage(c) = st
  BY StageIsFirst DEF Reaches, First, Stage, Busy
<1>2. call[c].todo \notin ResponderScripts
  BY <1>1, ResponderHeads
<1>3. call[c].todo \in OwnerScripts
  BY <1>1, <1>2 DEF Scripts
<1> QED BY <1>1, <1>3 DEF TypesOK

\* Only what is left of one script changes in the calls.
LEMMA TurnedCalls ==
  ASSUME TypesOK, NEW c \in Call, NEW s \in Scripts, Turns(c, s)
  PROVE  /\ call' \in [Call -> CallType]
         /\ \A d \in Call \ {c} : call'[d] = call[d] /\ Stage(d)' = Stage(d)
         /\ call'[c].by = call[c].by /\ call'[c].row = call[c].row
         /\ call'[c].ids = call[c].ids /\ call'[c].todo = s
         /\ Stage(c)' = First(s)
<1>1. call[c] \in CallType /\ DOMAIN call = Call
  BY DEF TypesOK
<1>2. call' = [call EXCEPT ![c].todo = s]
  BY DEF Turns
<1>3. call'[c] = [call[c] EXCEPT !.todo = s]
  BY <1>1, <1>2
<1>4. call'[c] \in CallType
  BY <1>1, <1>3 DEF CallType, Scripts
<1>5. \A d \in Call \ {c} : call'[d] = call[d]
  BY <1>1, <1>2
<1>6. call' \in [Call -> CallType]
  BY <1>2, <1>4, <1>5 DEF TypesOK
<1>7. /\ call'[c].by = call[c].by /\ call'[c].row = call[c].row
      /\ call'[c].ids = call[c].ids /\ call'[c].todo = s
  BY <1>1, <1>3 DEF CallType
<1>8. \A d \in Call \ {c} : Stage(d)' = Stage(d)
  BY <1>5 DEF Stage, Busy
<1>9. Stage(c)' = First(s)
  BY <1>7 DEF Stage, Busy, First
<1> QED BY <1>5, <1>6, <1>7, <1>8, <1>9

\* A statement that inserts no rows.
Quiet(c, p, s) ==
  /\ p = call[c].by /\ By(c, p) /\ Turns(c, s)
  /\ s \in {<<>>} \cup ResponderScripts
  /\ UNCHANGED <<trade, offered, nextRow, called>>
  /\ left' \in [Party -> Nat] /\ \A q \in Party \ {p} : left'[q] = left[q]
  /\ standing' \subseteq standing /\ orders' \subseteq orders
  /\ \A o \in orders : o.by # p => o \in orders' \/ o.row \in orphaned'
  /\ orphaned \subseteq orphaned' /\ orphaned' \subseteq 1 .. MaxOrder
  /\ chats' \subseteq 1 .. MaxOrder
  /\ muddled \subseteq muddled' /\ muddled' \subseteq Party

LEMMA QuietTypes ==
  ASSUME TypesOK, NEW c \in Call, NEW p \in Party, NEW s, Quiet(c, p, s)
  PROVE  /\ TypesOK' /\ Speaks(c, p) /\ Stage(c)' = First(s)
         /\ call'[c].row = call[c].row
         /\ Room(p)' = Room(p) + left[p] - left'[p] /\ Room(p) \in Int
<1>1. s \in Scripts
  BY DEF Quiet, Scripts
<1>2. /\ call' \in [Call -> CallType]
      /\ \A d \in Call \ {c} : call'[d] = call[d]
      /\ call'[c].by = p /\ call'[c].todo = s /\ Stage(c)' = First(s)
      /\ call'[c].row = call[c].row
  BY <1>1, TurnedCalls DEF Quiet
<1>3. DealTypeOK'
  <2>1. \A d \in Call : call'[d].by \in Party \cup {"nobody"} /\ call'[d].ids \subseteq Party
    BY <1>2 DEF CallType
  <2> QED BY <2>1 DEF TypesOK, DealTypeOK, Quiet
<1>4. TypesOK'
  BY <1>2, <1>3, Sides DEF TypesOK, Quiet
<1>5. Speaks(c, p)
  BY <1>2 DEF Speaks, Quiet, Of
<1> QED BY <1>2, <1>4, <1>5, RoomSpoken

LEMMA QuietKeeps ==
  ASSUME IndInv, NEW c \in Call, NEW p \in Party, NEW s, Quiet(c, p, s),
         First(s) \in Unopened => Stage(c) \in Unopened,
         p \notin muddled' => FitAt(p, First(s), call[c].row)'
  PROVE  IndInv'
<1>1. /\ TypesOK' /\ Speaks(c, p) /\ Stage(c)' = First(s)
      /\ call'[c].row = call[c].row
  BY QuietTypes DEF IndInv
<1>2. \A d \in Call \ {c} : Stage(d)' = Stage(d) /\ call'[d] = call[d]
  BY <1>1 DEF Speaks, Stage, Busy
<1>3. \A d \in Call : Stage(d)' \in Unopened =>
        Stage(d) \in Unopened /\ call'[d].row = call[d].row
  BY <1>1, <1>2
<1>4. RowsOK'
  <2>1. orders' \subseteq orders /\ nextRow' = nextRow
    BY DEF Quiet
  <2> QED BY <1>3, <2>1 DEF IndInv, RowsOK
<1>5. p \notin muddled' => FitAt(p, Stage(c), call[c].row)'
  BY <1>1
<1>6. \A q \in Party \ muddled' : PartyOK(q)'
  BY <1>1, <1>5, SpeaksKeepsParties DEF IndInv
<1> QED BY <1>1, <1>4, <1>6 DEF IndInv
-----------------------------------------------------------------------------
(* A responder's statements.                                               *)

LEMMA OwnFit ==
  ASSUME IndInv, NEW c \in Call, NEW p \in Party, By(c, p), p \notin muddled
  PROVE  FitAt(p, Stage(c), call[c].row)
BY DEF IndInv, PartyOK

\* What a statement of c leaves when its script goes on from todo.
LEMMA TailOf ==
  ASSUME NEW s \in ResponderScripts
  PROVE  Tail(s) \in {<<>>} \cup ResponderScripts
BY ResponderHeads

\* A statement that touches no table: the new stage must fit the same rows.
LEMMA SameTables ==
  ASSUME IndInv, NEW c \in Call, NEW p \in Party, NEW s, Quiet(c, p, s),
         UNCHANGED <<standing, orders, orphaned>>,
         First(s) \in Unopened => Stage(c) \in Unopened,
         p \notin muddled' /\ FitAt(p, Stage(c), call[c].row) =>
           /\ Room(p) + left[p] - left'[p] >= 0
           /\ First(s) \in {"load", "chat", "confirm", "message", "restore", "remove",
                            "unconfirm", "refund"} => Room(p) + left[p] - left'[p] >= 1
           /\ Of(standing, p) # {} /\ First(s) \in {"idle", "balance", "count"} =>
                Room(p) + left[p] - left'[p] >= 1
           /\ First(s) \in {"insert", "unconfirm", "refund"} => Of(standing, p) = {}
           /\ First(s) \in {"consume", "load", "chat", "confirm", "message", "restore",
                            "delete", "remove"} =>
                \A x \in Of(standing, p) : x.row = call[c].row
           /\ called = 0 /\ First(s) \notin Unopened \cup {"restore", "delete"} =>
                \A x \in Of(standing, p) : Open(x.row, p)
  PROVE  IndInv'
<1>1. /\ Room(p)' = Room(p) + left[p] - left'[p] /\ Room(p) \in Int
  BY QuietTypes DEF IndInv
<1>2. By(c, p) /\ muddled \subseteq muddled' /\ called' = called
  BY DEF Quiet
<1>3. Of(standing, p)' = Of(standing, p)
  BY DEF Of
<1>4. ASSUME p \notin muddled'
      PROVE  FitAt(p, First(s), call[c].row)'
  <2>1. FitAt(p, Stage(c), call[c].row)
    BY <1>2, <1>4, OwnFit
  <2>2. \A x, y \in Of(standing, p) : x = y
    BY <2>1 DEF FitAt
  <2>3. call'[c].row = call[c].row
    BY QuietTypes DEF IndInv
  <2>4. \A r : Open(r, p)' <=> Open(r, p)
    BY DEF Open
  <2> QED BY <1>1, <1>2, <1>3, <1>4, <2>1, <2>2, <2>3, <2>4 DEF FitAt
<1> QED BY <1>4, QuietKeeps

LEMMA BalanceKeeps == ASSUME IndInv, NEW c \in Call, Balance(c) PROVE IndInv'
<1> DEFINE p == call[c].by
<1> DEFINE s == IF left[p] > 0 THEN Tail(call[c].todo) ELSE <<>>
<1>1. /\ call[c].todo \in ResponderScripts /\ p \in Party /\ By(c, p)
      /\ Stage(c) = "balance" /\ First(call[c].todo) = "balance"
  BY ReachedByResponder DEF IndInv, Balance
<1>2. Turns(c, s) /\ s \in {<<>>} \cup ResponderScripts
  BY <1>1, TailOf DEF Balance, Proceeds, Stops
<1>3. Quiet(c, p, s)
  BY <1>1, <1>2 DEF Quiet, Balance, IndInv, TypesOK, DealTypeOK
<1>4. First(s) \in {"count", "idle"}
  BY <1>1, ResponderHeads DEF First
<1>5. Room(p) \in Int /\ left[p] \in Nat /\ left'[p] = left[p]
  BY <1>1, <1>3, QuietTypes DEF IndInv, TypesOK, DealTypeOK, Balance
<1>6. FitAt(p, "balance", call[c].row) =>
        /\ Room(p) >= 0
        /\ Of(standing, p) # {} => Room(p) >= 1
        /\ called = 0 => \A x \in Of(standing, p) : Open(x.row, p)
  BY DEF FitAt, Unopened
<1> HIDE DEF s, p
<1> QED BY <1>1, <1>3, <1>4, <1>5, <1>6, SameTables DEF Balance, Unopened

LEMMA CountKeeps == ASSUME IndInv, NEW c \in Call, Count(c) PROVE IndInv'
<1> DEFINE p == call[c].by
<1> DEFINE s == IF Of(standing, p) = {} THEN Tail(call[c].todo) ELSE <<>>
<1>1. /\ call[c].todo \in ResponderScripts /\ p \in Party /\ By(c, p)
      /\ Stage(c) = "count" /\ First(call[c].todo) = "count"
  BY ReachedByResponder DEF IndInv, Count
<1>2. Turns(c, s) /\ s \in {<<>>} \cup ResponderScripts
  BY <1>1, TailOf DEF Count, Proceeds, Stops
<1>3. Quiet(c, p, s)
  BY <1>1, <1>2 DEF Quiet, Count, IndInv, TypesOK, DealTypeOK
<1>4. First(s) = "idle" \/ (First(s) = "insert" /\ Of(standing, p) = {})
  BY <1>1, ResponderHeads DEF First
<1>5. Room(p) \in Int /\ left[p] \in Nat /\ left'[p] = left[p]
  BY <1>1, <1>3, QuietTypes DEF IndInv, TypesOK, DealTypeOK, Count
<1>6. FitAt(p, "count", call[c].row) =>
        /\ Room(p) >= 0
        /\ Of(standing, p) # {} => Room(p) >= 1
        /\ called = 0 => \A x \in Of(standing, p) : Open(x.row, p)
  BY DEF FitAt, Unopened
<1> HIDE DEF s, p
<1> QED BY <1>1, <1>3, <1>4, <1>5, <1>6, SameTables DEF Count, Unopened

LEMMA ConsumeKeeps == ASSUME IndInv, NEW c \in Call, ConsumeResponse(c) PROVE IndInv'
<1> DEFINE p == call[c].by
<1> DEFINE s == IF left[p] > 0 THEN Tail(call[c].todo) ELSE Deleting
<1>1. /\ call[c].todo \in ResponderScripts /\ p \in Party /\ By(c, p)
      /\ Stage(c) = "consume" /\ First(call[c].todo) = "consume"
  BY ReachedByResponder DEF IndInv, ConsumeResponse
<1>2. Turns(c, s) /\ s \in {<<>>} \cup ResponderScripts
  BY <1>1, TailOf DEF ConsumeResponse, Proceeds, ResponderScripts, Deleting
<1>3. left \in [Party -> Nat] /\ left' \in [Party -> Nat]
      /\ \A q \in Party \ {p} : left'[q] = left[q]
  BY <1>1 DEF ConsumeResponse, IndInv, TypesOK, DealTypeOK
<1>4. Quiet(c, p, s)
  BY <1>1, <1>2, <1>3 DEF Quiet, ConsumeResponse, IndInv, TypesOK, DealTypeOK
<1>5. \/ First(s) = "load" /\ left'[p] = left[p] - 1
      \/ First(s) = "delete" /\ left'[p] = left[p]
  BY <1>1, <1>3, ResponderHeads, NextStatements DEF ConsumeResponse
<1>6. Room(p) \in Int /\ left[p] \in Nat
  BY <1>1, <1>3, <1>4, QuietTypes DEF IndInv
<1>7. FitAt(p, "consume", call[c].row) =>
        Room(p) >= 0 /\ \A x \in Of(standing, p) : x.row = call[c].row
  BY DEF FitAt
<1>8. First(s) \in Unopened => Stage(c) \in Unopened
  BY <1>1 DEF Unopened
<1> HIDE DEF s, p
<1>9. Room(p) + left[p] - left'[p] >= Room(p)
      /\ (First(s) = "load" => Room(p) + left[p] - left'[p] = Room(p) + 1)
  BY <1>5, <1>6
<1> QED BY <1>1, <1>4, <1>5, <1>6, <1>7, <1>8, <1>9, SameTables
        DEF ConsumeResponse, Unopened

LEMMA LoadKeeps == ASSUME IndInv, NEW c \in Call, Load(c) PROVE IndInv'
<1> DEFINE p == call[c].by
<1> DEFINE s == IF trade \in Clients /\ offered = "archive" THEN Rollback
                ELSE Tail(call[c].todo)
<1>1. /\ call[c].todo \in ResponderScripts /\ p \in Party /\ By(c, p)
      /\ Stage(c) = "load" /\ First(call[c].todo) = "load"
  BY ReachedByResponder DEF IndInv, Load
<1>2. Rollback = Restoring
  BY DEF Rollback, Restoring
<1>3. Turns(c, s) /\ s \in {<<>>} \cup ResponderScripts
  BY <1>1, <1>2, TailOf DEF Load, Proceeds, ResponderScripts
<1>4. Quiet(c, p, s)
  BY <1>1, <1>3 DEF Quiet, Load, IndInv, TypesOK, DealTypeOK
<1>5. First(s) \in {"chat", "restore"}
  BY <1>1, <1>2, ResponderHeads, NextStatements
<1>6. Room(p) \in Int /\ left[p] \in Nat /\ left'[p] = left[p]
  BY <1>1, <1>4, QuietTypes DEF IndInv, TypesOK, DealTypeOK, Load
<1>7. FitAt(p, "load", call[c].row) =>
        Room(p) >= 1 /\ \A x \in Of(standing, p) : x.row = call[c].row
  BY DEF FitAt
<1> HIDE DEF s, p
<1> QED BY <1>1, <1>4, <1>5, <1>6, <1>7, SameTables DEF Load, Unopened

LEMMA ChatKeeps == ASSUME IndInv, NEW c \in Call, CreateChat(c) PROVE IndInv'
<1> DEFINE p == call[c].by
<1> DEFINE s == Tail(call[c].todo)
<1>1. /\ call[c].todo \in ResponderScripts /\ p \in Party /\ By(c, p)
      /\ Stage(c) = "chat" /\ First(call[c].todo) = "chat"
  BY ReachedByResponder DEF IndInv, CreateChat
<1>2. Turns(c, s) /\ s \in {<<>>} \cup ResponderScripts
  BY <1>1, TailOf DEF CreateChat, Proceeds
<1>3. Quiet(c, p, s)
  <2>1. call[c].row > 0 /\ call[c].row \in 0 .. MaxOrder
    BY <1>1 DEF IndInv, RowsOK, Unopened, TypesOK, CallType
  <2>2. call[c].row \in 1 .. MaxOrder
    BY <2>1, DealAssumption
  <2> QED BY <1>1, <1>2, <2>2 DEF Quiet, CreateChat, IndInv, TypesOK, DealTypeOK
<1>4. First(s) = "confirm"
  BY <1>1, ResponderHeads
<1>5. Room(p) \in Int /\ left[p] \in Nat /\ left'[p] = left[p]
  BY <1>1, <1>3, QuietTypes DEF IndInv, TypesOK, DealTypeOK, CreateChat
<1>6. FitAt(p, "chat", call[c].row) =>
        Room(p) >= 1 /\ \A x \in Of(standing, p) : x.row = call[c].row
  BY DEF FitAt
<1> HIDE DEF s, p
<1> QED BY <1>1, <1>3, <1>4, <1>5, <1>6, SameTables DEF CreateChat, Unopened

LEMMA MessageKeeps == ASSUME IndInv, NEW c \in Call, CreateMessage(c) PROVE IndInv'
<1> DEFINE p == call[c].by
<1> DEFINE s == IF call[c].row \in chats THEN <<>> ELSE Rollback
<1>1. /\ call[c].todo \in ResponderScripts /\ p \in Party /\ By(c, p)
      /\ Stage(c) = "message" /\ First(call[c].todo) = "message"
  BY ReachedByResponder DEF IndInv, CreateMessage
<1>2. Rollback = Restoring
  BY DEF Rollback, Restoring
<1>3. Turns(c, s) /\ s \in {<<>>} \cup ResponderScripts
  BY <1>1, <1>2 DEF CreateMessage, Stops, ResponderScripts
<1>4. Quiet(c, p, s)
  BY <1>1, <1>3 DEF Quiet, CreateMessage, IndInv, TypesOK, DealTypeOK
<1>5. First(s) \in {"idle", "restore"}
  BY <1>2, NextStatements
<1>6. Room(p) \in Int /\ left[p] \in Nat /\ left'[p] = left[p]
  BY <1>1, <1>4, QuietTypes DEF IndInv, TypesOK, DealTypeOK, CreateMessage
<1>7. FitAt(p, "message", call[c].row) =>
        /\ Room(p) >= 1 /\ \A x \in Of(standing, p) : x.row = call[c].row
        /\ called = 0 => \A x \in Of(standing, p) : Open(x.row, p)
  BY DEF FitAt, Unopened
<1> HIDE DEF s, p
<1> QED BY <1>1, <1>4, <1>5, <1>6, <1>7, SameTables DEF CreateMessage, Unopened

LEMMA RestoreKeeps == ASSUME IndInv, NEW c \in Call, RestoreResponse(c) PROVE IndInv'
<1> DEFINE p == call[c].by
<1> DEFINE s == Tail(call[c].todo)
<1>1. /\ call[c].todo \in ResponderScripts /\ p \in Party /\ By(c, p)
      /\ Stage(c) \in {"restore", "refund"} /\ First(call[c].todo) = Stage(c)
  BY ReachedByResponder DEF IndInv, RestoreResponse
<1>2. Turns(c, s) /\ s \in {<<>>} \cup ResponderScripts
  BY <1>1, TailOf DEF RestoreResponse, Proceeds
<1>3. left \in [Party -> Nat] /\ left' \in [Party -> Nat] /\ left'[p] = left[p] + 1
      /\ \A q \in Party \ {p} : left'[q] = left[q]
  BY <1>1 DEF RestoreResponse, IndInv, TypesOK, DealTypeOK
<1>4. Quiet(c, p, s)
  BY <1>1, <1>2, <1>3 DEF Quiet, RestoreResponse, IndInv, TypesOK, DealTypeOK
<1>5. \/ Stage(c) = "restore" /\ First(s) = "delete"
      \/ Stage(c) = "refund" /\ First(s) = "idle"
  BY <1>1, ResponderHeads
<1>6. Room(p) \in Int /\ left[p] \in Nat
  BY <1>1, <1>3, <1>4, QuietTypes DEF IndInv
<1>7. FitAt(p, "restore", call[c].row) =>
        Room(p) >= 1 /\ \A x \in Of(standing, p) : x.row = call[c].row
  BY DEF FitAt
<1>8. FitAt(p, "refund", call[c].row) => Room(p) >= 1 /\ Of(standing, p) = {}
  BY DEF FitAt
<1>9. Room(p) + left[p] - left'[p] = Room(p) - 1
  BY <1>3, <1>6
<1> HIDE DEF s, p
<1> QED BY <1>1, <1>4, <1>5, <1>6, <1>7, <1>8, <1>9, SameTables
        DEF RestoreResponse, Unopened

LEMMA DeleteKeeps ==
  ASSUME IndInv, NEW c \in Call, DeleteResponse(c), NEW p, p = call[c].by,
         NEW s, s = Tail(call[c].todo)
  PROVE  IndInv'
<1>1. /\ call[c].todo \in ResponderScripts /\ p \in Party /\ By(c, p)
      /\ Stage(c) \in {"delete", "remove"} /\ First(call[c].todo) = Stage(c)
  BY ReachedByResponder DEF IndInv, DeleteResponse
<1>2. Turns(c, s) /\ s \in {<<>>} \cup ResponderScripts
  BY <1>1, TailOf DEF DeleteResponse, Proceeds
<1>3. Quiet(c, p, s)
  BY <1>1, <1>2 DEF Quiet, DeleteResponse, IndInv, TypesOK, DealTypeOK
<1>4. \/ Stage(c) = "delete" /\ First(s) = "idle"
      \/ Stage(c) = "remove" /\ First(s) = "unconfirm"
  BY <1>1, ResponderHeads
<1>5. /\ Room(p) \in Int /\ left[p] \in Nat /\ left'[p] = left[p]
      /\ Room(p)' = Room(p) + left[p] - left'[p]
  BY <1>1, <1>3, QuietTypes DEF IndInv, TypesOK, DealTypeOK, DeleteResponse
<1>6. ASSUME p \notin muddled'
      PROVE  FitAt(p, First(s), call[c].row)'
  <2>1. FitAt(p, Stage(c), call[c].row)
    BY <1>1, <1>6, OwnFit DEF DeleteResponse
  <2>2. /\ Room(p) >= 0 /\ (Stage(c) = "remove" => Room(p) >= 1)
        /\ \A x \in Of(standing, p) : x.row = call[c].row
    BY <1>1, <2>1 DEF FitAt
  <2>3. Of(standing, p)' = {}
    BY <2>2 DEF DeleteResponse, Of
  <2>4. Room(p)' = Room(p)
    BY <1>5
  <2>5. Room(p)' >= 0 /\ (First(s) = "unconfirm" => Room(p)' >= 1)
    BY <1>4, <2>2, <2>4
  <2> QED BY <1>4, <2>3, <2>5 DEF FitAt, Unopened
<1>7. First(s) \in Unopened => Stage(c) \in Unopened
  BY <1>4 DEF Unopened
<1> QED BY <1>1, <1>3, <1>6, <1>7, QuietKeeps

LEMMA PendingOrders == ASSUME TypesOK, NEW p PROVE Pending(p) \subseteq orders
<1>1. trade \in Performers \cup Clients
  BY DEF TypesOK, DealTypeOK
<1> QED BY <1>1 DEF Pending, ByTrade, Performers, Clients, PendingService, PendingWork,
           PendingRent, PendingAd, PendingWorkAd, PendingRentAd, Of

LEMMA UnconfirmKeeps ==
  ASSUME IndInv, NEW c \in Call, DeletePending(c), NEW p, p = call[c].by,
         NEW s, s = Tail(call[c].todo)
  PROVE  IndInv'
<1>1. /\ call[c].todo \in ResponderScripts /\ p \in Party /\ By(c, p)
      /\ Stage(c) = "unconfirm" /\ First(call[c].todo) = "unconfirm"
  BY ReachedByResponder DEF IndInv, DeletePending
<1>2. Turns(c, s) /\ s \in {<<>>} \cup ResponderScripts
  BY <1>1, TailOf DEF DeletePending, Proceeds
<1>3. Quiet(c, p, s)
  <2> DEFINE gone == Pending(p)
  <2>1. /\ gone \subseteq orders /\ orders' = orders \ gone
        /\ orphaned' = orphaned \cup {o.row : o \in gone \ Of(gone, p)}
    BY PendingOrders DEF DeletePending, IndInv
  <2> HIDE DEF gone
  <2>2. orphaned' \subseteq 1 .. MaxOrder
    BY <2>1 DEF IndInv, TypesOK, DealTypeOK
  <2>3. \A o \in orders : o.by # p => o \in orders' \/ o.row \in orphaned'
    BY <2>1 DEF Of
  <2> QED BY <1>1, <1>2, <2>1, <2>2, <2>3
          DEF Quiet, DeletePending, IndInv, TypesOK, DealTypeOK
<1>4. First(s) = "refund"
  BY <1>1, ResponderHeads
<1>5. /\ Room(p) \in Int /\ left[p] \in Nat /\ left'[p] = left[p]
      /\ Room(p)' = Room(p) + left[p] - left'[p]
  BY <1>1, <1>3, QuietTypes DEF IndInv, TypesOK, DealTypeOK, DeletePending
<1>6. ASSUME p \notin muddled'
      PROVE  FitAt(p, First(s), call[c].row)'
  <2>1. FitAt(p, Stage(c), call[c].row)
    BY <1>1, <1>6, OwnFit DEF DeletePending
  <2>2. Room(p) >= 1 /\ Of(standing, p) = {}
    BY <1>1, <2>1 DEF FitAt
  <2>3. Of(standing, p)' = {}
    BY <2>2 DEF DeletePending, Of
  <2>4. Room(p)' = Room(p)
    BY <1>5
  <2> QED BY <1>4, <1>5, <2>2, <2>3, <2>4 DEF FitAt, Unopened
<1>7. First(s) \in Unopened => Stage(c) \in Unopened
  BY <1>4 DEF Unopened
<1> QED BY <1>1, <1>3, <1>6, <1>7, QuietKeeps

LEMMA ResponderFails ==
  ASSUME IndInv, NEW c \in Call, Fails(c), call[c].todo \in ResponderScripts
  PROVE  IndInv'
<1> DEFINE p == call[c].by
<1> DEFINE s == AfterFailure(c)
<1>1. /\ p \in Party /\ By(c, p) /\ Stage(c) = Head(call[c].todo)
  BY DEF IndInv, TypesOK, Fails, By, Stage
<1>2. Stage(c) \in {"balance", "count", "insert", "consume", "load", "chat", "confirm",
                    "message", "restore", "delete", "remove", "unconfirm", "refund"}
  BY <1>1, ResponderHeads
<1>3. Rollback = Restoring
  BY DEF Rollback, Restoring
<1>4. \/ Stage(c) \in {"consume", "restore"} /\ s = Deleting
      \/ Stage(c) \in {"load", "chat", "confirm", "message"} /\ s = Restoring
      \/ Stage(c) \in {"balance", "count", "insert", "delete", "remove", "unconfirm",
                       "refund"} /\ s = <<>>
  BY <1>1, <1>2, <1>3 DEF AfterFailure, Deleting
<1>5. \/ Stage(c) \in {"consume", "restore"} /\ First(s) = "delete"
      \/ Stage(c) \in {"load", "chat", "confirm", "message"} /\ First(s) = "restore"
      \/ Stage(c) \in {"balance", "count", "insert", "delete", "remove", "unconfirm",
                       "refund"} /\ First(s) = "idle"
  BY <1>4, NextStatements
<1>6. Turns(c, s) /\ s \in {<<>>} \cup ResponderScripts
  BY <1>4 DEF Fails, ResponderScripts
<1> HIDE DEF s
<1>7. Quiet(c, p, s)
  BY <1>1, <1>6 DEF Quiet, Fails, IndInv, TypesOK, DealTypeOK
<1>8. /\ Room(p) \in Int /\ left[p] \in Nat /\ left'[p] = left[p]
  BY <1>1, <1>7, QuietTypes DEF IndInv, TypesOK, DealTypeOK, Fails
<1>9. Stage(c) = "delete" => p \in muddled'
  BY <1>1 DEF Fails, Reaches, By
<1>10. FitAt(p, Stage(c), call[c].row) =>
         /\ Room(p) >= 0
         /\ Stage(c) \in {"load", "chat", "confirm", "message"} => Room(p) >= 1
         /\ Stage(c) \in {"restore", "remove", "unconfirm", "refund"} => Room(p) >= 1
         /\ Of(standing, p) # {} /\ Stage(c) \in {"balance", "count", "insert"} => Room(p) >= 1
         /\ Stage(c) \in {"consume", "restore", "load", "chat", "confirm", "message"} =>
              \A x \in Of(standing, p) : x.row = call[c].row
         /\ called = 0 /\ Stage(c) \in {"balance", "count", "insert", "remove",
                                        "unconfirm", "refund"} =>
              \A x \in Of(standing, p) : Open(x.row, p)
  BY <1>2 DEF FitAt, Unopened
<1>11. First(s) \in Unopened => Stage(c) \in Unopened
  BY <1>5 DEF Unopened
<1>12. Room(p) + left[p] - left'[p] = Room(p)
  BY <1>8
<1> HIDE DEF p
<1>13. p \notin muddled' /\ FitAt(p, Stage(c), call[c].row) =>
           /\ Room(p) + left[p] - left'[p] >= 0
           /\ First(s) \in {"load", "chat", "confirm", "message", "restore", "remove",
                            "unconfirm", "refund"} => Room(p) + left[p] - left'[p] >= 1
           /\ Of(standing, p) # {} /\ First(s) \in {"idle", "balance", "count"} =>
                Room(p) + left[p] - left'[p] >= 1
           /\ First(s) \in {"insert", "unconfirm", "refund"} => Of(standing, p) = {}
           /\ First(s) \in {"consume", "load", "chat", "confirm", "message", "restore",
                            "delete", "remove"} =>
                \A x \in Of(standing, p) : x.row = call[c].row
           /\ called = 0 /\ First(s) \notin Unopened \cup {"restore", "delete"} =>
                \A x \in Of(standing, p) : Open(x.row, p)
  BY <1>5, <1>8, <1>9, <1>10, <1>12
<1> QED BY <1>1, <1>7, <1>11, <1>13, SameTables DEF Fails

LEMMA InsertKeeps ==
  ASSUME IndInv, NEW c \in Call, Insert(c), NEW p, p = call[c].by,
         NEW s, s = Tail(call[c].todo)
  PROVE  IndInv'
<1>1. /\ call[c].todo \in ResponderScripts /\ p \in Party /\ By(c, p)
      /\ Stage(c) = "insert" /\ First(call[c].todo) = "insert"
  BY ReachedByResponder DEF IndInv, Insert
<1>2. s \in {<<>>} \cup ResponderScripts /\ First(s) = "consume" /\ s # <<>>
  BY <1>1, TailOf, ResponderHeads, NextStatements
<1>3. /\ call \in [Call -> CallType] /\ call[c] \in CallType
      /\ nextRow \in 1 .. MaxOrder /\ MaxOrder \in Nat
  BY DealAssumption DEF IndInv, TypesOK, DealTypeOK, Insert
<1>4. /\ call'[c] = [call[c] EXCEPT !.row = nextRow, !.todo = s]
      /\ \A d \in Call \ {c} : call'[d] = call[d]
  BY <1>3 DEF Insert
<1>5. /\ call'[c].row = nextRow /\ call'[c].todo = s /\ call'[c].by = p
      /\ call'[c] \in CallType
  <2>1. call[c] = [todo |-> call[c].todo, by |-> p, row |-> call[c].row,
                   ids |-> call[c].ids, seen |-> call[c].seen]
    BY <1>3 DEF CallType
  <2>2. call'[c] = [todo |-> s, by |-> p, row |-> nextRow, ids |-> call[c].ids,
                    seen |-> call[c].seen]
    BY <1>4, <2>1
  <2>3. /\ call[c].ids \in SUBSET Party /\ nextRow \in 0 .. MaxOrder
        /\ call[c].seen \in {"none", "active", "archive", "in_progress", "done"}
    BY <1>3 DEF CallType
  <2>4. s \in {<<>>} \cup ResponderScripts \cup OwnerScripts
    BY <1>2
  <2> QED BY <1>1, <2>2, <2>3, <2>4 DEF CallType
<1>6. call' \in [Call -> CallType]
  BY <1>3, <1>4, <1>5 DEF Insert
<1>7. DealTypeOK'
  <2>1. \A d \in Call : call'[d].by \in Party \cup {"nobody"} /\ call'[d].ids \subseteq Party
    BY <1>6 DEF CallType
  <2>2. standing' \subseteq [row : 1 .. MaxOrder, by : Party] /\ nextRow' \in 1 .. MaxOrder + 1
    BY <1>1, <1>3 DEF Insert, IndInv, TypesOK, DealTypeOK
  <2> QED BY <2>1, <2>2 DEF Insert, IndInv, TypesOK, DealTypeOK
<1>8. TypesOK'
  <2>1. s \notin OwnerScripts
    BY <1>2, Sides
  <2>2. ASSUME NEW d \in Call
        PROVE  /\ call'[d].todo \in ResponderScripts => call'[d].by \in Party
               /\ call'[d].todo \in OwnerScripts => call'[d].by = "nobody"
    BY <1>1, <1>4, <1>5, <2>1 DEF IndInv, TypesOK
  <2> QED BY <1>6, <1>7, <2>2 DEF TypesOK
<1>9. Stage(c)' = "consume" /\ \A d \in Call \ {c} : Stage(d)' = Stage(d)
  BY <1>2, <1>4, <1>5 DEF Stage, Busy, First
<1>10. RowsOK'
  <2>1. /\ \A o \in orders : o.row \in Nat /\ o.row < nextRow
        /\ nextRow \in Nat /\ orders' = orders /\ nextRow' = nextRow + 1
    BY <1>3 DEF IndInv, RowsOK, TypesOK, DealTypeOK, Insert
  <2>2. \A o \in orders : o.row < nextRow + 1 /\ o.row # nextRow
    BY <2>1
  <2>3. ASSUME NEW d \in Call \ {c}, Stage(d)' \in Unopened
        PROVE  /\ call'[d].row > 0 /\ call'[d].row < nextRow' /\ call'[d].row # nextRow
               /\ \A o \in orders' : o.row # call'[d].row
    <3>1. Stage(d) \in Unopened /\ call'[d] = call[d] /\ call[d] \in CallType
      BY <1>3, <1>4, <1>9, <2>3
    <3>2. call[d].row \in Nat
      BY <3>1, DealAssumption DEF CallType
    <3>3. call[d].row > 0 /\ call[d].row < nextRow /\ \A o \in orders : o.row # call[d].row
      BY <3>1 DEF IndInv, RowsOK
    <3> QED BY <2>1, <3>1, <3>2, <3>3
  <2>4. \A d, e \in Call \ {c} :
          Stage(d)' \in Unopened /\ Stage(e)' \in Unopened /\ call'[d].row = call'[e].row
            => d = e
    BY <1>4, <1>9 DEF IndInv, RowsOK
  <2>5. \A m, n \in orders' : m.row = n.row => m = n
    BY <2>1 DEF IndInv, RowsOK
  <2>6. \A d \in Call : Stage(d)' \in Unopened =>
          call'[d].row > 0 /\ call'[d].row < nextRow' /\ \A o \in orders' : o.row # call'[d].row
    BY <1>3, <1>5, <2>1, <2>2, <2>3
  <2>7. \A d, e \in Call :
          Stage(d)' \in Unopened /\ Stage(e)' \in Unopened /\ call'[d].row = call'[e].row
            => d = e
    BY <1>5, <2>3, <2>4
  <2> QED BY <2>1, <2>2, <2>5, <2>6, <2>7 DEF RowsOK
<1>11. Speaks(c, p)
  BY <1>1, <1>2, <1>4, <1>5, <1>6 DEF Speaks, Insert, Of
<1>12. ASSUME p \notin muddled'
       PROVE  FitAt(p, Stage(c), call[c].row)'
  <2>1. FitAt(p, "insert", call[c].row)
    BY <1>1, <1>12, OwnFit DEF Insert
  <2>2. Room(p) >= 0 /\ Of(standing, p) = {}
    BY <2>1 DEF FitAt
  <2>3. Room(p)' >= 0
    <3>1. Room(p)' = Room(p) + left[p] - left'[p] /\ Room(p) \in Int
      BY <1>1, <1>8, <1>11, RoomSpoken DEF IndInv
    <3>2. left'[p] = left[p] /\ left[p] \in Nat
      BY <1>1 DEF Insert, IndInv, TypesOK, DealTypeOK
    <3> QED BY <2>2, <3>1, <3>2
  <2>4. Of(standing, p)' = {[row |-> nextRow, by |-> p]}
    BY <2>2 DEF Insert, Of
  <2>5. /\ \A x, y \in Of(standing, p)' : x = y
        /\ \A x \in Of(standing, p)' : x.row = call'[c].row
    BY <1>5, <2>4
  <2> QED BY <1>9, <2>3, <2>5 DEF FitAt, Unopened
<1>13. \A q \in Party \ muddled' : PartyOK(q)'
  BY <1>1, <1>8, <1>11, <1>12, SpeaksKeepsParties DEF IndInv
<1> QED BY <1>8, <1>10, <1>13 DEF IndInv

LEMMA OrderWritten ==
  ASSUME IndInv, NEW c \in Call, CreateOrder(c), NEW p, p = call[c].by,
         NEW s, s = Tail(call[c].todo), NEW r, r = call[c].row, r \in chats
  PROVE  IndInv'
<1>1. /\ call[c].todo \in ResponderScripts /\ p \in Party /\ By(c, p)
      /\ Stage(c) = "confirm" /\ First(call[c].todo) = "confirm"
  BY ReachedByResponder DEF IndInv, CreateOrder
<1>2. s \in {<<>>} \cup ResponderScripts /\ s \in Scripts /\ First(s) = "message"
  BY <1>1, TailOf, ResponderHeads DEF Scripts
<1>3. /\ call' \in [Call -> CallType]
      /\ \A d \in Call \ {c} : call'[d] = call[d] /\ Stage(d)' = Stage(d)
      /\ call'[c].by = p /\ call'[c].todo = s /\ call'[c].row = r
      /\ Stage(c)' = "message"
  BY <1>2, TurnedCalls DEF IndInv, CreateOrder, Proceeds
<1>4. /\ r > 0 /\ r < nextRow /\ \A o \in orders : o.row # r
      /\ \A d \in Call \ {c} : Stage(d) \in Unopened => call[d].row # r
  BY <1>1 DEF IndInv, RowsOK, Unopened
<1>5. r \in 1 .. MaxOrder
  <2>1. r \in 0 .. MaxOrder
    BY DEF IndInv, TypesOK, CallType
  <2> QED BY <1>4, <2>1, DealAssumption
<1> DEFINE o == [row |-> r, by |-> p, confirmed |-> FALSE, status |-> "active"]
<1>6. /\ orders' = orders \cup {o} /\ o.row = r /\ o.by = p
      /\ o \in [row : 1 .. MaxOrder, by : Party, confirmed : BOOLEAN,
                status : {"active", "in_progress", "done", "archived"}]
  BY <1>1, <1>5 DEF CreateOrder
<1> HIDE DEF o
<1>7. DealTypeOK'
  <2>1. \A d \in Call : call'[d].by \in Party \cup {"nobody"} /\ call'[d].ids \subseteq Party
    BY <1>3 DEF CallType
  <2> QED BY <1>1, <1>5, <1>6, <2>1 DEF CreateOrder, IndInv, TypesOK, DealTypeOK
<1>8. TypesOK'
  BY <1>1, <1>2, <1>3, <1>7, Sides DEF IndInv, TypesOK
<1>9. RowsOK'
  <2>1. \A m, n \in orders' : m.row = n.row => m = n
    BY <1>4, <1>6 DEF IndInv, RowsOK
  <2>2. \A n \in orders' : n.row < nextRow'
    BY <1>4, <1>6 DEF IndInv, RowsOK, CreateOrder
  <2>3. ASSUME NEW d \in Call, Stage(d)' \in Unopened
        PROVE  d # c /\ Stage(d) \in Unopened /\ call'[d] = call[d]
    BY <1>3, <2>3 DEF Unopened
  <2>4. \A d \in Call : Stage(d)' \in Unopened =>
          /\ call'[d].row > 0 /\ call'[d].row < nextRow'
          /\ \A n \in orders' : n.row # call'[d].row
    BY <1>4, <1>6, <2>3 DEF IndInv, RowsOK, CreateOrder
  <2>5. \A d, e \in Call :
          Stage(d)' \in Unopened /\ Stage(e)' \in Unopened /\ call'[d].row = call'[e].row
            => d = e
    BY <2>3 DEF IndInv, RowsOK
  <2> QED BY <2>1, <2>2, <2>4, <2>5 DEF RowsOK
<1>10. Speaks(c, p)
  BY <1>1, <1>2, <1>3, <1>6 DEF Speaks, CreateOrder, Of
<1>11. ASSUME p \notin muddled'
       PROVE  FitAt(p, Stage(c), call[c].row)'
  <2>1. FitAt(p, "confirm", r)
    BY <1>1, <1>11, OwnFit DEF CreateOrder
  <2>2. /\ Room(p) >= 1 /\ \A x, y \in Of(standing, p) : x = y
        /\ \A x \in Of(standing, p) : x.row = r
    BY <2>1 DEF FitAt
  <2>3. Room(p)' >= 1
    <3>1. Room(p)' = Room(p) + left[p] - left'[p] /\ Room(p) \in Int
      BY <1>1, <1>8, <1>10, RoomSpoken DEF IndInv
    <3>2. left'[p] = left[p] /\ left[p] \in Nat
      BY <1>1 DEF CreateOrder, IndInv, TypesOK, DealTypeOK
    <3> QED BY <2>2, <3>1, <3>2
  <2>4. Room(p)' >= 0
    BY <2>3, <1>1, RoomSpoken, <1>8, <1>10 DEF IndInv, CreateOrder, TypesOK, DealTypeOK
  <2>5. Of(standing, p)' = Of(standing, p)
    BY DEF CreateOrder, Of
  <2>6. \A x \in Of(standing, p)' : Open(x.row, p)'
    BY <1>6, <2>2, <2>5 DEF Open
  <2> QED BY <1>3, <2>2, <2>3, <2>4, <2>5, <2>6 DEF FitAt, Unopened
<1>12. \A q \in Party \ muddled' : PartyOK(q)'
  BY <1>1, <1>8, <1>10, <1>11, SpeaksKeepsParties DEF IndInv
<1> QED BY <1>8, <1>9, <1>12 DEF IndInv

\* The chat is gone already: no order, and the response is rolled back.
LEMMA OrderRefused ==
  ASSUME IndInv, NEW c \in Call, CreateOrder(c), call[c].row \notin chats
  PROVE  IndInv'
<1> DEFINE p == call[c].by
<1>1. /\ call[c].todo \in ResponderScripts /\ p \in Party /\ By(c, p)
      /\ Stage(c) = "confirm" /\ First(call[c].todo) = "confirm"
  BY ReachedByResponder DEF IndInv, CreateOrder
<1>2. Turns(c, Restoring) /\ Restoring \in {<<>>} \cup ResponderScripts
  BY DEF CreateOrder, Rollback, Restoring, ResponderScripts
<1>3. Quiet(c, p, Restoring)
  BY <1>1, <1>2 DEF Quiet, CreateOrder, IndInv, TypesOK, DealTypeOK
<1>4. First(Restoring) = "restore"
  BY NextStatements
<1>5. Room(p) \in Int /\ left[p] \in Nat /\ left'[p] = left[p]
  BY <1>1, <1>3, QuietTypes DEF IndInv, TypesOK, DealTypeOK, CreateOrder
<1>6. FitAt(p, "confirm", call[c].row) =>
        Room(p) >= 1 /\ \A x \in Of(standing, p) : x.row = call[c].row
  BY DEF FitAt
<1> HIDE DEF p
<1> QED BY <1>1, <1>3, <1>4, <1>5, <1>6, SameTables DEF CreateOrder, Unopened

LEMMA OrderKeeps == ASSUME IndInv, NEW c \in Call, CreateOrder(c) PROVE IndInv'
BY OrderWritten, OrderRefused

-----------------------------------------------------------------------------
(* A call begins.                                                          *)

LEMMA BegunKeeps ==
  ASSUME IndInv, NEW c \in Call, NEW by \in Party \cup {"nobody"},
         NEW script \in ResponderScripts \cup OwnerScripts,
         NEW row \in 0 .. MaxOrder, Begins(c, by, script, row, "none"),
         by \in Party => script \in ResponderScripts,
         by = "nobody" => script \in OwnerScripts,
         UNCHANGED <<trade, offered, standing, orders, chats, nextRow, left, called, orphaned>>,
         First(script) \notin Unopened, script # LateIds3, script # Paying,
         by \in Party \ muddled /\ (\A d \in Call : ~ By(d, by)) =>
           FitAt(by, First(script), row)
  PROVE  IndInv'
<1>1. /\ ~ Busy(c) /\ call[c].todo = <<>> /\ DOMAIN call = Call
      /\ script # <<>>
  BY Sides DEF Begins, Busy, IndInv, TypesOK
<1> DEFINE begun == [todo |-> script, by |-> by, row |-> row, seen |-> "none", ids |-> {}]
<1>2. call'[c] = begun /\ \A d \in Call \ {c} : call'[d] = call[d]
  BY <1>1 DEF Begins
<1>3. begun \in CallType
  BY DEF CallType
<1>4. call' \in [Call -> CallType]
  BY <1>2, <1>3 DEF Begins, IndInv, TypesOK
<1>5. call'[c].todo = script /\ call'[c].by = by /\ call'[c].row = row
  BY <1>2
<1> HIDE DEF begun
<1>6. muddled \subseteq muddled' /\ muddled' \subseteq Party
  BY DEF Begins, IndInv, TypesOK, DealTypeOK
<1>7. TypesOK'
  <2>1. \A d \in Call : call'[d].by \in Party \cup {"nobody"} /\ call'[d].ids \subseteq Party
    BY <1>4 DEF CallType
  <2>2. DealTypeOK'
    BY <1>6, <2>1 DEF IndInv, TypesOK, DealTypeOK
  <2>3. ASSUME NEW d \in Call
        PROVE  /\ call'[d].todo \in ResponderScripts => call'[d].by \in Party
               /\ call'[d].todo \in OwnerScripts => call'[d].by = "nobody"
    BY <1>2, <1>5, Sides DEF IndInv, TypesOK
  <2> QED BY <1>4, <2>2, <2>3 DEF TypesOK
<1>8. /\ Stage(c)' = First(script)
      /\ \A d \in Call \ {c} : Stage(d)' = Stage(d)
  BY <1>1, <1>2, <1>5 DEF Stage, Busy, First
<1>9. RowsOK'
  <2>1. \A d \in Call : Stage(d)' \in Unopened =>
          d # c /\ Stage(d) \in Unopened /\ call'[d] = call[d]
    BY <1>2, <1>8
  <2> QED BY <2>1 DEF IndInv, RowsOK
<1>10. ASSUME NEW q \in Party
       PROVE  Room(q)' >= Room(q) /\ Room(q) \in Int /\ Room(q)' \in Int
  <2>1. Due(q)' \subseteq Due(q)
    BY <1>2, <1>5 DEF Due
  <2>2. Room(q)' >= Room(q)
    BY <1>7, <2>1, RoomKept DEF IndInv
  <2> QED BY <1>7, <2>2, RoomIsInt, RoomIsIntAfter DEF IndInv
<1>11. ASSUME NEW q \in Party \ muddled'
       PROVE  PartyOK(q)'
  <2>1. PartyOK(q)
    BY <1>6 DEF IndInv
  <2>2. CASE q # by
    <3>1. \A d \in Call : By(d, q)' <=> By(d, q)
      BY <1>1, <1>2, <1>5, <2>2 DEF By, Busy
    <3>2. \A d \in Call : By(d, q) => Stage(d)' = Stage(d) /\ call'[d].row = call[d].row
      BY <1>1, <1>2, <1>8 DEF By
    <3>3. Of(standing, q)' \subseteq Of(standing, q)
      BY DEF Of
    <3>4. \A r : Open(r, q) => Open(r, q)'
      BY DEF Open
    <3> QED BY <1>7, <1>10, <2>1, <3>1, <3>2, <3>3, <3>4, OthersKept DEF IndInv
  <2>3. CASE q = by
    <3>1. \A d \in Call : ~ By(d, q)
      BY <2>3 DEF Begins, By
    <3>2. FitAt(q, First(script), row)
      BY <1>6, <2>3, <3>1
    <3>3. \A d \in Call : By(d, q)' => d = c
      BY <1>2, <3>1 DEF By, Busy
    <3>4. Of(standing, q)' \subseteq Of(standing, q)
      BY DEF Of
    <3>5. FitAt(q, First(script), row)'
      <4>1. \A r : Open(r, q) => Open(r, q)'
        BY DEF Open
      <4> QED BY <1>10, <3>2, <3>4, <4>1, FitKept
    <3>6. By(c, q)'
      BY <1>1, <1>5, <2>3 DEF By, Busy
    <3>7. \A d \in Call : By(d, q)' => FitAt(q, Stage(d), call[d].row)'
      BY <1>5, <1>8, <3>3, <3>5
    <3> QED BY <3>3, <3>6, <3>7 DEF PartyOK
  <2> QED BY <2>2, <2>3
<1> QED BY <1>7, <1>9, <1>11 DEF IndInv

\* No call of p's is in flight: it fits the idle stage.
LEMMA IdleFit ==
  ASSUME IndInv, NEW p \in Party \ muddled, \A d \in Call : ~ By(d, p)
  PROVE  FitAt(p, "idle", 0)
BY DEF IndInv, PartyOK

LEMMA RespondKeeps ==
  ASSUME IndInv, NEW c \in Call, NEW p \in Party, Respond(c, p)
  PROVE  IndInv'
<1> DEFINE script == Responding
<1>1. trade \in Performers \cup Clients
  BY DEF IndInv, TypesOK, DealTypeOK
<1>2. script \in {Opening, CheckedOpening}
  BY <1>1 DEF Responding, ByTrade, Performers, Clients, CreateServiceResponse,
     CreateWorkResponse, CreateRentResponse, CreateAdResponse, CreateWorkAdResponse,
     CreateRentAdResponse
<1>3. Begins(c, p, script, 0, "none")
  BY DEF Respond
<1> HIDE DEF script
<1>4. script \in ResponderScripts /\ First(script) \in {"balance", "count"}
  BY <1>2, NextStatements DEF ResponderScripts
<1>5. FitAt(p, "idle", 0) => FitAt(p, First(script), 0)
  BY <1>4 DEF FitAt, Unopened
<1>6. First(script) \notin Unopened /\ script # LateIds3 /\ script # Paying
  BY <1>4, Sides DEF Unopened
<1>7. 0 \in 0 .. MaxOrder /\ p # "nobody" /\ p \in Party \cup {"nobody"}
      /\ script \in ResponderScripts \cup OwnerScripts
  BY <1>4, DealAssumption
<1> QED BY <1>3, <1>4, <1>5, <1>6, <1>7, IdleFit, BegunKeeps DEF Respond

LEMMA WithdrawKeeps ==
  ASSUME IndInv, NEW c \in Call, NEW p \in Party, Withdraw(c, p)
  PROVE  IndInv'
<1> DEFINE script == Withdrawing
<1>1. trade \in Performers \cup Clients /\ standing \subseteq [row : 1 .. MaxOrder, by : Party]
  BY DEF IndInv, TypesOK, DealTypeOK
<1>2. script = Removing
  BY <1>1 DEF Withdrawing, ByTrade, Performers, Clients, CancelServiceResponse,
     CancelWorkResponse, CancelRentResponse, CancelAdResponse, CancelWorkAdResponse,
     CancelRentAdResponse, Removing
<1>3. PICK x \in Of(standing, p) : Begins(c, p, script, x.row, "none")
  BY DEF Withdraw
<1> HIDE DEF script
<1>4. script \in ResponderScripts /\ First(script) = "remove"
  BY <1>2, NextStatements DEF ResponderScripts
<1>5. x.row \in 0 .. MaxOrder
  <2>1. x.row \in 1 .. MaxOrder
    BY <1>1 DEF Of
  <2> QED BY <2>1, DealAssumption
<1>6. FitAt(p, "idle", 0) => FitAt(p, First(script), x.row)
  BY <1>4 DEF FitAt, Unopened
<1>7. First(script) \notin Unopened /\ script # LateIds3 /\ script # Paying
  BY <1>4, Sides DEF Unopened
<1>8. /\ p # "nobody" /\ p \in Party \cup {"nobody"}
      /\ script \in ResponderScripts \cup OwnerScripts
  BY <1>4, DealAssumption
<1> QED BY <1>3, <1>4, <1>5, <1>6, <1>7, <1>8, IdleFit, BegunKeeps DEF Withdraw

LEMMA CallOffKeeps == ASSUME IndInv, NEW c \in Call, CallOff(c) PROVE IndInv'
<1> DEFINE script == CallingOff
<1>1. trade \in Performers \cup Clients
  BY DEF IndInv, TypesOK, DealTypeOK
<1>2. script \in {OnlyCancel, EarlyIds, LateIds}
  BY <1>1 DEF CallingOff, ByTrade, Performers, Clients, CancelService, CancelWork,
     CancelRent, CancelAd, CancelWorkAd, CancelRentAd, OnlyCancel, EarlyIds, LateIds
<1>3. Begins(c, "nobody", script, 0, "none")
  BY DEF CallOff
<1> HIDE DEF script
<1>4. script \in OwnerScripts /\ First(script) \in {"status", "cancel"}
  BY <1>2, OwnerStatements DEF OwnerScripts
<1>5. First(script) \notin Unopened /\ script # LateIds3 /\ script # Paying
  BY <1>4, OwnerStatements DEF Unopened
<1>6. /\ 0 \in 0 .. MaxOrder /\ "nobody" \in Party \cup {"nobody"} /\ "nobody" \notin Party
      /\ script \in ResponderScripts \cup OwnerScripts
  BY <1>4, DealAssumption
<1> QED BY <1>3, <1>4, <1>5, <1>6, BegunKeeps DEF CallOff

-----------------------------------------------------------------------------
(* The owner's statements, confirmations and the end of a job.             *)

LEMMA PartiesKept ==
  ASSUME IndInv, TypesOK', RowsOK', muddled' = muddled, standing' \subseteq standing,
         \A d \in Call, q \in Party :
           /\ By(d, q)' <=> By(d, q)
           /\ By(d, q) => Stage(d)' = Stage(d) /\ call'[d].row = call[d].row,
         \A q \in Party : Room(q)' >= Room(q),
         called' = 0 => called = 0 /\ \A r, q : Open(r, q) => Open(r, q)'
  PROVE  IndInv'
<1>1. ASSUME NEW q \in Party \ muddled'
      PROVE  PartyOK(q)'
  <2>1. PartyOK(q) /\ TypesOK
    BY DEF IndInv
  <2>2. Of(standing, q)' \subseteq Of(standing, q)
    BY DEF Of
  <2>3. called' = 0 => called = 0 /\ \A r : Open(r, q) => Open(r, q)'
    OBVIOUS
  <2> QED BY <2>1, <2>2, <2>3, OthersKept
<1> QED BY <1>1 DEF IndInv

LEMMA OwnerTurn ==
  ASSUME IndInv, NEW c \in Call, call[c].todo \in OwnerScripts,
         call' \in [Call -> CallType], \A d \in Call \ {c} : call'[d] = call[d],
         call'[c].by = "nobody", call'[c].todo \in {<<>>} \cup OwnerScripts
  PROVE  /\ \A d \in Call :
              /\ call'[d].todo \in ResponderScripts => call'[d].by \in Party
              /\ call'[d].todo \in OwnerScripts => call'[d].by = "nobody"
         /\ \A d \in Call : call'[d].by \in Party \cup {"nobody"} /\ call'[d].ids \subseteq Party
         /\ \A d \in Call, q \in Party :
              /\ By(d, q)' <=> By(d, q)
              /\ By(d, q) => Stage(d)' = Stage(d) /\ call'[d].row = call[d].row
         /\ \A d \in Call : Stage(d)' \in Unopened =>
              Stage(d) \in Unopened /\ call'[d].row = call[d].row
<1>1. call[c].by = "nobody" /\ call'[c].todo \notin ResponderScripts
  BY Sides DEF IndInv, TypesOK
<1>2. \A d \in Call :
        /\ call'[d].todo \in ResponderScripts => call'[d].by \in Party
        /\ call'[d].todo \in OwnerScripts => call'[d].by = "nobody"
  BY <1>1 DEF IndInv, TypesOK
<1>3. \A d \in Call : call'[d].by \in Party \cup {"nobody"} /\ call'[d].ids \subseteq Party
  BY DEF CallType
<1>4. ASSUME NEW d \in Call, NEW q \in Party
      PROVE  /\ By(d, q)' <=> By(d, q)
             /\ By(d, q) => Stage(d)' = Stage(d) /\ call'[d].row = call[d].row
  <2>1. CASE d = c
    BY <1>1, <2>1, DealAssumption DEF By
  <2>2. CASE d # c
    BY <2>2 DEF By, Stage, Busy
  <2> QED BY <2>1, <2>2
<1>5. Stage(c)' \notin Unopened
  <2>1. CASE call'[c].todo = <<>>
    BY <2>1 DEF Stage, Busy, Unopened
  <2>2. CASE call'[c].todo \in OwnerScripts
    <3>1. Stage(c)' = First(call'[c].todo)
      BY DEF Stage, Busy, First
    <3> QED BY <2>2, <3>1, OwnerHeads DEF Unopened
  <2> QED BY <2>1, <2>2
<1>6. \A d \in Call : Stage(d)' \in Unopened =>
        Stage(d) \in Unopened /\ call'[d].row = call[d].row
  BY <1>5 DEF Stage, Busy
<1> QED BY <1>2, <1>3, <1>4, <1>6

\* An owner's statement that gives nothing back and calls nothing off.
LEMMA OwnerQuiet ==
  ASSUME IndInv, NEW c \in Call, call[c].todo \in OwnerScripts,
         call' \in [Call -> CallType], \A d \in Call \ {c} : call'[d] = call[d],
         call'[c].by = "nobody", call'[c].todo \in {<<>>} \cup OwnerScripts,
         UNCHANGED <<trade, offered, standing, orders, chats, nextRow, left, called, orphaned,
                     muddled>>,
         \A q \in Party : c \in Due(q)' => c \in Due(q)
  PROVE  IndInv'
<1>1. /\ \A d \in Call :
           /\ call'[d].todo \in ResponderScripts => call'[d].by \in Party
           /\ call'[d].todo \in OwnerScripts => call'[d].by = "nobody"
      /\ \A d \in Call : call'[d].by \in Party \cup {"nobody"} /\ call'[d].ids \subseteq Party
      /\ \A d \in Call, q \in Party :
           /\ By(d, q)' <=> By(d, q)
           /\ By(d, q) => Stage(d)' = Stage(d) /\ call'[d].row = call[d].row
      /\ \A d \in Call : Stage(d)' \in Unopened =>
           Stage(d) \in Unopened /\ call'[d].row = call[d].row
  BY OwnerTurn
<1>2. TypesOK'
  BY <1>1 DEF IndInv, TypesOK, DealTypeOK
<1>3. RowsOK'
  BY <1>1 DEF IndInv, RowsOK
<1>4. ASSUME NEW q \in Party
      PROVE  Room(q)' >= Room(q)
  <2>1. Due(q)' \subseteq Due(q)
    BY DEF Due
  <2> QED BY <1>2, <2>1, RoomKept DEF IndInv
<1>5. \A r, q : Open(r, q) => Open(r, q)'
  BY DEF Open
<1> QED BY <1>1, <1>2, <1>3, <1>4, <1>5, PartiesKept

LEMMA StatusKeeps ==
  ASSUME IndInv, NEW c \in Call, GetStatus(c), NEW s, s = Tail(call[c].todo)
  PROVE  IndInv'
<1>1. /\ call[c].todo \in OwnerScripts /\ call[c].by = "nobody"
      /\ First(call[c].todo) = "status"
  BY ReachedByOwner DEF GetStatus, IndInv
<1>2. s \in {<<>>} \cup OwnerScripts /\ s # Paying /\ s # LateIds3
  BY <1>1, OwnerHeads, Sides
<1>3. call \in [Call -> CallType] /\ call[c] \in CallType
  BY DEF IndInv, TypesOK
<1>4. /\ call'[c] = [call[c] EXCEPT !.seen = offered, !.todo = s]
      /\ \A d \in Call \ {c} : call'[d] = call[d]
  BY <1>3 DEF GetStatus
<1>5. /\ offered \in {"none", "active", "archive", "in_progress", "done"}
      /\ s \in Scripts
  BY <1>2 DEF IndInv, TypesOK, DealTypeOK, Scripts
<1>8. call'[c] \in CallType /\ call'[c].by = "nobody" /\ call'[c].todo = s
  <2> DEFINE r == call[c]
  <2> DEFINE n == call'[c]
  <2>1. r \in CallType /\ n = [r EXCEPT !.seen = offered, !.todo = s]
    BY <1>3, <1>4
  <2>2. r.by = "nobody"
    BY <1>1
  <2> HIDE DEF r, n
  <2>3. n \in CallType /\ n.by = r.by /\ n.todo = s
    BY <1>5, <2>1 DEF CallType, Scripts
  <2> QED BY <2>2, <2>3 DEF n
<1>9. call' \in [Call -> CallType]
  BY <1>3, <1>4, <1>8 DEF GetStatus
<1>10. call'[c].by = "nobody" /\ call'[c].todo = s
  BY <1>8
<1>11. \A q \in Party : c \notin Due(q)'
  BY <1>2, <1>10 DEF Due
<1> QED BY <1>1, <1>2, <1>4, <1>9, <1>10, <1>11, OwnerQuiet DEF GetStatus

LEMMA PerformersKeep ==
  ASSUME IndInv, NEW c \in Call, GetPerformerIDs(c), NEW s, s = Tail(call[c].todo)
  PROVE  IndInv'
<1>1. /\ call[c].todo \in OwnerScripts /\ call[c].by = "nobody"
      /\ First(call[c].todo) = "ids"
  BY ReachedByOwner DEF GetPerformerIDs, IndInv
<1>2. s \in {<<>>} \cup OwnerScripts /\ s # LateIds3
      /\ (s = Paying => call[c].todo = LateIds3)
  BY <1>1, OwnerHeads, Sides
<1>3. call \in [Call -> CallType] /\ call[c] \in CallType
  BY DEF IndInv, TypesOK
<1> DEFINE ids == IF call[c].seen = "active" THEN {o.by : o \in orders} ELSE {}
<1>4. /\ call'[c] = [call[c] EXCEPT !.todo = s, !.ids = ids]
      /\ \A d \in Call \ {c} : call'[d] = call[d]
  BY <1>3 DEF GetPerformerIDs
<1>5. ids \in SUBSET Party
  BY DEF IndInv, TypesOK, DealTypeOK
<1> HIDE DEF ids
<1>9. call'[c] \in CallType /\ call'[c].by = "nobody" /\ call'[c].todo = s
  <2> DEFINE r == call[c]
  <2> DEFINE n == call'[c]
  <2>1. r \in CallType /\ n = [r EXCEPT !.todo = s, !.ids = ids]
    BY <1>3, <1>4
  <2>2. r.by = "nobody" /\ s \in Scripts
    BY <1>1, <1>2 DEF Scripts
  <2> HIDE DEF r, n
  <2>3. n \in CallType /\ n.by = r.by /\ n.todo = s
    BY <1>5, <2>1, <2>2 DEF CallType, Scripts
  <2> QED BY <2>2, <2>3 DEF n
<1>10. call' \in [Call -> CallType]
  BY <1>3, <1>4, <1>9 DEF GetPerformerIDs
<1>11. call'[c].by = "nobody" /\ call'[c].todo = s
  BY <1>9
<1>12. \A q \in Party : c \in Due(q)' => c \in Due(q)
  BY <1>2, <1>11 DEF Due
<1> QED BY <1>1, <1>2, <1>4, <1>10, <1>11, <1>12, OwnerQuiet DEF GetPerformerIDs

LEMMA OwnerFails ==
  ASSUME IndInv, NEW c \in Call, Fails(c), call[c].todo \in OwnerScripts
  PROVE  IndInv'
<1>1. call[c].by = "nobody" /\ First(call[c].todo) = Head(call[c].todo)
  BY OwnerHeads DEF IndInv, TypesOK
<1>2. AfterFailure(c) = <<>>
  BY <1>1, OwnerHeads DEF AfterFailure
<1>3. Turns(c, <<>>) /\ <<>> \in Scripts
  BY <1>2 DEF Fails, Scripts
<1>4. /\ call' \in [Call -> CallType] /\ \A d \in Call \ {c} : call'[d] = call[d]
      /\ call'[c].by = "nobody" /\ call'[c].todo = <<>>
  BY <1>1, <1>3, TurnedCalls DEF IndInv
<1>5. \A q \in Party : c \notin Due(q)'
  BY <1>4, Sides DEF Due
<1>6. muddled' = muddled
  BY <1>1, DealAssumption DEF Fails
<1> QED BY <1>4, <1>5, <1>6, OwnerQuiet DEF Fails

\* The transaction takes every order of the listing.
LEMMA CalledOffAll == ASSUME TypesOK, NEW o PROVE CalledOff(o) = {}
<1> DEFINE archived == {[x EXCEPT !.confirmed = FALSE, !.status = "archived"] :
                          x \in Of(orders, o.by)}
<1>1. ASSUME NEW x \in (orders \ Of(orders, o.by)) \cup archived
      PROVE  x.row \in {y.row : y \in orders}
  <2>0. orders \subseteq [row : 1 .. MaxOrder, by : Party, confirmed : BOOLEAN,
                         status : {"active", "in_progress", "done", "archived"}]
    BY DEF TypesOK, DealTypeOK
  <2>1. CASE x \in orders
    BY <2>1
  <2>2. CASE x \in archived
    <3>1. PICK y \in Of(orders, o.by) :
            x = [y EXCEPT !.confirmed = FALSE, !.status = "archived"]
      BY <2>2
    <3>2. x.row = y.row /\ y \in orders
      BY <2>0, <3>1 DEF Of
    <3> QED BY <3>2
  <2> QED BY <1>1, <2>1, <2>2
<1> QED BY <1>1 DEF CalledOff, Without

LEMMA CancelKeeps ==
  ASSUME IndInv, NEW c \in Call, Cancel(c), NEW s, s = Tail(call[c].todo)
  PROVE  IndInv'
<1>1. /\ call[c].todo \in OwnerScripts /\ call[c].by = "nobody"
      /\ First(call[c].todo) = "cancel"
  BY ReachedByOwner DEF Cancel, IndInv
<1>2. s \in {<<>>} \cup OwnerScripts /\ s \in Scripts
  BY <1>1, OwnerHeads DEF Scripts
<1>3. /\ call' \in [Call -> CallType] /\ \A d \in Call \ {c} : call'[d] = call[d]
      /\ call'[c].by = "nobody" /\ call'[c].todo = s
  BY <1>1, <1>2, TurnedCalls DEF Cancel, Proceeds, IndInv
<1>4. /\ \A d \in Call :
           /\ call'[d].todo \in ResponderScripts => call'[d].by \in Party
           /\ call'[d].todo \in OwnerScripts => call'[d].by = "nobody"
      /\ \A d \in Call : call'[d].by \in Party \cup {"nobody"} /\ call'[d].ids \subseteq Party
      /\ \A d \in Call, q \in Party :
           /\ By(d, q)' <=> By(d, q)
           /\ By(d, q) => Stage(d)' = Stage(d) /\ call'[d].row = call[d].row
      /\ \A d \in Call : Stage(d)' \in Unopened =>
           Stage(d) \in Unopened /\ call'[d].row = call[d].row
  BY <1>1, <1>2, <1>3, OwnerTurn
<1>5. orders' = {}
  BY CalledOffAll DEF Cancel, IndInv
<1>6. called' = called + 1 /\ called \in Nat
  BY DEF Cancel, IndInv, TypesOK, DealTypeOK
<1>7. TypesOK'
  <2>1. chats' \subseteq 1 .. MaxOrder
    BY DEF Cancel, IndInv, TypesOK, DealTypeOK
  <2>2. offered' \in {"active", "archive", "in_progress", "done"}
    BY DEF Cancel, IndInv, TypesOK, DealTypeOK
  <2> QED BY <1>3, <1>4, <1>5, <1>6, <2>1, <2>2 DEF Cancel, IndInv, TypesOK, DealTypeOK
<1>8. RowsOK'
  BY <1>4, <1>5 DEF Cancel, IndInv, RowsOK
<1>9. ASSUME NEW q \in Party
      PROVE  Room(q)' >= Room(q)
  <2>1. Due(q) \in SUBSET Call /\ Due(q)' \in SUBSET (Due(q) \cup {c})
    BY <1>3 DEF Due
  <2>2. IsFiniteSet(Due(q)) /\ Cardinality(Due(q)) \in Nat
    BY <2>1, CallsFinite
  <2>3. Cardinality(Due(q) \cup {c}) <= Cardinality(Due(q)) + 1
    BY <2>1, OneCallMore
  <2>4. Due(q) \cup {c} \in SUBSET Call
    BY <2>1
  <2>5. /\ Cardinality(Due(q)') \in Nat /\ Cardinality(Due(q) \cup {c}) \in Nat
        /\ Cardinality(Due(q)') <= Cardinality(Due(q) \cup {c})
    BY <2>1, <2>4, CallsFinite
  <2>6. left'[q] = left[q] /\ left[q] \in Nat
    BY DEF Cancel, IndInv, TypesOK, DealTypeOK
  <2> QED BY <1>6, <2>2, <2>3, <2>5, <2>6, DealAssumption DEF Room
<1>10. called' # 0
  BY <1>6
<1> QED BY <1>4, <1>7, <1>8, <1>9, <1>10, PartiesKept DEF Cancel

LEMMA RefundAllKeeps == ASSUME IndInv, NEW c \in Call, RefundAll(c) PROVE IndInv'
<1>1. /\ call[c].todo = Paying /\ call[c].todo \in OwnerScripts /\ call[c].by = "nobody"
      /\ call \in [Call -> CallType] /\ call[c] \in CallType
  BY ReachedByOwner, OwnerHeads DEF RefundAll, IndInv, TypesOK
<1>2. CASE call[c].ids = {} /\ Stops(c) /\ UNCHANGED left
  <2>1. Turns(c, <<>>) /\ <<>> \in Scripts
    BY <1>2 DEF Stops, Scripts
  <2>2. /\ call' \in [Call -> CallType] /\ \A d \in Call \ {c} : call'[d] = call[d]
        /\ call'[c].by = "nobody" /\ call'[c].todo = <<>>
    BY <1>1, <2>1, TurnedCalls DEF IndInv
  <2>3. \A q \in Party : c \notin Due(q)'
    BY <2>2, Sides DEF Due
  <2> QED BY <1>1, <1>2, <2>2, <2>3, OwnerQuiet DEF RefundAll
<1>3. ASSUME NEW p \in call[c].ids, left' = [left EXCEPT ![p] = left[p] + 1],
             call' = [call EXCEPT ![c].ids = call[c].ids \ {p}]
      PROVE  IndInv'
  <2>1. /\ call'[c] = [call[c] EXCEPT !.ids = call[c].ids \ {p}]
        /\ \A d \in Call \ {c} : call'[d] = call[d]
    BY <1>1, <1>3
  <2>2. /\ call'[c] \in CallType /\ call'[c].by = "nobody" /\ call'[c].todo = Paying
        /\ call'[c].ids = call[c].ids \ {p} /\ call[c].ids \in SUBSET Party
    BY <1>1, <2>1 DEF CallType
  <2>3. call' \in [Call -> CallType]
    BY <1>1, <1>3, <2>1, <2>2
  <2>4. /\ \A d \in Call :
             /\ call'[d].todo \in ResponderScripts => call'[d].by \in Party
             /\ call'[d].todo \in OwnerScripts => call'[d].by = "nobody"
        /\ \A d \in Call : call'[d].by \in Party \cup {"nobody"} /\ call'[d].ids \subseteq Party
        /\ \A d \in Call, q \in Party :
             /\ By(d, q)' <=> By(d, q)
             /\ By(d, q) => Stage(d)' = Stage(d) /\ call'[d].row = call[d].row
        /\ \A d \in Call : Stage(d)' \in Unopened =>
             Stage(d) \in Unopened /\ call'[d].row = call[d].row
    BY <1>1, <2>1, <2>2, <2>3, OwnerTurn
  <2>5. /\ left \in [Party -> Nat] /\ left' \in [Party -> Nat] /\ p \in Party
        /\ left'[p] = left[p] + 1 /\ \A q \in Party \ {p} : left'[q] = left[q]
    BY <1>3, <2>2 DEF IndInv, TypesOK, DealTypeOK
  <2>6. TypesOK'
    BY <2>3, <2>4, <2>5 DEF RefundAll, IndInv, TypesOK, DealTypeOK
  <2>7. RowsOK'
    BY <2>4 DEF RefundAll, IndInv, RowsOK
  <2>8. ASSUME NEW q \in Party
        PROVE  Room(q)' >= Room(q)
    <3>1. CASE q # p
      <4>1. Due(q)' \subseteq Due(q)
        BY <1>1, <2>1, <2>2, <3>1 DEF Due
      <4> QED BY <2>5, <2>6, <3>1, <4>1, RoomKept DEF IndInv, RefundAll
    <3>2. CASE q = p
      <4>1. Due(q)' = Due(q) \ {c} /\ c \in Due(q) /\ Due(q) \in SUBSET Call
        <5>1. Paying # LateIds3
          BY OwnerStatements
        <5>2. c \in Due(q) /\ c \notin Due(q)'
          BY <1>1, <1>3, <2>2, <3>2, <5>1 DEF Due
        <5>3. \A d \in Call \ {c} : d \in Due(q)' <=> d \in Due(q)
          BY <2>1 DEF Due
        <5> QED BY <5>2, <5>3 DEF Due
      <4>2. IsFiniteSet(Due(q)) /\ Cardinality(Due(q)) \in Nat
        BY <4>1, CallsFinite
      <4>3. Cardinality(Due(q)') = Cardinality(Due(q)) - 1
        BY <4>1, <4>2, FS_RemoveElement
      <4>4. called' = called /\ called \in Nat /\ left[q] \in Nat /\ left'[q] = left[q] + 1
        BY <2>5, <3>2 DEF RefundAll, IndInv, TypesOK, DealTypeOK
      <4> QED BY <4>2, <4>3, <4>4, DealAssumption DEF Room
    <3> QED BY <3>1, <3>2
  <2>9. called' = 0 => called = 0 /\ \A r, q : Open(r, q) => Open(r, q)'
    BY DEF RefundAll, Open
  <2> QED BY <2>4, <2>6, <2>7, <2>8, <2>9, PartiesKept DEF RefundAll
<1> QED BY <1>2, <1>3 DEF RefundAll

OrderType == [row : 1 .. MaxOrder, by : Party, confirmed : BOOLEAN,
              status : {"active", "in_progress", "done", "archived"}]

\* The rows and their parties stay; calls and balances are not touched.
LEMMA RowsKept ==
  ASSUME IndInv, UNCHANGED <<trade, chats, nextRow, left, call, called, orphaned, muddled>>,
         offered' \in {"active", "archive", "in_progress", "done"},
         standing' \subseteq standing, orders' \subseteq OrderType,
         \A m \in orders' : \E x \in orders : x.row = m.row /\ x.by = m.by,
         \A m, n \in orders' : m.row = n.row => m = n,
         \A o \in orders : \E n \in orders' : n.row = o.row /\ n.by = o.by
  PROVE  IndInv'
<1>1. TypesOK'
  BY DEF IndInv, TypesOK, DealTypeOK, OrderType
<1>2. \A d \in Call, q \in Party :
        /\ By(d, q)' <=> By(d, q)
        /\ By(d, q) => Stage(d)' = Stage(d) /\ call'[d].row = call[d].row
  BY DEF By, Stage, Busy
<1>3. RowsOK'
  <2>1. \A d \in Call : Stage(d)' = Stage(d)
    BY DEF Stage, Busy
  <2> QED BY <2>1 DEF IndInv, RowsOK
<1>4. ASSUME NEW q \in Party
      PROVE  Room(q)' >= Room(q)
  <2>1. Due(q)' \subseteq Due(q)
    BY DEF Due
  <2> QED BY <1>1, <2>1, RoomKept DEF IndInv
<1>5. \A r, q : Open(r, q) => Open(r, q)'
  BY DEF Open
<1> QED BY <1>1, <1>2, <1>3, <1>4, <1>5, PartiesKept

LEMMA AcceptedOrders ==
  ASSUME TypesOK, NEW o
  PROVE  Accepted(o) \subseteq orders /\ (trade # "rent" => Accepted(o) = Of(orders, o.by))
<1>1. trade \in Performers \cup Clients
  BY DEF TypesOK, DealTypeOK
<1>2. Accepted(o) = orders \/ Accepted(o) = Of(orders, o.by)
  BY <1>1 DEF Accepted, ByTrade, Performers, Clients, ConfirmService, ConfirmWork,
     ConfirmRent, ConfirmAd, ConfirmWorkAd, ConfirmRentAd
<1>3. trade # "rent" => Accepted(o) = Of(orders, o.by)
  BY <1>1 DEF Accepted, ByTrade, Performers, Clients, ConfirmService, ConfirmWork,
     ConfirmRent, ConfirmAd, ConfirmWorkAd, ConfirmRentAd
<1>4. Of(orders, o.by) \subseteq orders
  BY DEF Of
<1> QED BY <1>2, <1>3, <1>4

LEMMA ConfirmedRows ==
  ASSUME TypesOK, NEW o
  PROVE  /\ Confirmed(o) \subseteq OrderType
         /\ \A m \in Confirmed(o) :
              \E x \in orders :
                /\ x.row = m.row /\ x.by = m.by
                /\ IF x \in Accepted(o)
                     THEN m = [x EXCEPT !.confirmed = TRUE, !.status = "in_progress"]
                     ELSE m = x
         /\ \A x \in orders : \E n \in Confirmed(o) : n.row = x.row /\ n.by = x.by
<1>1. Accepted(o) \subseteq orders /\ orders \subseteq OrderType
  BY AcceptedOrders DEF TypesOK, DealTypeOK, OrderType
<1> DEFINE Now(x) == [x EXCEPT !.confirmed = TRUE, !.status = "in_progress"]
<1>2. ASSUME NEW x \in OrderType
      PROVE  Now(x) \in OrderType /\ Now(x).row = x.row /\ Now(x).by = x.by
  BY DEF OrderType
<1>3. Confirmed(o) = (orders \ Accepted(o)) \cup {Now(x) : x \in Accepted(o)}
  BY DEF Confirmed
<1> HIDE DEF Now
<1>4. Confirmed(o) \subseteq OrderType
  BY <1>1, <1>2, <1>3
<1>5. ASSUME NEW m \in Confirmed(o)
      PROVE  \E x \in orders : /\ x.row = m.row /\ x.by = m.by
                               /\ IF x \in Accepted(o) THEN m = Now(x) ELSE m = x
  <2>1. CASE m \in orders \ Accepted(o)
    BY <2>1
  <2>2. CASE m \in {Now(x) : x \in Accepted(o)}
    <3>1. PICK x \in Accepted(o) : m = Now(x)
      BY <2>2
    <3> QED BY <1>1, <1>2, <3>1
  <2> QED BY <1>3, <2>1, <2>2
<1>6. ASSUME NEW x \in orders
      PROVE  \E n \in Confirmed(o) : n.row = x.row /\ n.by = x.by
  <2>1. CASE x \in Accepted(o)
    <3>1. Now(x) \in Confirmed(o)
      BY <1>3, <2>1
    <3> QED BY <1>1, <1>2, <3>1
  <2>2. CASE x \notin Accepted(o)
    BY <1>3, <2>2
  <2> QED BY <2>1, <2>2
<1> QED BY <1>4, <1>5, <1>6 DEF Now

LEMMA ConfirmKeeps ==
  ASSUME IndInv, NEW o \in orders, Confirm(o)
  PROVE  IndInv'
<1>1. orders' = Confirmed(o)
  BY DEF Confirm
<1>2. \A m, n \in orders' : m.row = n.row => m = n
  <2> SUFFICES ASSUME NEW m \in Confirmed(o), NEW n \in Confirmed(o), m.row = n.row
               PROVE  m = n
    BY <1>1
  <2>1. PICK x \in orders :
          /\ x.row = m.row
          /\ IF x \in Accepted(o)
               THEN m = [x EXCEPT !.confirmed = TRUE, !.status = "in_progress"]
               ELSE m = x
    BY ConfirmedRows DEF IndInv
  <2>2. PICK y \in orders :
          /\ y.row = n.row
          /\ IF y \in Accepted(o)
               THEN n = [y EXCEPT !.confirmed = TRUE, !.status = "in_progress"]
               ELSE n = y
    BY ConfirmedRows DEF IndInv
  <2>3. x = y
    BY <2>1, <2>2 DEF IndInv, RowsOK
  <2> QED BY <2>1, <2>2, <2>3
<1>3. standing' \subseteq standing
  BY DEF Confirm, Of
<1>4. offered' \in {"active", "archive", "in_progress", "done"}
  BY DEF Confirm, IndInv, TypesOK, DealTypeOK
<1>5. orders' \subseteq OrderType
  BY <1>1, ConfirmedRows DEF IndInv
<1>6. \A m \in orders' : \E x \in orders : x.row = m.row /\ x.by = m.by
  BY <1>1, ConfirmedRows DEF IndInv
<1>7. \A x \in orders : \E n \in orders' : n.row = x.row /\ n.by = x.by
  BY <1>1, ConfirmedRows DEF IndInv
<1>8. UNCHANGED <<trade, chats, nextRow, left, call, called, orphaned, muddled>>
  BY DEF Confirm
<1> QED BY <1>2, <1>3, <1>4, <1>5, <1>6, <1>7, <1>8, RowsKept

LEMMA DoneKeeps == ASSUME IndInv, Done PROVE IndInv'
<1>1. orders \subseteq OrderType
  BY DEF IndInv, TypesOK, DealTypeOK, OrderType
<1>2. ASSUME NEW o \in OrderType
      PROVE  Ended(o) \in OrderType /\ Ended(o).row = o.row /\ Ended(o).by = o.by
  BY DEF Ended, OrderType
<1>3. orders' = {Ended(o) : o \in orders}
  BY DEF Done
<1>4. orders' \subseteq OrderType
  BY <1>1, <1>2, <1>3
<1>5. \A m \in orders' : \E x \in orders : x.row = m.row /\ x.by = m.by
  BY <1>1, <1>2, <1>3
<1>6. \A x \in orders : \E n \in orders' : n.row = x.row /\ n.by = x.by
  BY <1>1, <1>2, <1>3
<1>7. ASSUME NEW m \in orders', NEW n \in orders', m.row = n.row
      PROVE  m = n
  <2>1. PICK x \in orders : m = Ended(x)
    BY <1>3
  <2>2. PICK y \in orders : n = Ended(y)
    BY <1>3
  <2>3. x = y
    BY <1>1, <1>2, <1>7, <2>1, <2>2 DEF IndInv, RowsOK
  <2> QED BY <2>1, <2>2, <2>3
<1>8. offered' \in {"active", "archive", "in_progress", "done"}
  BY DEF Done, IndInv, TypesOK, DealTypeOK
<1> QED BY <1>4, <1>5, <1>6, <1>7, <1>8, RowsKept DEF Done

LEMMA ShelveKeeps == ASSUME IndInv, NEW s, Shelve(s) PROVE IndInv'
<1>1. orders' \subseteq OrderType
  BY DEF IndInv, TypesOK, DealTypeOK, OrderType, Shelve
<1>2. \A m, n \in orders' : m.row = n.row => m = n
  BY DEF IndInv, RowsOK, Shelve
<1> QED BY <1>1, <1>2, RowsKept DEF Shelve

LEMMA DeleteChatKeeps == ASSUME IndInv, NEW n, DeleteChat(n) PROVE IndInv'
<1>1. /\ orders' \subseteq orders /\ orphaned \subseteq orphaned'
      /\ \A o \in orders : o \in orders' \/ o.row \in orphaned'
      /\ orphaned' \subseteq 1 .. MaxOrder /\ chats' \subseteq 1 .. MaxOrder
  BY DEF DeleteChat, Without, IndInv, TypesOK, DealTypeOK
<1>2. TypesOK'
  BY <1>1 DEF DeleteChat, IndInv, TypesOK, DealTypeOK
<1>3. \A d \in Call, q \in Party :
        /\ By(d, q)' <=> By(d, q)
        /\ By(d, q) => Stage(d)' = Stage(d) /\ call'[d].row = call[d].row
  BY DEF DeleteChat, By, Stage, Busy
<1>4. RowsOK'
  <2>1. \A d \in Call : Stage(d)' = Stage(d)
    BY DEF DeleteChat, Stage, Busy
  <2> QED BY <1>1, <2>1 DEF DeleteChat, IndInv, RowsOK
<1>5. ASSUME NEW q \in Party
      PROVE  Room(q)' >= Room(q)
  <2>1. Due(q)' \subseteq Due(q)
    BY DEF DeleteChat, Due
  <2> QED BY <1>2, <2>1, RoomKept DEF DeleteChat, IndInv
<1>6. \A r, q : Open(r, q) => Open(r, q)'
  BY <1>1 DEF Open
<1> QED BY <1>2, <1>3, <1>4, <1>5, <1>6, PartiesKept DEF DeleteChat

LEMMA InitHolds == DealInit => IndInv
<1> SUFFICES ASSUME DealInit
             PROVE  IndInv
  OBVIOUS
<1>1. NoCall \in CallType /\ NoCall.todo = <<>>
  BY DealAssumption DEF NoCall, CallType
<1>2. /\ call \in [Call -> CallType] /\ \A c \in Call : call[c] = NoCall
      /\ \A c \in Call : ~ Busy(c) /\ Stage(c) = "idle"
  BY <1>1 DEF DealInit, Busy, Stage
<1>3. \A c \in Call : call[c].by \in Party \cup {"nobody"} /\ call[c].ids \subseteq Party
  BY <1>2 DEF CallType
<1>4. DealTypeOK
  BY <1>3, DealAssumption DEF DealInit, DealTypeOK
<1>5. TypesOK
  BY <1>1, <1>2, <1>4, Sides DEF TypesOK
<1>6. RowsOK
  BY <1>2 DEF RowsOK, Unopened, DealInit
<1>7. ASSUME NEW p \in Party
      PROVE  PartyOK(p)
  <2>1. Due(p) = {}
    BY <1>1, <1>2, Sides DEF Due
  <2>2. Cardinality(Due(p)) = 0
    BY <2>1, FS_EmptySet
  <2>3. Room(p) = 0
    BY <2>2, DealAssumption DEF Room, DealInit
  <2>4. Of(standing, p) = {}
    BY DEF Of, DealInit
  <2>5. FitAt(p, "idle", 0)
    BY <2>3, <2>4 DEF FitAt
  <2> QED BY <1>2, <2>5 DEF PartyOK, By
<1> QED BY <1>5, <1>6, <1>7 DEF IndInv

-----------------------------------------------------------------------------
(* The theorems.                                                           *)

LEMMA StatementKeeps ==
  ASSUME IndInv, NEW c \in Call, Statement(c)
  PROVE  IndInv'
<1>1. CASE Balance(c) \/ Count(c) \/ ConsumeResponse(c) \/ Load(c) \/ CreateChat(c)
  BY <1>1, BalanceKeeps, CountKeeps, ConsumeKeeps, LoadKeeps, ChatKeeps
<1>2. CASE CreateMessage(c) \/ RestoreResponse(c) \/ DeleteResponse(c) \/ DeletePending(c)
  BY <1>2, MessageKeeps, RestoreKeeps, DeleteKeeps, UnconfirmKeeps
<1>3. CASE Insert(c) \/ CreateOrder(c)
  BY <1>3, InsertKeeps, OrderKeeps
<1>4. CASE GetStatus(c) \/ GetPerformerIDs(c) \/ Cancel(c) \/ RefundAll(c)
  BY <1>4, StatusKeeps, PerformersKeep, CancelKeeps, RefundAllKeeps
<1>5. CASE Fails(c)
  <2>1. call[c].todo \in ResponderScripts \cup OwnerScripts
    BY <1>5, StageIsFirst DEF IndInv, Fails, Busy, Scripts
  <2> QED BY <1>5, <2>1, ResponderFails, OwnerFails
<1> QED BY <1>1, <1>2, <1>3, <1>4, <1>5 DEF Statement

LEMMA StepKeeps == IndInv /\ [DealNext]_dealVars => IndInv'
<1> SUFFICES ASSUME IndInv, [DealNext]_dealVars
             PROVE  IndInv'
  OBVIOUS
<1>1. ASSUME NEW c \in Call, NEW p \in Party, Respond(c, p) \/ Withdraw(c, p)
      PROVE  IndInv'
  BY <1>1, RespondKeeps, WithdrawKeeps
<1>2. ASSUME NEW c \in Call, CallOff(c) \/ Statement(c)
      PROVE  IndInv'
  BY <1>2, CallOffKeeps, StatementKeeps
<1>3. ASSUME NEW o \in orders, Confirm(o)
      PROVE  IndInv'
  BY <1>3, ConfirmKeeps
<1>4. CASE Done
  BY <1>4, DoneKeeps
<1>7. ASSUME NEW n, DeleteChat(n)
      PROVE  IndInv'
  BY <1>7, DeleteChatKeeps
<1>5. ASSUME NEW s, Shelve(s)
      PROVE  IndInv'
  BY <1>5, ShelveKeeps
<1>6. CASE UNCHANGED dealVars
  <2>1. UNCHANGED <<trade, offered, standing, orders, chats, nextRow, left, call, called,
                   orphaned, muddled>>
    BY <1>6 DEF dealVars
  <2>2. orders' \subseteq OrderType /\ offered' \in {"active", "archive", "in_progress", "done"}
    BY <2>1 DEF IndInv, TypesOK, DealTypeOK, OrderType
  <2>3. \A m, n \in orders' : m.row = n.row => m = n
    BY <2>1 DEF IndInv, RowsOK
  <2> QED BY <2>1, <2>2, <2>3, RowsKept
<1> QED BY <1>1, <1>2, <1>3, <1>4, <1>5, <1>6, <1>7 DEF DealNext

(* The inductive invariant: for each party whose calls did not overlap, what  *)
(* is charged, which rows stand and which orders are open fits the statement  *)
(* its call has reached.                                                      *)
THEOREM DealInvariance == DealSpec => []IndInv
BY InitHolds, StepKeeps, PTL DEF DealSpec

(* Type correctness of the tables and calls of a listing's responses.         *)
THEOREM DealTypeCorrect == DealSpec => []DealTypeOK
<1>1. IndInv => DealTypeOK
  BY DEF IndInv, TypesOK
<1> QED BY <1>1, DealInvariance, PTL

LEMMA FitsWhenSettled == IndInv => StandingIsPaidAndOpen
<1> SUFFICES ASSUME IndInv, NEW p \in Party, Settled(p)
             PROVE  /\ Cardinality(Of(standing, p)) <= Bought - left[p] + called
                    /\ called = 0 => \A x \in Of(standing, p) :
                         x.row \in orphaned \/ \E o \in orders : o.row = x.row
  BY DEF StandingIsPaidAndOpen
<1>1. FitAt(p, "idle", 0)
  BY IdleFit DEF Settled, By
<1>2. Due(p) \in SUBSET Call
  BY DEF Due
<1>3. Cardinality(Due(p)) \in Nat
  BY <1>2, CallsFinite
<1>4. left[p] \in Nat /\ called \in Nat /\ Bought \in Nat
  BY DealAssumption DEF IndInv, TypesOK, DealTypeOK
<1>5. Room(p) >= 0 /\ (Of(standing, p) # {} => Room(p) >= 1)
  BY <1>1 DEF FitAt
<1>6. /\ Bought - left[p] + called >= 0
      /\ Of(standing, p) # {} => Bought - left[p] + called >= 1
  BY <1>3, <1>4, <1>5 DEF Room
<1>7. CASE Of(standing, p) = {}
  <2>1. Cardinality(Of(standing, p)) = 0
    BY <1>7, FS_EmptySet
  <2> QED BY <1>6, <1>7, <2>1
<1>8. CASE Of(standing, p) # {}
  <2>1. PICK x \in Of(standing, p) : Of(standing, p) = {x}
    BY <1>1, <1>8 DEF FitAt
  <2>2. Cardinality(Of(standing, p)) = 1
    BY <2>1, FS_Singleton
  <2>3. called = 0 => \A y \in Of(standing, p) :
          y.row \in orphaned \/ \E o \in orders : o.row = y.row
    BY <1>1 DEF FitAt, Unopened, Open
  <2> QED BY <1>6, <1>8, <2>2, <2>3
<1> QED BY <1>7, <1>8

(* A response that stands was charged to who made it and has its order, but   *)
(* for the orders that went with their chats or when an owner withdrew a      *)
(* response of his own, whatever the interleaving of the calls of other       *)
(* parties and the owner, who may himself be one of them.                     *)
THEOREM StandingPaidAndOpen == DealSpec => []StandingIsPaidAndOpen
BY DealInvariance, FitsWhenSettled, PTL

\* What a step confirms.
GainsAt(x) == \E o \in orders, n \in orders' :
                o.by = x /\ n.row = o.row /\ n.confirmed /\ ~ o.confirmed

LEMMA ConfirmationsOf ==
  ASSUME IndInv, NEW o \in orders, Confirm(o), trade # "rent", NEW p, GainsAt(p)
  PROVE  p = o.by
<1>1. PICK m \in orders, n \in orders' :
        m.by = p /\ n.row = m.row /\ n.confirmed /\ ~ m.confirmed
  BY DEF GainsAt
<1>2. n \in Confirmed(o)
  BY <1>1 DEF Confirm
<1>3. PICK x \in orders :
        /\ x.row = n.row
        /\ IF x \in Accepted(o)
             THEN n = [x EXCEPT !.confirmed = TRUE, !.status = "in_progress"]
             ELSE n = x
  BY <1>2, ConfirmedRows DEF IndInv
<1>4. x = m
  BY <1>1, <1>3 DEF IndInv, RowsOK
<1>5. m \in Accepted(o)
  BY <1>1, <1>3, <1>4
<1> QED BY <1>1, <1>5, AcceptedOrders DEF IndInv, Of

LEMMA OthersConfirmNothing ==
  ASSUME IndInv, NEW p, GainsAt(p), [DealNext]_dealVars
  PROVE  \E o \in orders : Confirm(o)
<1>1. PICK m \in orders, n \in orders' :
        m.by = p /\ n.row = m.row /\ n.confirmed /\ ~ m.confirmed
  BY DEF GainsAt
<1>2. n \notin orders
  BY <1>1 DEF IndInv, RowsOK
<1>3. ~ (orders' \subseteq orders)
  BY <1>1, <1>2
<1>4. \A c \in Call : ~ CreateOrder(c)
  <2> SUFFICES ASSUME NEW c \in Call, CreateOrder(c)
               PROVE  FALSE
    OBVIOUS
  <2>1. n = [row |-> call[c].row, by |-> call[c].by, confirmed |-> FALSE,
             status |-> "active"]
    BY <1>1, <1>2 DEF CreateOrder, Turns
  <2>2. ~ n.confirmed
    BY <2>1
  <2> QED BY <1>1, <2>2
<1>5. ~ Done
  <2> SUFFICES ASSUME Done
               PROVE  FALSE
    OBVIOUS
  <2>1. orders \subseteq OrderType
    BY DEF IndInv, TypesOK, DealTypeOK, OrderType
  <2>2. PICK x \in orders : n = Ended(x)
    BY <1>1 DEF Done
  <2>3. x \in OrderType
    BY <2>1
  <2>4. n.row = x.row /\ n.confirmed = x.confirmed
    BY <2>2, <2>3 DEF Ended, OrderType
  <2>5. x = m
    BY <1>1, <2>4 DEF IndInv, RowsOK
  <2> QED BY <1>1, <2>4, <2>5
<1>6. ASSUME NEW c \in Call, Statement(c), ~ CreateOrder(c)
      PROVE  orders' \subseteq orders
  <2>1. CASE Cancel(c)
    BY <2>1, CalledOffAll DEF Cancel, IndInv
  <2>2. CASE ~ Cancel(c)
    BY <1>6, <2>2 DEF Statement, Balance, Count, Insert, ConsumeResponse, Load,
       CreateChat, CreateMessage, RestoreResponse, DeleteResponse, DeletePending,
       GetStatus, GetPerformerIDs, RefundAll, Fails
  <2> QED BY <2>1, <2>2
<1>7. CASE UNCHANGED dealVars
  BY <1>3, <1>7 DEF dealVars
<1>8. ASSUME NEW r, DeleteChat(r)
      PROVE  orders' \subseteq orders
  BY <1>8 DEF DeleteChat, Without
<1> QED BY <1>3, <1>4, <1>5, <1>6, <1>7, <1>8
        DEF DealNext, Respond, Withdraw, CallOff, Shelve

(* A confirmation confirms one responder's orders, in every kind of listing   *)
(* but rent, of which the documentation says the same and a run shows that it *)
(* does not hold.                                                             *)
THEOREM OneResponderConfirmed ==
  DealSpec => [][\A p, q \in Party :
                   GainsAt(p) /\ GainsAt(q) => p = q \/ trade = "rent"]_dealVars
<1> DEFINE One == \A p, q \in Party : GainsAt(p) /\ GainsAt(q) => p = q \/ trade = "rent"
<1>1. IndInv /\ [DealNext]_dealVars => [One]_dealVars
  <2> SUFFICES ASSUME IndInv, [DealNext]_dealVars, NEW p \in Party, NEW q \in Party,
                      p # q, GainsAt(p), GainsAt(q), trade # "rent"
               PROVE  FALSE
    OBVIOUS
  <2>1. PICK o \in orders : Confirm(o)
    BY OthersConfirmNothing
  <2> QED BY <2>1, ConfirmationsOf
<1> QED BY <1>1, DealInvariance, PTL DEF DealSpec
=============================================================================
