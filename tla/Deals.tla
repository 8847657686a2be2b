------------------------------- MODULE Deals --------------------------------
(***************************************************************************)
(* Responses to one listing, the orders (confirmations) they open, and the *)
(* balance of paid responses: *_response(s)_service.go, *_confirmation_    *)
(* service.go and their repositories, for the six kinds of listings.       *)
(*                                                                         *)
(* A call is a script: the statements that its function makes, in order.   *)
(* One step runs the first statement of one call, or makes it fail.        *)
(***************************************************************************)
EXTENDS Integers, FiniteSets, Sequences

CONSTANTS
  Party,            \* who responds
  Owner,            \* who put the listing up, and may respond to it himself
  Call,             \* calls in flight: bounds concurrency only
  Bought,           \* responses that each has paid for
  MaxOrder          \* bounds the rows ever inserted

ASSUME DealAssumption ==
  IsFiniteSet(Call) /\ Bought \in Nat /\ MaxOrder \in Nat /\ "nobody" \notin Party

VARIABLES
  trade,      \* the listing's kind; never changes
  offered,    \* service.status, ad.status, ...
  standing,   \* *_responses
  orders,     \* *_confirmations
  chats,      \* the chats of responses, which have their ids
  nextRow,    \* AUTO_INCREMENT
  left,       \* subscription_responses.remaining
  call,       \* calls in flight
  called,     \* history: how often the owner's side called the order off
  orphaned,   \* history: orders deleted with their chats, or when the owner
              \* withdrew a response of his own
  muddled     \* history: parties with overlapping calls, or a failed statement

dealVars ==
  <<trade, offered, standing, orders, chats, nextRow, left, call, called,
    orphaned, muddled>>

Performers == {"service", "work", "rent"}    \* the owner is the performer
Clients == {"ad", "work_ad", "rent_ad"}

NoCall == [todo |-> <<>>, by |-> "nobody", row |-> 0, seen |-> "none", ids |-> {}]
Busy(c) == call[c].todo # <<>>

DealTypeOK ==
  /\ trade \in Performers \cup Clients
  /\ offered \in {"active", "archive", "in_progress", "done"}
  /\ standing \subseteq [row : 1 .. MaxOrder, by : Party]
  /\ orders \subseteq [row : 1 .. MaxOrder, by : Party, confirmed : BOOLEAN,
                       status : {"active", "in_progress", "done", "archived"}]
  /\ chats \subseteq 1 .. MaxOrder /\ orphaned \subseteq 1 .. MaxOrder
  /\ nextRow \in 1 .. MaxOrder + 1
  /\ left \in [Party -> Nat]
  /\ \A c \in Call : call[c].by \in Party \cup {"nobody"} /\ call[c].ids \subseteq Party
  /\ called \in Nat /\ muddled \subseteq Party

DealInit ==
  /\ trade \in Performers \cup Clients /\ offered = "active"
  /\ standing = {} /\ orders = {} /\ chats = {} /\ nextRow = 1
  /\ left = [p \in Party |-> Bought]
  /\ call = [c \in Call |-> NoCall] /\ called = 0
  /\ orphaned = {} /\ muddled = {}
-----------------------------------------------------------------------------
(* The scripts.                                                            *)

Opening == <<"count", "insert", "consume", "load", "chat", "confirm", "message">>
CheckedOpening ==
  <<"balance", "count", "insert", "consume", "load", "chat", "confirm", "message">>

CreateServiceResponse == Opening
CreateWorkResponse == Opening
CreateRentResponse == Opening
CreateAdResponse == CheckedOpening
CreateWorkAdResponse == CheckedOpening
CreateRentAdResponse == CheckedOpening

CancelServiceResponse == <<"remove", "unconfirm", "refund">>
CancelWorkResponse == <<"remove", "unconfirm", "refund">>
CancelRentResponse == <<"remove", "unconfirm", "refund">>
CancelAdResponse == <<"remove", "unconfirm", "refund">>
CancelWorkAdResponse == <<"remove", "unconfirm", "refund">>
CancelRentAdResponse == <<"remove", "unconfirm", "refund">>

\* Refunds go to the performers read before the order is called off, or after.
CancelService == <<"cancel">>
CancelWork == <<"cancel">>
CancelRent == <<"cancel">>
CancelAd == <<"status", "ids", "cancel", "refundAll">>
CancelWorkAd == <<"status", "cancel", "ids", "refundAll">>
CancelRentAd == <<"status", "cancel", "ids", "refundAll">>

ByTrade(s, w, r, a, wa, ra) ==
  CASE trade = "service" -> s [] trade = "work" -> w [] trade = "rent" -> r
    [] trade = "ad" -> a [] trade = "work_ad" -> wa [] trade = "rent_ad" -> ra

Responding ==
  ByTrade(CreateServiceResponse, CreateWorkResponse, CreateRentResponse,
          CreateAdResponse, CreateWorkAdResponse, CreateRentAdResponse)
Withdrawing ==
  ByTrade(CancelServiceResponse, CancelWorkResponse, CancelRentResponse,
          CancelAdResponse, CancelWorkAdResponse, CancelRentAdResponse)
CallingOff ==
  ByTrade(CancelService, CancelWork, CancelRent, CancelAd, CancelWorkAd,
          CancelRentAd)

\* Slip: the money back, the response kept.
Rollback_Kept == <<"restore">>

\* The rollback of a response that was charged.
Rollback == <<"restore", "delete">>
-----------------------------------------------------------------------------
(* Tables.                                                                 *)

Of(table, p) == {x \in table : x.by = p}

\* The rows that a confirmation takes: those of the client it names (service,
\* work), or of the performer (ad, work_ad, rent_ad).  A rent's rows all name its
\* owner as the client.
ConfirmService(o) == Of(orders, o.by)
ConfirmWork(o) == Of(orders, o.by)
ConfirmRent(o) == orders
ConfirmAd(o) == Of(orders, o.by)
ConfirmWorkAd(o) == Of(orders, o.by)
ConfirmRentAd(o) == Of(orders, o.by)

Accepted(o) ==
  ByTrade(ConfirmService(o), ConfirmWork(o), ConfirmRent(o), ConfirmAd(o),
          ConfirmWorkAd(o), ConfirmRentAd(o))

Confirmed(o) ==
  (orders \ Accepted(o)) \cup
  {[x EXCEPT !.confirmed = TRUE, !.status = "in_progress"] : x \in Accepted(o)}

\* What goes with deleted chats: the rows that refer to them (ON DELETE CASCADE).
Without(table, gone) == {x \in table : x.row \notin gone}

\* The order is archived, and then the chats of all the listing's orders are
\* deleted.
CalledOff(o) ==
  LET archived == {[x EXCEPT !.confirmed = FALSE, !.status = "archived"] :
                     x \in Of(orders, o.by)}
  IN Without((orders \ Of(orders, o.by)) \cup archived, {x.row : x \in orders})

\* The orders that name the party who withdraws: as the client or the performer
\* (service, work), which the owner is of all; as the performer, who responded.
PendingService(p) == {o \in orders : o.by = p \/ p = Owner}
PendingWork(p) == {o \in orders : o.by = p \/ p = Owner}
PendingRent(p) == Of(orders, p)
PendingAd(p) == Of(orders, p)
PendingWorkAd(p) == Of(orders, p)
PendingRentAd(p) == Of(orders, p)

Pending(p) ==
  {o \in ByTrade(PendingService(p), PendingWork(p), PendingRent(p), PendingAd(p),
                 PendingWorkAd(p), PendingRentAd(p)) : ~ o.confirmed}

Ended(o) == IF o.confirmed THEN [o EXCEPT !.status = "done"] ELSE o
-----------------------------------------------------------------------------
(* Calls.                                                                  *)

Begins(c, by, script, row, seen) ==
  /\ ~ Busy(c)
  /\ call' = [call EXCEPT ![c] =
                 [todo |-> script, by |-> by, row |-> row, seen |-> seen, ids |-> {}]]
  /\ muddled' = muddled \cup
       {p \in Party \cap {by} : \E d \in Call : Busy(d) /\ call[d].by = p}

Respond(c, p) ==
  /\ Begins(c, p, Responding, 0, "none")
  /\ UNCHANGED <<trade, offered, standing, orders, chats, nextRow, left, called,
                 orphaned>>

\* The response is looked up by its id, or by the listing and the caller.
Withdraw(c, p) ==
  /\ \E x \in Of(standing, p) : Begins(c, p, Withdrawing, x.row, "none")
  /\ UNCHANGED <<trade, offered, standing, orders, chats, nextRow, left, called,
                 orphaned>>

CallOff(c) ==
  /\ Begins(c, "nobody", CallingOff, 0, "none")
  /\ UNCHANGED <<trade, offered, standing, orders, chats, nextRow, left, called,
                 orphaned>>

\* Some row that names the party given; the other responses to a client's
\* listing are deleted.
Confirm(o) ==
  /\ o \in orders /\ orders' = Confirmed(o)
  /\ IF trade \in Clients
       THEN offered' = "in_progress" /\ standing' = Of(standing, o.by)
       ELSE UNCHANGED <<offered, standing>>
  /\ UNCHANGED <<trade, chats, nextRow, left, call, called, orphaned, muddled>>

Done ==
  /\ orders' = {Ended(o) : o \in orders}
  /\ offered' = IF trade \in Clients THEN "done" ELSE offered
  /\ UNCHANGED <<trade, standing, chats, nextRow, left, call, called, orphaned, muddled>>

\* Anybody deletes any chat; the order goes with it, the response stays.
DeleteChat(n) ==
  /\ n \in chats /\ chats' = chats \ {n}
  /\ orders' = Without(orders, {n})
  /\ orphaned' = orphaned \cup {o.row : o \in orders \ orders'}
  /\ UNCHANGED <<trade, offered, standing, nextRow, left, call, called, muddled>>

\* The owner, or the cleaner, archives the listing or brings it back (Market).
Shelve(s) ==
  /\ s \in {"active", "archive"} /\ offered' = s
  /\ UNCHANGED <<trade, standing, orders, chats, nextRow, left, call, called,
                 orphaned, muddled>>
-----------------------------------------------------------------------------
(* Statements.                                                             *)

Reaches(c, s) == Busy(c) /\ Head(call[c].todo) = s
Turns(c, script) == call' = [call EXCEPT ![c].todo = script]
Proceeds(c) == Turns(c, Tail(call[c].todo))
Stops(c) == Turns(c, <<>>)

\* ensureExecutorCanRespond.
Balance(c) ==
  /\ Reaches(c, "balance")
  /\ IF left[call[c].by] > 0 THEN Proceeds(c) ELSE Stops(c)
  /\ UNCHANGED <<trade, offered, standing, orders, chats, nextRow, left, called,
                 orphaned, muddled>>

\* SELECT COUNT, and then INSERT: the table has no unique key.
Count(c) ==
  /\ Reaches(c, "count")
  /\ IF Of(standing, call[c].by) = {} THEN Proceeds(c) ELSE Stops(c)
  /\ UNCHANGED <<trade, offered, standing, orders, chats, nextRow, left, called,
                 orphaned, muddled>>

Insert(c) ==
  /\ Reaches(c, "insert") /\ nextRow <= MaxOrder
  /\ standing' = standing \cup {[row |-> nextRow, by |-> call[c].by]}
  /\ nextRow' = nextRow + 1
  /\ call' = [call EXCEPT ![c].row = nextRow, ![c].todo = Tail(@)]
  /\ UNCHANGED <<trade, offered, orders, chats, left, called, orphaned, muddled>>

ConsumeResponse(c) ==
  /\ Reaches(c, "consume")
  /\ LET p == call[c].by
     IN IF left[p] > 0 THEN left' = [left EXCEPT ![p] = @ - 1] /\ Proceeds(c)
                      ELSE UNCHANGED left /\ Turns(c, <<"delete">>)
  /\ UNCHANGED <<trade, offered, standing, orders, chats, nextRow, called, orphaned,
                 muddled>>

\* A client's archived listing is not found.
Load(c) ==
  /\ Reaches(c, "load")
  /\ IF trade \in Clients /\ offered = "archive" THEN Turns(c, Rollback) ELSE Proceeds(c)
  /\ UNCHANGED <<trade, offered, standing, orders, chats, nextRow, left, called,
                 orphaned, muddled>>

CreateChat(c) ==
  /\ Reaches(c, "chat") /\ Proceeds(c)
  /\ chats' = chats \cup {call[c].row}
  /\ UNCHANGED <<trade, offered, standing, orders, nextRow, left, called, orphaned,
                 muddled>>

\* Orders and messages refer to a chat, which may be gone already.
CreateOrder(c) ==
  /\ Reaches(c, "confirm")
  /\ IF call[c].row \in chats
       THEN /\ orders' = orders \cup {[row |-> call[c].row, by |-> call[c].by,
                                       confirmed |-> FALSE, status |-> "active"]}
            /\ Proceeds(c)
       ELSE UNCHANGED orders /\ Turns(c, Rollback)
  /\ UNCHANGED <<trade, offered, standing, chats, nextRow, left, called, orphaned,
                 muddled>>

CreateMessage(c) ==
  /\ Reaches(c, "message")
  /\ IF call[c].row \in chats THEN Stops(c) ELSE Turns(c, Rollback)
  /\ UNCHANGED <<trade, offered, standing, orders, chats, nextRow, left, called,
                 orphaned, muddled>>

RestoreResponse(c) ==
  /\ Reaches(c, "restore") \/ Reaches(c, "refund")
  /\ left' = [left EXCEPT ![call[c].by] = @ + 1] /\ Proceeds(c)
  /\ UNCHANGED <<trade, offered, standing, orders, chats, nextRow, called, orphaned,
                 muddled>>

\* Whether a row was deleted is not asked.
DeleteResponse(c) ==
  /\ Reaches(c, "delete") \/ Reaches(c, "remove")
  /\ standing' = {x \in standing : x.row # call[c].row} /\ Proceeds(c)
  /\ UNCHANGED <<trade, offered, orders, chats, nextRow, left, called, orphaned,
                 muddled>>

DeletePending(c) ==
  /\ Reaches(c, "unconfirm") /\ Proceeds(c)
  /\ LET gone == Pending(call[c].by)
     IN /\ orders' = orders \ gone
        /\ orphaned' = orphaned \cup {o.row : o \in gone \ Of(gone, call[c].by)}
  /\ UNCHANGED <<trade, offered, standing, chats, nextRow, left, called, muddled>>

GetStatus(c) ==
  /\ Reaches(c, "status")
  /\ call' = [call EXCEPT ![c].seen = offered, ![c].todo = Tail(@)]
  /\ UNCHANGED <<trade, offered, standing, orders, chats, nextRow, left, called,
                 orphaned, muddled>>

\* Only an active listing's performers are refunded.
GetPerformerIDs(c) ==
  /\ Reaches(c, "ids")
  /\ call' = [call EXCEPT ![c].todo = Tail(@),
                ![c].ids = IF call[c].seen = "active" THEN {o.by : o \in orders} ELSE {}]
  /\ UNCHANGED <<trade, offered, standing, orders, chats, nextRow, left, called,
                 orphaned, muddled>>

\* The transaction: some order of the listing, and what hangs on its chats.  A
\* performer's listing is active again, a client's is left as it is.
Cancel(c) ==
  /\ Reaches(c, "cancel") /\ orders # {} /\ Proceeds(c)
  /\ \E o \in orders : orders' = CalledOff(o)
  /\ chats' = chats \ {o.row : o \in orders}
  /\ offered' = IF trade \in Performers THEN "active" ELSE offered
  /\ called' = called + 1
  /\ UNCHANGED <<trade, standing, nextRow, left, orphaned, muddled>>

RefundAll(c) ==
  /\ Reaches(c, "refundAll")
  /\ \/ \E p \in call[c].ids :
          /\ left' = [left EXCEPT ![p] = @ + 1]
          /\ call' = [call EXCEPT ![c].ids = @ \ {p}]
     \/ call[c].ids = {} /\ Stops(c) /\ UNCHANGED left
  /\ UNCHANGED <<trade, offered, standing, orders, chats, nextRow, called, orphaned,
                 muddled>>

\* What is done when a statement fails, or finds nothing.
AfterFailure(c) ==
  LET s == Head(call[c].todo)
  IN CASE s = "consume" \/ s = "restore" -> <<"delete">>
       [] s \in {"load", "chat", "confirm", "message"} -> Rollback
       [] OTHER -> <<>>

\* Errors of the rollback are ignored; one that leaves the row is noted.
Fails(c) ==
  /\ Busy(c) /\ Turns(c, AfterFailure(c))
  /\ muddled' = muddled \cup {p \in Party \cap {call[c].by} : Reaches(c, "delete")}
  /\ UNCHANGED <<trade, offered, standing, orders, chats, nextRow, left, called,
                 orphaned>>

Statement(c) ==
  \/ Balance(c) \/ Count(c) \/ Insert(c) \/ ConsumeResponse(c) \/ Load(c)
  \/ CreateChat(c) \/ CreateOrder(c) \/ CreateMessage(c) \/ RestoreResponse(c)
  \/ DeleteResponse(c) \/ DeletePending(c) \/ GetStatus(c)
  \/ GetPerformerIDs(c) \/ Cancel(c) \/ RefundAll(c) \/ Fails(c)

DealNext ==
  \/ \E c \in Call, p \in Party : Respond(c, p) \/ Withdraw(c, p)
  \/ \E c \in Call : CallOff(c) \/ Statement(c)
  \/ \E o \in orders : Confirm(o)
  \/ \E n \in chats : DeleteChat(n)
  \/ Done \/ \E s \in {"active", "archive"} : Shelve(s)

DealSpec == DealInit /\ [][DealNext]_dealVars
-----------------------------------------------------------------------------
(* Properties.                                                             *)

Settled(p) == p \notin muddled /\ \A c \in Call : Busy(c) => call[c].by # p

\* A response that stands was charged to who made it, and has its order, unless
\* the owner's side has called an order off since (ad refunds performers whose
\* responses stay), the order's chat was deleted or the owner withdrew a response
\* of his own (which takes all pending orders), calls of the party overlapped (a
\* response withdrawn twice is refunded twice) or a rollback could not delete it.
StandingIsPaidAndOpen ==
  \A p \in Party : Settled(p) =>
    /\ Cardinality(Of(standing, p)) <= Bought - left[p] + called
    /\ called = 0 => \A x \in Of(standing, p) :
                       x.row \in orphaned \/ \E o \in orders : o.row = x.row

Changed(p) == {o \in orders : o.by = p} # {o \in orders' : o.by = p}

\* What performer_confirmation_flow.md says of a confirmation, for services, ads,
\* and likewise works, rents and their ads: only the accepted one switches.
ConfirmTakesOneResponder ==
  [][\A p, q \in Party :
       LET Gains(x) == \E o \in orders, n \in orders' :
                         o.by = x /\ n.row = o.row /\ n.confirmed /\ ~ o.confirmed
       IN Gains(p) /\ Gains(q) => p = q]_dealVars

\* What performer_confirmation_flow.md says of a cancellation: it updates only
\* the confirmation of that order.
CancelTouchesOneOrder ==
  [][called' # called => \A p, q \in Party : Changed(p) /\ Changed(q) => p = q]_dealVars
=============================================================================
