---------------------------- MODULE StorePurchases -----------------------------
(***************************************************************************)
(* One purchase in a store (Apple's or Google's) with its renewals: who is *)
(* granted what for it, and what the store's notifications do.             *)
(* iap_handler.go, iap_google_handler.go and their repositories.           *)
(*                                                                         *)
(* Apple knows each renewal by a transaction of its own, all of which name *)
(* the first one; Google knows them all by the token of the first.  Of a   *)
(* notice with no transaction in it, only the renewal's info, the server   *)
(* makes a transaction by itself, with an id made of the date the notice   *)
(* was signed.                                                             *)
(***************************************************************************)
EXTENDS Integers, FiniteSets, Sequences

CONSTANTS
  Buyer,
  StoreCall,        \* calls in flight: bounds concurrency only
  MaxTxn,           \* bounds the purchase and its renewals
  MaxInfo,          \* bounds the dates of notices with renewal info only
  MaxGrant          \* bounds how often each is granted or revoked

ASSUME StoreAssumption ==
  MaxTxn \in Nat \ {0} /\ MaxInfo \in Nat /\ MaxGrant \in Nat

VARIABLES
  store, product,   \* never change
  hasAccount,    \* the buyers of seats have a business account already
  issued,     \* transactions that the store has charged
  refunded,   \* those it has given back
  rows,       \* *_iap_transactions, oldest first
  held,       \* months of a subscription, responses, promotions or seats
  pcall,      \* calls in flight
  granted,    \* history: how often each notice was granted, and to whom
  revoked,    \* history: how often the row of each was deleted by a revocation
  spoiled,    \* history: transactions granted by a call that then failed
  cut,        \* history: keys left behind by a call that died
  tangled,    \* history: keys of calls that overlapped others
  answered    \* history: transactions that were answered "ok"

history == <<granted, revoked, spoiled, cut, tangled, answered>>
storeVars ==
  <<store, product, hasAccount, issued, refunded, rows, held, pcall, history>>

Txn == 1 .. MaxTxn
Info == MaxTxn + 1 .. MaxTxn + MaxInfo
\* What a call may be about: a transaction, or renewal info signed at some date.
Notice == 1 .. MaxTxn + MaxInfo
Product == {"responses", "subscription", "top", "business"}
Renewable == {"subscription", "business"}

\* Slip: Apple's rows keyed by the first transaction, too.
Key_Original(n) == 1
\* What makes it known: a transaction's own id, the one made of the date, or the
\* token of all.
Key(n) == IF store = "apple" THEN n ELSE 1

Quiet == [pc |-> "quiet", by |-> "nobody", n |-> 0]
Running(c) == pcall[c].pc # "quiet"

StoreTypeOK ==
  /\ store \in {"apple", "google"} /\ product \in Product /\ hasAccount \in BOOLEAN
  /\ issued \in 1 .. MaxTxn /\ refunded \subseteq 1 .. issued
  /\ rows \in Seq([key : Notice, by : Buyer])
  /\ held \in [Buyer -> Nat]
  /\ pcall \in [StoreCall ->
       {Quiet} \cup [pc : {"Owner", "IsProcessed", "Save", "Apply", "Undo", "Delete", "Expire"},
                     by : Buyer, n : Notice]]
  /\ granted \in [Notice -> [Buyer -> Nat]] /\ revoked \in [Notice -> Nat]
  /\ spoiled \subseteq Notice /\ cut \subseteq Notice /\ tangled \subseteq Notice
  /\ answered \subseteq Notice

StoreInit ==
  /\ store \in {"apple", "google"} /\ product \in Product /\ hasAccount \in BOOLEAN
  /\ issued = 1 /\ refunded = {} /\ rows = <<>>
  /\ held = [u \in Buyer |-> 0]
  /\ pcall = [c \in StoreCall |-> Quiet]
  /\ granted = [n \in Notice |-> [u \in Buyer |-> 0]]
  /\ revoked = [n \in Notice |-> 0]
  /\ spoiled = {} /\ cut = {} /\ tangled = {} /\ answered = {}
-----------------------------------------------------------------------------
(* The repositories.                                                       *)

IsProcessed(k) == \E i \in DOMAIN rows : rows[i].key = k
Save(k, u) == IF IsProcessed(k) THEN rows ELSE Append(rows, [key |-> k, by |-> u])

\* The key is unique: at most one row goes.
DeleteByTransactionID(k) ==
  LET i == CHOOSE j \in DOMAIN rows : rows[j].key = k
  IN IF IsProcessed(k) THEN SubSeq(rows, 1, i - 1) \o SubSeq(rows, i + 1, Len(rows))
                       ELSE rows

\* The latest row that names the first transaction, or the token.
Owned == rows # <<>>
GetOwner == rows[Len(rows)].by

\* Slip: whoever asks is the owner.
BelongsToAnother_Never(u) == FALSE
BelongsToAnother(u) == Owned /\ GetOwner # u
-----------------------------------------------------------------------------
(* Calls.                                                                  *)

Begin(c, pc, u, n) ==
  /\ ~ Running(c)
  /\ pcall' = [pcall EXCEPT ![c] = [pc |-> pc, by |-> u, n |-> n]]
  /\ LET others == {d \in StoreCall : Running(d)}
     IN tangled' = IF others = {} THEN tangled
                   ELSE tangled \cup {Key(n)} \cup {Key(pcall[d].n) : d \in others}
  /\ UNCHANGED <<store, product, hasAccount, issued, refunded, rows, held, granted,
                 revoked, spoiled, cut, answered>>

\* What the store confirms: Apple, any transaction; Google, one that is in force.
Verified(n) == n \in 1 .. issued /\ (store = "google" => issued \notin refunded)

\* A client reports a purchase; whoever has its id or token may.
VerifyIOSPurchase(c, u, n) ==
  store = "apple" /\ Verified(n) /\ Begin(c, "Owner", u, n)
VerifyAndroidPurchase(c, u, n) ==
  store = "google" /\ Verified(n) /\ Begin(c, "Owner", u, n)

\* Notifications come late, again, and in any order, in the name of the latest
\* row's owner.  DID_RENEW and others grant; REFUND and REVOKE delete the
\* transaction's row and then force its owner's subscription to expire.  Either
\* may bring renewal info only, whatever the server was told of that renewal.
AppleNotificationsV2(c, n) ==
  /\ store = "apple" /\ Owned
  /\ LET informs == n \in Info /\ product \in Renewable
     IN \/ (Verified(n) \/ informs) /\ Begin(c, "Owner", GetOwner, n)
        \/ /\ n \in refunded \/ (informs /\ refunded # {})
           /\ Begin(c, "Delete", GetOwner, n)

\* Google's revocations only do the latter; a cancellation of the renewal
\* counts as one.
GoogleNotifications(c, n) ==
  /\ store = "google" /\ Owned
  /\ \/ Verified(n) /\ Begin(c, "Owner", GetOwner, n)
     \/ product = "subscription" /\ n \in 1 .. issued /\ Begin(c, "Expire", GetOwner, n)

At(c, pc) == pcall[c].pc = pc
Goes(c, pc) == pcall' = [pcall EXCEPT ![c].pc = pc]
Ends(c) == pcall' = [pcall EXCEPT ![c] = Quiet]

CheckOwner(c) ==
  /\ At(c, "Owner")
  /\ IF BelongsToAnother(pcall[c].by) THEN Ends(c) ELSE Goes(c, "IsProcessed")
  /\ UNCHANGED <<store, product, hasAccount, issued, refunded, rows, held, history>>

CheckProcessed(c) ==
  /\ At(c, "IsProcessed")
  /\ IF IsProcessed(Key(pcall[c].n))
       THEN Ends(c) /\ answered' = answered \cup {pcall[c].n}
       ELSE Goes(c, "Save") /\ UNCHANGED answered
  /\ UNCHANGED <<store, product, hasAccount, issued, refunded, rows, held, granted,
                 revoked, spoiled, cut, tangled>>

\* A row that has come meanwhile is no error.
SaveRow(c) ==
  /\ At(c, "Save") /\ Goes(c, "Apply")
  /\ rows' = Save(Key(pcall[c].n), pcall[c].by)
  /\ UNCHANGED <<store, product, hasAccount, issued, refunded, held, history>>

Grants(n, u) ==
  /\ granted[n][u] < MaxGrant
  /\ granted' = [granted EXCEPT ![n][u] = @ + 1]
  /\ held' = [held EXCEPT ![u] = @ + 1]

\* applyTarget.  Seats may be granted by a call that then fails; it always
\* does so for a buyer without a business account (see BusinessSeats).
Apply(c) ==
  /\ At(c, "Apply")
  /\ LET n == pcall[c].n
     IN \/ /\ product = "business" => hasAccount
           /\ Grants(n, pcall[c].by) /\ Ends(c)
           /\ answered' = answered \cup {n}
           /\ UNCHANGED <<hasAccount, spoiled>>
        \/ /\ product = "business" /\ hasAccount' = TRUE
           /\ Grants(n, pcall[c].by) /\ Goes(c, "Undo")
           /\ spoiled' = spoiled \cup {n}
           /\ UNCHANGED answered
        \/ Goes(c, "Undo") /\ UNCHANGED <<hasAccount, held, granted, spoiled, answered>>
  /\ UNCHANGED <<store, product, issued, refunded, rows, revoked, cut, tangled>>

Undo(c) ==
  /\ At(c, "Undo") /\ Ends(c)
  /\ rows' = DeleteByTransactionID(Key(pcall[c].n))
  /\ UNCHANGED <<store, product, hasAccount, issued, refunded, held, history>>

DeleteRow(c) ==
  /\ At(c, "Delete") /\ Goes(c, "Expire")
  /\ LET n == pcall[c].n
     IN /\ revoked[n] < MaxGrant
        /\ revoked' = [revoked EXCEPT ![n] = @ + 1]
        /\ rows' = DeleteByTransactionID(n)
  /\ UNCHANGED <<store, product, hasAccount, issued, refunded, held, granted, spoiled,
                 cut, tangled, answered>>

\* All months of the owner's go, those of other transactions too.
ForceExpireSubscription(c) ==
  /\ At(c, "Expire") /\ Ends(c)
  /\ held' = IF product = "subscription" THEN [held EXCEPT ![pcall[c].by] = 0] ELSE held
  /\ UNCHANGED <<store, product, hasAccount, issued, refunded, rows, history>>

\* A statement fails, or the server stops; the row that was saved stays.
Dies(c) ==
  /\ Running(c) /\ Ends(c)
  /\ cut' = cut \cup {Key(n) : n \in {pcall[c].n} \cap
                        IF At(c, "Apply") \/ At(c, "Undo") THEN Notice ELSE {}}
  /\ UNCHANGED <<store, product, hasAccount, issued, refunded, rows, held, granted,
                 revoked, spoiled, tangled, answered>>

\* The store charges for a renewal, gives money back, or takes that back.
Renew ==
  /\ product \in Renewable /\ issued < MaxTxn /\ issued' = issued + 1
  /\ UNCHANGED <<store, product, hasAccount, refunded, rows, held, pcall, history>>

Refund(n) ==
  /\ n \in 1 .. issued
  /\ \/ n \notin refunded /\ refunded' = refunded \cup {n}
     \/ n \in refunded /\ refunded' = refunded \ {n}
  /\ UNCHANGED <<store, product, hasAccount, issued, rows, held, pcall, history>>

StoreNext ==
  \/ \E c \in StoreCall, n \in Notice :
       \/ \E u \in Buyer : VerifyIOSPurchase(c, u, n) \/ VerifyAndroidPurchase(c, u, n)
       \/ AppleNotificationsV2(c, n) \/ GoogleNotifications(c, n)
  \/ \E c \in StoreCall :
       \/ CheckOwner(c) \/ CheckProcessed(c) \/ SaveRow(c) \/ Apply(c) \/ Undo(c)
       \/ DeleteRow(c) \/ ForceExpireSubscription(c) \/ Dies(c)
  \/ Renew \/ \E n \in Txn : Refund(n)

StoreSpec == StoreInit /\ [][StoreNext]_storeVars
-----------------------------------------------------------------------------
Times(n) == {t \in Buyer \X (1 .. MaxGrant) : t[2] <= granted[n][t[1]]}
Grantees == {u \in Buyer : \E n \in Notice : granted[n][u] > 0}

\* A transaction is granted once under its id, and so is each date of a notice with
\* renewal info only (the same renewal, once more), and once more for each time
\* that its row was deleted by a revocation; all of them go to one buyer, if none
\* was revoked.  That fails only when calls overlapped, or when seats were granted
\* by a call that ended in an error.
TakesEffectOnce ==
  /\ \A n \in Notice : Key(n) \notin tangled /\ n \notin spoiled =>
       Cardinality(Times(n)) <= 1 + revoked[n]
  /\ tangled = {} /\ spoiled = {} /\ (\A n \in Notice : revoked[n] = 0) =>
       Cardinality(Grantees) <= 1

\* Who is answered "ok" was granted something for that notice, unless a
\* call died between saving the row and granting, calls overlapped, or the
\* store is Google: of a token only one transaction is granted, whose renewals
\* are taken for repetitions.
AnsweredIsGranted ==
  \A n \in answered :
    \/ Times(n) # {}
    \/ Key(n) \in cut \cup tangled
    \/ store = "google" /\ \E m \in Notice : Times(m) # {}
=============================================================================
