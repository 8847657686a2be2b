------------------------------- MODULE Market -------------------------------
(***************************************************************************)
(* One kind of listings and its owners' subscriptions: the requests that   *)
(* create, edit, archive and restore listings, the cleaners, promotion,    *)
(* reviews, and what responses do to a listing's status (see Deals).       *)
(*                                                                         *)
(* A request is a record in req: one step is one statement of the database *)
(* or the work on the disk between two.  An edit reads the row, changes    *)
(* files, may read the row and the subscription again, and writes the row  *)
(* back whole.  Searches are read-only operators: GetPage and the others.  *)
(***************************************************************************)
EXTENDS Listings

CONSTANTS
  Slot,             \* requests in flight: bounds concurrency only
  NewForms, EditForms,
  Search,           \* the searches that the properties try
  MaxId             \* bounds the listings ever created

FileFields == {"add", "del", "list", "links"}

\* What else a form may name; an unnamed status comes as an empty one.
FormType ==
  [owner |-> User, city |-> City \cup {NoCity}, sub |-> Sub \cup {NoSub},
   price |-> Int, traits |-> SUBSET Trait, hours |-> {"unset", "day", "night",
   "round", "roundSec"}, hide |-> BOOLEAN, stars |-> Nat, liked |-> BOOLEAN,
   top |-> {"none", "active", "expired"}, status |-> ListStatus \cup {""}]

ASSUME MarketAssumption ==
  /\ MaxId \in Nat /\ Search \subseteq Query
  /\ \A f \in NewForms \cup EditForms :
       /\ FileFields \subseteq DOMAIN f /\ f.add \cup f.del \subseteq File
       /\ f.list \cup f.links \subseteq Image
       /\ \A x \in DOMAIN f \ FileFields :
            x \in DOMAIN FormType /\ f[x] \in FormType[x]

VARIABLES
  kind,       \* which of the six kinds; never changes
  last,       \* AUTO_INCREMENT
  disk,       \* what became of each upload
  paid,       \* executor_subscriptions of this kind: none, active, expired
  cleaning,   \* users the subscription cleaner has read as expired
  req,        \* requests in flight
  torn,       \* history: listings an edit of which failed, or overlapped another
  lent        \* history: files that a request named by their address, where the
              \* listing did not have them

marketVars ==
  <<kind, tbl, home, review, last, disk, paid, cleaning, req, torn, lent>>

S == INSTANCE Services
W == INSTANCE Works
R == INSTANCE Rents
A == INSTANCE Ads
WA == INSTANCE WorkAds
RA == INSTANCE RentAds

Kind == {"service", "work", "rent", "ad", "work_ad", "rent_ad"}
Executors == {"service", "work", "rent"}     \* the owner is the performer
WorkKinds == {"work", "work_ad"}

NoRow == [status |-> "none"]
\* A request: what it writes (row), what it read (seen), the fields its form
\* names, and what the checks on its way found (grounds).
Idle == [pc |-> "idle", op |-> "none", i |-> 0, row |-> NoRow, seen |-> NoRow,
         named |-> {}, grounds |-> {}]

MarketTypeOK ==
  /\ kind \in Kind
  /\ last \in 0 .. MaxId /\ DOMAIN tbl \subseteq 1 .. last
  /\ \A i \in DOMAIN tbl : tbl[i] \in Row
  /\ home \in [User -> City \cup {NoCity}]
  /\ review \in [1 .. MaxId -> Nat]
  /\ disk \in [File -> {"unused", "there", "removed"}]
  /\ paid \in [User -> {"none", "active", "expired"}]
  /\ cleaning \subseteq User
  /\ \A r \in Slot :
       /\ req[r].pc \in {"idle", "Reread", "CheckPaid", "Lapse", "Write"}
       /\ req[r].pc # "idle" => req[r].row \in Row
  /\ torn \subseteq 1 .. last /\ lent \subseteq File

MarketInit ==
  /\ kind \in Kind
  /\ tbl = [i \in {} |-> NoRow] /\ last = 0
  /\ home \in [User -> City \cup {NoCity}]
  /\ review = [i \in 1 .. MaxId |-> 0]
  /\ disk = [f \in File |-> "unused"]
  /\ paid \in [User -> {"none", "active"}]
  /\ cleaning = {} /\ torn = {} /\ lent = {}
  /\ req = [r \in Slot |-> Idle]
-----------------------------------------------------------------------------
(* The kind's own operators.                                               *)

ByKind(s, w, r, a, wa, ra) ==
  CASE kind = "service" -> s [] kind = "work" -> w [] kind = "rent" -> r
    [] kind = "ad" -> a [] kind = "work_ad" -> wa [] kind = "rent_ad" -> ra

Created(f) ==
  ByKind(S!CreateService(f), W!CreateWork(f), R!CreateRent(f),
         A!CreateAd(f), WA!CreateWorkAd(f), RA!CreateRentAd(f))

NewImages(f) ==
  ByKind(S!NewImages(f), W!NewImages(f), R!NewImages(f), A!NewImages(f),
         WA!NewImages(f), RA!NewImages(f))

SavedUploads(f) ==
  ByKind(S!SaveUploads(disk, f), W!SaveUploads(disk, f),
         R!SaveUploads(disk, f), A!SaveUploads(disk, f),
         WA!SaveUploads(disk, f), RA!SaveUploads(disk, f))

SaveDir ==
  ByKind(S!SaveDir, W!SaveDir, R!SaveDir, A!SaveDir, WA!SaveDir,
         RA!SaveDir)

Inserted(row) ==
  ByKind(S!Inserted(row), W!Inserted(row), R!Inserted(row),
         A!Inserted(row), WA!Inserted(row), RA!Inserted(row))

CreateNeedsPaid ==
  ByKind(S!CreateNeedsPaid, W!CreateNeedsPaid, R!CreateNeedsPaid,
         A!CreateNeedsPaid, WA!CreateNeedsPaid, RA!CreateNeedsPaid)

UpdateNeedsPaid(old, new) ==
  ByKind(S!UpdateNeedsPaid(old, new), W!UpdateNeedsPaid(old, new),
         R!UpdateNeedsPaid(old, new), A!UpdateNeedsPaid(old, new),
         WA!UpdateNeedsPaid(old, new), RA!UpdateNeedsPaid(old, new))

UnarchiveNeedsPaid ==
  ByKind(S!UnarchiveNeedsPaid, W!UnarchiveNeedsPaid,
         R!UnarchiveNeedsPaid, A!UnarchiveNeedsPaid,
         WA!UnarchiveNeedsPaid, RA!UnarchiveNeedsPaid)

Found(i) ==
  ByKind(S!GetServiceByID(i), W!GetWorkByID(i), R!GetRentByID(i),
         A!GetAdByID(i), WA!GetWorkAdByID(i), RA!GetRentAdByID(i))

FoundIn(i, c) ==
  ByKind(S!GetServiceByIDWithCity(i, c), W!GetWorkByIDWithCity(i, c),
         R!GetRentByIDWithCity(i, c), A!GetAdByIDWithCity(i, c),
         WA!GetWorkAdByIDWithCity(i, c), RA!GetRentAdByIDWithCity(i, c))

Read(i) ==
  ByKind(S!Read(i), W!Read(i), R!Read(i), A!Read(i), WA!Read(i),
         RA!Read(i))

OverlayForm(row, f) ==
  ByKind(S!OverlayForm(row, f), W!OverlayForm(row, f), R!OverlayForm(row,
         f), A!OverlayForm(row, f), WA!OverlayForm(row, f),
         RA!OverlayForm(row, f))

EditedImages(row, f) ==
  ByKind(S!EditedImages(row, f), W!EditedImages(row, f),
         R!EditedImages(row, f), A!EditedImages(row, f),
         WA!EditedImages(row, f), RA!EditedImages(row, f))

EditedDisk(row, f) ==
  ByKind(S!EditedDisk(disk, row, f), W!EditedDisk(disk, row, f),
         R!EditedDisk(disk, row, f), A!EditedDisk(disk, row, f),
         WA!EditedDisk(disk, row, f), RA!EditedDisk(disk, row, f))

Updated(i, row) ==
  ByKind(S!UpdateService(i, row), W!UpdateWork(i, row), R!UpdateRent(i,
         row), A!UpdateAd(i, row), WA!UpdateWorkAd(i, row),
         RA!UpdateRentAd(i, row))

Deleted(i) ==
  ByKind(S!DeleteService(i), W!DeleteWork(i), R!DeleteRent(i),
         A!DeleteAd(i), WA!DeleteWorkAd(i), RA!DeleteRentAd(i))

WithStatus(i, s) ==
  ByKind(S!UpdateStatus(i, s), W!UpdateStatus(i, s), R!UpdateStatus(i,
         s), A!UpdateStatus(i, s), WA!UpdateStatus(i, s),
         RA!UpdateStatus(i, s))

ArchivedOf(u) ==
  ByKind(S!ArchiveByUserID(u), W!ArchiveByUserID(u),
         R!ArchiveByUserID(u), A!ArchiveByUserID(u),
         WA!ArchiveByUserID(u), RA!ArchiveByUserID(u))

\* Only performers' listings are archived with a subscription.
ArchiveListingsByType(u) == IF kind \in Executors THEN ArchivedOf(u) ELSE tbl

GetPage(q) ==
  ByKind(S!GetServicesWithFilters(q), W!GetWorksWithFilters(q),
         R!GetRentsWithFilters(q), A!GetAdWithFilters(q),
         WA!GetWorksAdWithFilters(q), RA!GetRentsAdWithFilters(q))

GetQuery(q, token) ==
  ByKind(S!GetQuery(q, token), W!GetQuery(q, token), R!GetQuery(q,
         token), A!GetQuery(q, token), WA!GetQuery(q, token),
         RA!GetQuery(q, token))

SortedQuery(q, token) ==
  ByKind(S!SortedQuery(q, token), W!SortedQuery(q, token),
         R!SortedQuery(q, token), A!SortedQuery(q, token),
         WA!SortedQuery(q, token), RA!SortedQuery(q, token))

GetMatch(q, i) ==
  ByKind(S!GetMatch(q, i), W!GetMatch(q, i), R!GetMatch(q, i),
         A!GetMatch(q, i), WA!GetMatch(q, i), RA!GetMatch(q, i))

OwnList(u) ==
  ByKind(S!GetServicesByUserID(u), W!GetWorksByUserID(u),
         R!GetRentsByUserID(u), A!GetAdByUserID(u),
         WA!GetWorksAdByUserID(u), RA!GetRentsAdByUserID(u))

OwnListByStatus(u, st) ==
  ByKind(S!FetchByStatusAndUserID(u, st), W!FetchByStatusAndUserID(u,
         st), R!FetchByStatusAndUserID(u, st),
         A!FetchAdByStatusAndUserID(u, st), WA!FetchByStatusAndUserID(u,
         st), RA!FetchByStatusAndUserID(u, st))

PostQuery(q, token) ==
  ByKind(S!PostQuery(q, token), W!PostQuery(q, token), R!PostQuery(q,
         token), A!PostQuery(q, token), WA!PostQuery(q, token),
         RA!PostQuery(q, token))

PostList(q) ==
  ByKind(S!GetFilteredServicesPost(q), W!GetFilteredWorksPost(q),
         R!GetFilteredRentsPost(q), A!GetFilteredAdPost(q),
         WA!GetFilteredWorksAdPost(q), RA!GetFilteredRentsAdPost(q))

LikesList(q) ==
  ByKind(S!GetFilteredServicesWithLikes(q),
         W!GetFilteredWorksWithLikes(q), R!GetFilteredRentsWithLikes(q),
         A!GetFilteredAdWithLikes(q), WA!GetFilteredWorksAdWithLikes(q),
         RA!GetFilteredRentsAdWithLikes(q))

PhoneShown(i, responded) ==
  ByKind(S!GetServiceByServiceIDAndUserID(i, responded),
         W!GetWorkByWorkIDAndUserID(i, responded),
         R!GetRentByRentIDAndUserID(i, responded),
         A!GetAdByAdIDAndUserID(i, responded),
         WA!GetWorkAdByWorkIDAndUserID(i, responded),
         RA!GetRentAdByRentIDAndUserID(i, responded))

\* GET /ads lists services, rent_ads and work_ads, whatever their status; a row
\* without a subcategory is an error.
GetAds ==
  LET found == IF kind \in {"service", "rent_ad", "work_ad"} THEN DOMAIN tbl
                                                            ELSE {}
      Complete(i) == tbl[i].sub # NoSub
  IN {Scanned(s, Complete) : s \in Arrangements(found, Newest)}

\* The route that answers for an image's address, and where it looks.
RouteDir(url) ==
  CASE url = "/images/services/" -> "services" [] url = "/images/works/" -> "works"
    [] url = "/images/rents/" -> "rents" [] url = "/images/ad/" -> "ad"
    [] url = "/images/work_ad/" -> "worksad" [] OTHER -> "none"

ImageServed(m) == RouteDir(m.url) = SaveDir /\ disk[m.file] = "there"
-----------------------------------------------------------------------------
(* Requests.                                                               *)

\* The user of the token, where the form names no owner.
WithOwner(f, u) ==
  [x \in DOMAIN f \cup {"owner"} |-> IF x \in DOMAIN f THEN f[x] ELSE u]

Fresh(f) == \A n \in f.add : disk[n] = "unused"
Loaded(r, rec) == req' = [req EXCEPT ![r] = rec]
Goto(r, pc) == req' = [req EXCEPT ![r].pc = pc]
End(r) == req' = [req EXCEPT ![r] = Idle]

\* Another edit of this listing is in flight.
Overlap(r, i) == \E s \in Slot \ {r} : req[s].op = "edit" /\ req[s].i = i

\* The seconds in which the listings were created, written or on their way.
Born == {tbl[i].born : i \in DOMAIN tbl} \cup
        {req[r].row.born : r \in {s \in Slot : req[s].op = "create"}}

\* The clock stands at the newest of them, or a second later.
Now == {b \in {0} \cup Born \cup {n + 1 : n \in Born} : \A n \in Born : n <= b}

\* POST of a listing in second b: its uploads are stored first.
StartCreate(r, u, f, b) ==
  /\ req[r].pc = "idle" /\ last < MaxId /\ Fresh(f) /\ b \in Now
  /\ LET form == WithOwner(f, u)
     IN /\ disk' = SavedUploads(form)
        /\ Loaded(r, [Idle EXCEPT
             !.pc = IF CreateNeedsPaid THEN "CheckPaid" ELSE "Write",
             !.op = "create",
             !.row = [Created(form) EXCEPT !.images = NewImages(form), !.born = b]])
        /\ lent' = lent \cup {m.file : m \in NewImages(form) \cap (f.list \cup f.links)}
  /\ UNCHANGED <<kind, tbl, home, review, last, paid, cleaning, torn>>

\* PUT of a listing: reads the row, stores uploads and deletes what is removed,
\* whosever the address that the form names.
StartEdit(r, i, f) ==
  /\ req[r].pc = "idle" /\ Found(i) /\ Fresh(f)
  /\ LET row == [OverlayForm(Read(i), f) EXCEPT !.images = EditedImages(tbl[i], f)]
     IN Loaded(r, [pc |-> IF row.status = "active" THEN "Reread" ELSE "Write",
                   op |-> "edit", i |-> i, row |-> row, seen |-> tbl[i],
                   named |-> DOMAIN f,
                   grounds |-> IF tbl[i].status = "archive" THEN {} ELSE {"public"}])
  /\ disk' = EditedDisk(tbl[i], f)
  /\ torn' = torn \cup {j \in {i} : Overlap(r, i)}
  /\ lent' = lent \cup Lent(tbl[i].images, f)
  /\ UNCHANGED <<kind, tbl, home, review, last, paid, cleaning>>

\* An edit that does not reach its last statement has already changed files.
Torn(r) == torn' = torn \cup {i \in {req[r].i} : req[r].op = "edit"}

\* The service reads the row again to see whether the edit activates it.
Reread(r) ==
  /\ req[r].pc = "Reread"
  /\ LET i == req[r].i
     IN \/ /\ ~ Found(i) /\ End(r) /\ Torn(r)
        \/ /\ Found(i) /\ UpdateNeedsPaid(tbl[i].status, req[r].row.status)
           /\ Goto(r, "CheckPaid") /\ UNCHANGED torn
        \/ /\ Found(i) /\ ~ UpdateNeedsPaid(tbl[i].status, req[r].row.status)
           /\ Loaded(r, [req[r] EXCEPT !.pc = "Write", !.grounds = @ \cup {"public"}])
           /\ UNCHANGED torn
  /\ UNCHANGED <<kind, tbl, home, review, last, disk, paid, cleaning, lent>>

\* HasActiveSubscription: one that has expired archives its listings first.
CheckPaid(r) ==
  /\ req[r].pc = "CheckPaid"
  /\ LET p == paid[req[r].row.owner]
     IN \/ /\ p = "active" /\ UNCHANGED torn
           /\ Loaded(r, [req[r] EXCEPT !.pc = "Write", !.grounds = @ \cup {"paid"}])
        \/ p = "expired" /\ Goto(r, "Lapse") /\ UNCHANGED torn
        \/ p = "none" /\ End(r) /\ Torn(r)
  /\ UNCHANGED <<kind, tbl, home, review, last, disk, paid, cleaning, lent>>

Lapse(r) ==
  /\ req[r].pc = "Lapse"
  /\ tbl' = ArchiveListingsByType(req[r].row.owner)
  /\ Torn(r) /\ End(r)
  /\ UNCHANGED <<kind, home, review, last, disk, paid, cleaning, lent>>

\* The last statement: INSERT, UPDATE of the whole row, or of its status.
Write(r) ==
  /\ req[r].pc = "Write"
  /\ LET q == req[r]
     IN \/ /\ q.op = "create" /\ last < MaxId
           /\ \E row \in Inserted(q.row) :
                tbl' = [i \in DOMAIN tbl \cup {last + 1} |->
                          IF i \in DOMAIN tbl THEN tbl[i] ELSE row]
           /\ last' = last + 1
        \/ /\ q.op = "edit" /\ q.i \in DOMAIN tbl
           /\ tbl' = Updated(q.i, q.row)
           /\ UNCHANGED last
        \/ /\ q.op = "restore" /\ q.i \in DOMAIN tbl
           /\ tbl' = WithStatus(q.i, "active")
           /\ UNCHANGED last
  /\ End(r)
  /\ UNCHANGED <<kind, home, review, disk, paid, cleaning, torn, lent>>

\* A statement fails, the row is gone, or the server stops.
Drop(r) ==
  /\ req[r].pc # "idle"
  /\ Torn(r) /\ End(r)
  /\ UNCHANGED <<kind, tbl, home, review, last, disk, paid, cleaning, lent>>

\* archive = 0: the owner is read first, where a subscription is asked for.
StartRestore(r, i) ==
  /\ req[r].pc = "idle"
  /\ UnarchiveNeedsPaid => Found(i)
  /\ Loaded(r, [Idle EXCEPT !.pc = IF UnarchiveNeedsPaid THEN "CheckPaid" ELSE "Write",
                            !.op = "restore", !.i = i, !.row = tbl[i]])
  /\ UNCHANGED <<kind, tbl, home, review, last, disk, paid, cleaning, torn, lent>>

\* archive = 1, whoever asks.
Archive(i) ==
  /\ tbl' = WithStatus(i, "archive")
  /\ UNCHANGED <<kind, home, review, last, disk, paid, cleaning, req, torn, lent>>

Delete(i) ==
  /\ tbl' = Deleted(i)
  /\ UNCHANGED <<kind, home, review, last, disk, paid, cleaning, req, torn, lent>>
-----------------------------------------------------------------------------
(* What other parts do to the same rows.                                   *)

\* A performer's order that is called off puts the listing back to active; a
\* client's listing follows its order.
OrderMoves(i) ==
  /\ \E s \in IF kind \in Executors THEN {"active"} ELSE {"in_progress", "done"} :
       tbl' = WithStatus(i, s)
  /\ UNCHANGED <<kind, home, review, last, disk, paid, cleaning, req, torn, lent>>

SetTop(i, t) ==
  /\ tbl' = [tbl EXCEPT ![i].top = t]
  /\ UNCHANGED <<kind, home, review, last, disk, paid, cleaning, req, torn, lent>>

ActivateTop(i) == SetTop(i, "active")
TopExpires(i) == tbl[i].top = "active" /\ SetTop(i, "expired")
ClearExpiredTop(i) == tbl[i].top = "expired" /\ SetTop(i, "none")
DeactivateTop(i) == SetTop(i, "none")

\* A review is written.
Rate(i) ==
  /\ \E n \in {1, 2} : review' = [review EXCEPT ![i] = n]
  /\ UNCHANGED <<kind, tbl, home, last, disk, paid, cleaning, req, torn, lent>>

\* A user names a city in the profile.
MoveHome(u) ==
  /\ \E c \in City : home' = [home EXCEPT ![u] = c]
  /\ UNCHANGED <<kind, tbl, review, last, disk, paid, cleaning, req, torn, lent>>

Expires(u) ==
  /\ paid[u] = "active" /\ paid' = [paid EXCEPT ![u] = "expired"]
  /\ UNCHANGED <<kind, tbl, home, review, last, disk, cleaning, req, torn, lent>>

ExtendSubscription(u) ==
  /\ paid' = [paid EXCEPT ![u] = "active"]
  /\ UNCHANGED <<kind, tbl, home, review, last, disk, cleaning, req, torn, lent>>

\* The cleaner lists the expired subscriptions, then archives one by one.
CleanerReads ==
  /\ cleaning = {} /\ cleaning' = {u \in User : paid[u] = "expired"}
  /\ UNCHANGED <<kind, tbl, home, review, last, disk, paid, req, torn, lent>>

CleanerArchives(u) ==
  /\ u \in cleaning /\ cleaning' = cleaning \ {u}
  /\ tbl' = ArchiveListingsByType(u)
  /\ UNCHANGED <<kind, home, review, last, disk, paid, req, torn, lent>>

CleanerStops ==
  /\ cleaning # {} /\ cleaning' = {}
  /\ UNCHANGED <<kind, tbl, home, review, last, disk, paid, req, torn, lent>>
-----------------------------------------------------------------------------
Requests(r) ==
  \/ \E u \in User, f \in NewForms : (\E b \in Now : StartCreate(r, u, f, b))
  \/ \E i \in DOMAIN tbl : StartRestore(r, i) \/ \E f \in EditForms : StartEdit(r, i, f)
  \/ Reread(r) \/ CheckPaid(r) \/ Lapse(r) \/ Write(r) \/ Drop(r)

MarketNext ==
  \/ \E r \in Slot : Requests(r)
  \/ \E i \in DOMAIN tbl :
       \/ Archive(i) \/ Delete(i) \/ OrderMoves(i) \/ Rate(i)
       \/ ActivateTop(i) \/ TopExpires(i) \/ ClearExpiredTop(i) \/ DeactivateTop(i)
  \/ \E u \in User :
       \/ MoveHome(u) \/ Expires(u) \/ ExtendSubscription(u) \/ CleanerArchives(u)
  \/ CleanerReads \/ CleanerStops

\* The cleaner's ticker fires for ever, and an archival that is tried again and
\* again succeeds at last.
MarketFairness ==
  /\ WF_marketVars(CleanerReads)
  /\ \A u \in User : SF_marketVars(CleanerArchives(u))

MarketSpec == MarketInit /\ [][MarketNext]_marketVars /\ MarketFairness
-----------------------------------------------------------------------------
(* Properties of the searches.                                             *)

Viewers == City \cup {NoCity}       \* the city of the viewer's token
Rows(answers) == UNION {{a.items[n] : n \in DOMAIN a.items} : a \in answers}
Archived(i) == tbl[i].status = "archive"

\* What is archived is found by no search (but by GET of work_ads, whose query
\* lacks the condition) and stays on its owner's list, from which it can be
\* restored.  That list (which anybody may read if it is of services, and anybody
\* signed in if of another kind) and GET /ads are no searches.
SearchesHideArchived ==
  \A i \in DOMAIN tbl : Archived(i) =>
    /\ \A a \in OwnList(tbl[i].owner) :
         a.ok /\ (kind \in WorkKinds => home[tbl[i].owner] # NoCity) => i \in Rows({a})
    /\ \A q \in Search, t \in Viewers :
      /\ i \notin Rows(PostList(PostQuery(q, t))) \cup Rows(LikesList(PostQuery(q, t)))
      /\ kind # "work_ad" =>
           i \notin Rows(GetPage(GetQuery(q, t))) \cup Rows(GetPage(SortedQuery(q, t)))

\* The three searches are written three times: signed in or not, a search by
\* POST finds the same listings; and so does GET for what the two forms can
\* both ask, of the listings that are in their owners' cities.
SearchesAgree ==
  \A i \in DOMAIN tbl, q \in Search, t \in Viewers :
    LET p == PostQuery(q, t)
        both == /\ (q.from > 0) = (q.to > 0)
                /\ q.stars = {} /\ q.want = {} /\ ~ q.round /\ ~ q.open
                /\ tbl[i].city = home[tbl[i].owner]
        all == GetPage([GetQuery(q, t) EXCEPT !.page = 1, !.limit = MaxId])
    IN /\ i \in Rows(PostList(p)) <=> i \in Rows(LikesList(p))
       /\ both /\ (\A a \in all : a.ok) =>
            (i \in Rows(PostList(p)) <=> i \in Rows(all) /\ ~ Archived(i))

\* No other match is of the same second.
Alone(q, i) ==
  \A j \in DOMAIN tbl \ {i} : GetMatch(q, j) => tbl[j].born # tbl[i].born

\* Going through the pages, by age, one sees each match on one page, whatever is
\* promoted (rows are moved within a page only), unless another match was created
\* in the same second: the database may order the two anew for each page.  What
\* does not match is on none.
PagesPartition ==
  \A i \in DOMAIN tbl, q \in Search, t \in Viewers, order \in {0, 1} :
    LET g == [GetQuery(q, t) EXCEPT !.sort = order]
        page(p) == GetPage([g EXCEPT !.page = p])
        on == {p \in 1 .. MaxId : i \in Rows(page(p))}
    IN q.limit > 0 /\ (\A p \in 1 .. MaxId : \A a \in page(p) : a.ok) =>
         /\ ~ GetMatch(g, i) => on = {}
         /\ GetMatch(g, i) /\ Alone(g, i) => \E p \in 1 .. MaxId : on = {p}

\* A listing on a page of GET can be opened, in the city searched, unless it is
\* a job whose owner names no city.  A phone is shown to who responded, and
\* hide_phone is honoured but by ad and work_ad.
ListedCanBeOpened ==
  \A i \in DOMAIN tbl :
    /\ \A q \in Search, t \in Viewers :
         LET g == GetQuery(q, t)
         IN i \in Rows(GetPage(g)) =>
              \/ kind \in WorkKinds /\ home[tbl[i].owner] = NoCity
              \/ kind = "work_ad" /\ Archived(i)
              \/ Found(i) /\ (g.city # NoCity => FoundIn(i, g.city))
    /\ \A b \in BOOLEAN :
         PhoneShown(i, b) => b /\ (tbl[i].hide => kind \in {"ad", "work_ad"})

\* The hours as they are meant: the end is exclusive, an end before the start
\* is the next day's, and 00:00 to 23:59 is all day.
OpenAt(h, t) ==
  CASE h = "unset" -> FALSE [] h = "day" -> t = 1 [] h = "night" -> t # 1
    [] OTHER -> TRUE

\* "Open now" departs from that only so: the database includes the end and
\* never opens a listing overnight; where the server compares, all day ends
\* at 23:59.  Whoever searches for round the clock gets what has such hours.
OpenHours ==
  \A i \in DOMAIN tbl, t \in Clock :
    LET h == tbl[i].hours
        found == i \in Rows(PostList(AnyQuery))
        open == i \in Rows(PostList([AnyQuery EXCEPT !.open = TRUE, !.now = t]))
        round == i \in Rows(PostList([AnyQuery EXCEPT !.round = TRUE]))
        bySql == kind \notin WorkKinds
    IN /\ round <=> found /\ h \in {"round", "roundSec"}
       /\ found => CASE h = "night" /\ bySql -> ~ open
                     [] h = "day" /\ bySql -> open <=> t \in {1, 2}
                     [] h = "round" -> open <=> t < (IF bySql THEN 4 ELSE 3)
                     [] h = "roundSec" /\ ~ bySql -> open <=> t < 5
                     [] OTHER -> open <=> OpenAt(h, t)

\* An owner's list by status is the part of the owner's whole list that has it,
\* in the same order, if both can be read; promoted listings come first.
OwnListsAgree ==
  \A u \in User, st \in ListStatus :
    \A a \in OwnListByStatus(u, st), b \in OwnList(u) :
      LET Has(i) == tbl[i].status = st
      IN /\ a.ok /\ b.ok => Rows({a}) = {i \in Rows({b}) : Has(i)}
         /\ b.ok => \A m, n \in DOMAIN b.items :
                      m < n /\ TopActive(b.items[n]) => TopActive(b.items[m])

\* The queries that state one condition in several places state the same one.
ListsAgree == SearchesAgree /\ OwnListsAgree
-----------------------------------------------------------------------------
(* Properties of the requests.                                             *)

Returned ==
  {i \in DOMAIN tbl \cap DOMAIN tbl' :
     kind \in Executors /\ Archived(i) /\ tbl'[i].status # "archive"}

Finished(r, i) == req[r].pc = "Write" /\ req[r].i = i /\ req'[r] = Idle

Refreshed == {"images", "stars", "liked"}

\* An edit writes back, for every field that its form does not name, what it
\* read before the uploads (so that it undoes what was changed meanwhile, be it
\* a promotion), but for the average (read afresh), the like (nobody's) and a
\* job's city, which becomes the owner's.
EditKeepsUnnamed ==
  [][\A r \in Slot :
       LET q == req[r]
           kept == DOMAIN q.row \ (q.named \cup Refreshed)
       IN q.op = "edit" /\ Finished(r, q.i) /\ tbl' # tbl =>
            \A x \in kept :
              tbl'[q.i][x] = q.seen[x] \/ (x = "city" /\ kind \in WorkKinds)]_marketVars

\* A file that a listing names is on disk and its address is answered, unless
\* an edit of the listing is under way, failed, or overlapped another, or some
\* request named the file by an address that its listing did not have when the
\* request read it (a stale list, another listing's image): nothing checks
\* those.  The addresses of work_ads and rent_ads are nobody's, or another
\* kind's.
FilesOfListingsExist ==
  \A i \in DOMAIN tbl \ torn :
    (\A r \in Slot : ~ (req[r].op = "edit" /\ req[r].i = i)) =>
      \A m \in tbl[i].images : m.file \notin lent =>
        /\ disk[m.file] = "there"
        /\ ImageServed(m) <=> kind \notin {"work_ad", "rent_ad"}

\* A performer's listing leaves the archive only by a request that found a
\* subscription, or by one of three ways round it: an edit that names a status
\* other than active, an edit that saw the listing when it was public, or an
\* order that is called off.
OnlyPaidReturns ==
  [][\A i \in Returned :
       \/ \E r \in Slot : Finished(r, i) /\ req[r].grounds # {}
       \/ \E r \in Slot :
            Finished(r, i) /\ req[r].op = "edit" /\ req[r].row.status # "active"
       \/ req' = req /\ tbl'[i].status = "active"]_marketVars

\* Once a subscription has expired, a moment comes when the performer has no
\* public listing, or has paid.
LapsedIsArchived ==
  \A u \in User :
    kind \in Executors /\ paid[u] = "expired" ~>
      \/ paid[u] # "expired"
      \/ \A i \in DOMAIN tbl : tbl[i].owner = u => Archived(i)
=============================================================================
