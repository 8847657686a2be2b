-------------------------------- MODULE Ads ---------------------------------
(***************************************************************************)
(* Listings of kind ad, services that clients ask for: ad_handler.go,      *)
(* ad_service.go and ad_repository.go.  Operators over the table;          *)
(* the steps that use them are in Market.                                  *)
(***************************************************************************)
EXTENDS Listings

\* A form's absent fields take their zero value; an unnamed status is pending.
CreateAd(form) ==
  [Overlaid(BlankRow(form.owner), form) EXCEPT
     !.status = normalizeListingStatus(@)]

\* The address given to an upload.
SaveDir == "ad"
CreateURL == "/images/ad/"
EditURL == "/images/ad/"

\* Uploads are on disk before there is a row that names them.
SaveUploads(disk, form) ==
  [f \in File |-> IF f \in form.add THEN "there" ELSE disk[f]]

\* Uploads only: the images that the form names are not looked at.
NewImages(form) == Uploaded(form, CreateURL)

\* Only an edit that activates asks for a subscription (of the client).
CreateNeedsPaid == FALSE
UpdateNeedsPaid(old, new) == new = "active" /\ old # "active"
UnarchiveNeedsPaid == FALSE

\* INSERT: a city or a subcategory of 0 becomes NULL.
Inserted(row) == {row}

\* The name of the city is read into a plain value and, being a client's, not archived.
GetAdByID(i) ==
  /\ i \in DOMAIN tbl
  /\ tbl[i].city # NoCity /\ tbl[i].sub # NoSub
  /\ tbl[i].status # "archive"

GetAdByIDWithCity(i, c) == GetAdByID(i) /\ tbl[i].city = c

\* What an edit reads: the average is fresh and the viewer is nobody.
Read(i) == [tbl[i] EXCEPT !.stars = review[i], !.liked = FALSE]

\* The fields that the form names replace those read.
OverlayForm(row, form) ==
  [Overlaid(row, form) EXCEPT
     !.status = IF "status" \in DOMAIN form THEN normalizeListingStatus(@)
                                            ELSE @]

\* The images that the form names and the uploads, less what it removes.
CombinedImages(row, form) ==
  WithSent(row.images, form) \cup Uploaded(form, EditURL)

EditedImages(row, form) ==
  {m \in CombinedImages(row, form) : m.file \notin form.del}

\* Removed files are deleted before the row is written, be they another's or
\* this request's uploads, unless they are links or of another address.
EditedDisk(disk, row, form) ==
  LET gone == {m.file : m \in {n \in CombinedImages(row, form) :
                    n.file \in form.del /\ ~ n.link /\ n.url = EditURL}}
  IN [f \in File |-> IF f \in gone THEN "removed"
                     ELSE IF f \in form.add THEN "there" ELSE disk[f]]

UpdateAd(i, row) == [tbl EXCEPT ![i] = row]

DeleteAd(i) == [j \in DOMAIN tbl \ {i} |-> tbl[j]]

UpdateStatus(i, s) == [tbl EXCEPT ![i].status = s]

ArchiveByUserID(u) ==
  [i \in DOMAIN tbl |->
     IF tbl[i].owner = u THEN [tbl[i] EXCEPT !.status = "archive"] ELSE tbl[i]]
-----------------------------------------------------------------------------
(* GET: the filters that are not common to the kinds (on_site, languages,  *)
(* rent_type, ...) never reach the query.                                  *)

\* The city of the token when none is named.
GetQuery(q, token) == [q EXCEPT !.city = IF @ = NoCity THEN token ELSE @]

\* The sorted list: of every city, without other conditions.
SortedQuery(q, token) ==
  [AnyQuery EXCEPT !.sort = q.sort, !.page = q.page, !.limit = q.limit]

GetMatch(q, i) ==
  /\ tbl[i].status # "archive"
  /\ q.city = NoCity \/ tbl[i].city = q.city
  /\ PriceFrom(q, i) /\ PriceUpTo(q, i) /\ SubIn(q, i) /\ StarsIn(q, i)

GetBefore(q, a, b) ==
  CASE q.sort = 1 -> Oldest(a, b) [] q.sort = 2 -> Cheapest(a, b)
    [] q.sort = 3 -> Dearest(a, b) [] OTHER -> Newest(a, b)

\* The city's name and the subcategory are read into plain values.
Complete(i) == tbl[i].city # NoCity /\ tbl[i].sub # NoSub

GetAdWithFilters(q) ==
  LET found == {i \in DOMAIN tbl : GetMatch(q, i)}
      Before(a, b) == GetBefore(q, a, b)
  IN {LiftedAnswer(Paged(s, q), Complete) : s \in Arrangements(found, Before)}

GetAdByUserID(u) ==
  LET own == {i \in DOMAIN tbl : tbl[i].owner = u}
  IN {Scanned(s, Complete) : s \in sortListingsByTop(own)}

FetchAdByStatusAndUserID(u, st) ==
  LET own == {i \in DOMAIN tbl : tbl[i].owner = u /\ tbl[i].status = st}
      Whole(i) == tbl[i].sub # NoSub
  IN {Scanned(s, Whole) : s \in sortListingsByTop(own)}
-----------------------------------------------------------------------------
(* POST filtered: the city is the owner's, hours are compared by the       *)
(* database.                                                               *)

PostQuery(q, token) == [q EXCEPT !.city = IF @ = NoCity THEN token ELSE @]

PostMatch(q, i) ==
  /\ tbl[i].status # "archive"
  /\ q.city = NoCity \/ home[tbl[i].owner] = q.city
  /\ PriceBetween(q, i) /\ SubIn(q, i) /\ StarsAtLeast(q, i)
  /\ q.want \subseteq tbl[i].traits
  /\ q.round => SqlRound(tbl[i].hours)
  /\ q.open => SqlOpen(tbl[i].hours, q.now)

\* The numbers of the orders by price are the other way round than in GET.
PostBefore(q, a, b) ==
  CASE q.sort = 1 -> Oldest(a, b) [] q.sort = 2 -> Dearest(a, b)
    [] q.sort = 3 -> Cheapest(a, b) [] OTHER -> Newest(a, b)

GetFilteredAdPost(q) ==
  LET found == {i \in DOMAIN tbl : PostMatch(q, i)}
      Before(a, b) == PostBefore(q, a, b)
  IN {LiftedAnswer(s, Always) : s \in Arrangements(found, Before)}

\* The search for a signed-in viewer states its conditions again.
LikesMatch(q, i) ==
  /\ tbl[i].status # "archive"
  /\ q.city = NoCity \/ home[tbl[i].owner] = q.city
  /\ PriceBetween(q, i) /\ SubIn(q, i) /\ StarsAtLeast(q, i)
  /\ q.want \subseteq tbl[i].traits
  /\ q.round => SqlRound(tbl[i].hours)
  /\ q.open => SqlOpen(tbl[i].hours, q.now)

GetFilteredAdWithLikes(q) ==
  LET found == {i \in DOMAIN tbl : LikesMatch(q, i)}
      Before(a, b) == PostBefore(q, a, b)
  IN {LiftedAnswer(s, Always) : s \in Arrangements(found, Before)}

\* The owner's phone as a user who responded sees it: hide_phone is not asked.
GetAdByAdIDAndUserID(i, responded) ==
  i \in DOMAIN tbl /\ tbl[i].city # NoCity /\ tbl[i].sub # NoSub /\ responded
=============================================================================
