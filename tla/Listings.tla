------------------------------ MODULE Listings ------------------------------
(***************************************************************************)
(* What the six kinds of marketplace listings share: the row, the query of *)
(* a search, and the helpers of internal/repositories/top_sort.go and      *)
(* filter_utils.go.  A behaviour is about one kind; tbl is its table.      *)
(*                                                                         *)
(* A row keeps what a search, an edit or a permission looks at.  `traits'  *)
(* stands for the columns a filter compares with one value (negotiable,    *)
(* on_site, condition, rent_type, ...): a trait is a column with a value.  *)
(* `born' is the second of created_at: TIMESTAMPs keep no more, so several *)
(* listings may share one.                                                 *)
(***************************************************************************)
EXTENDS Integers, FiniteSets, Sequences

CONSTANTS
  User, City, NoCity,
  Sub, NoSub,       \* subcategories
  Trait, Language,  \* columns' values; the languages among them
  File              \* uploads

ASSUME ListingsAssumption ==
  NoCity \notin City /\ NoSub \notin Sub /\ Language \subseteq Trait

VARIABLES
  tbl,        \* the table: ids to rows
  home,       \* users.city_id
  review      \* the average of a listing's reviews, 0 when it has none

ListStatus == {"active", "pending", "archive", "in_progress", "done"}
NoPrice == -1                     \* NULL, which sorts below every price

\* The beginnings of the addresses that the kinds give to their uploads.
Address ==
  {"/images/services/", "/images/works/", "/images/rents/", "/images/ad/",
   "/images/worksad/", "/images/rent_ad/", "/images/rents_ad/"}

\* A link is an image that a client named by its address alone.
Image == [file : File, url : Address, link : BOOLEAN]

Row ==
  [owner : User, city : City \cup {NoCity}, sub : Sub \cup {NoSub},
   price : Int, traits : SUBSET Trait, hours : {"unset", "day", "night",
   "round", "roundSec"}, hide : BOOLEAN, stars : Nat, liked : BOOLEAN,
   top : {"none", "active", "expired"}, status : ListStatus, born : Nat,
   images : SUBSET Image]

\* Times of day: 00:00, 08:00, 20:00, 23:59:00, 23:59:30 and 23:59:59.
Clock == 0 .. 5

Query ==
  [city : City \cup {NoCity}, subs : SUBSET Sub, from : Int, to : Int,
   stars : SUBSET Int, want : SUBSET Trait, round : BOOLEAN, open : BOOLEAN,
   now : Clock, sort : Int, page : Int, limit : Int]

\* A search: city 0, an empty set, a price or rating of 0 mean "any".
AnyQuery ==
  [city |-> NoCity, subs |-> {}, from |-> 0, to |-> 0, stars |-> {},
   want |-> {}, round |-> FALSE, open |-> FALSE, now |-> 0, sort |-> 0,
   page |-> 0, limit |-> 0]

\* What a list request answers: the rows in order, or an error.
Answer(s) == [ok |-> TRUE, items |-> s]
Failed == [ok |-> FALSE, items |-> <<>>]

\* A form is a record of the fields it names, with the files it uploads (add),
\* the ones it asks to remove (del), and the images that it names itself: a
\* list to put for the listing's (images, existing_images) and links to add.
Overlaid(row, form) ==
  [x \in DOMAIN row |-> IF x \in DOMAIN form THEN form[x] ELSE row[x]]

BlankRow(u) ==
  [owner |-> u, city |-> NoCity, sub |-> NoSub, price |-> NoPrice,
   traits |-> {}, hours |-> "unset", hide |-> FALSE, stars |-> 0,
   liked |-> FALSE, top |-> "none", status |-> "", born |-> 0, images |-> {}]

Uploaded(form, address) ==
  {[file |-> f, url |-> address, link |-> FALSE] : f \in form.add}

\* An empty list is no list.
WithSent(images, form) ==
  (IF form.list = {} THEN images ELSE form.list) \cup form.links

\* Files that a form names by an address that is not among these images.
Lent(images, form) ==
  {m.file : m \in {l \in form.list \cup form.links :
                     \A n \in images : n.file # l.file \/ n.url # l.url}}

\* Conditions that several searches state.
PriceFrom(q, i) == q.from > 0 => tbl[i].price >= q.from
PriceUpTo(q, i) == q.to > 0 => tbl[i].price <= q.to /\ tbl[i].price # NoPrice
PriceBetween(q, i) ==
  q.from > 0 /\ q.to > 0 => tbl[i].price \in q.from .. q.to
SubIn(q, i) == q.subs = {} \/ tbl[i].sub \in q.subs
StarsIn(q, i) == q.stars = {} \/ tbl[i].stars \in q.stars
StarsAtLeast(q, i) == q.stars = {} \/ \E n \in q.stars : tbl[i].stars >= n

Always(i) == TRUE
-----------------------------------------------------------------------------
(* Hours, by the times of Clock.                                           *)

DayLength == 6
From(h) == CASE h = "day" -> 1 [] h = "night" -> 2 [] OTHER -> 0
To(h) ==
  CASE h = "day" -> 2 [] h = "night" -> 1 [] h = "round" -> 3 [] OTHER -> 5

\* TIME(NOW()) BETWEEN TIME(from) AND TIME(to); TIME('') is NULL.
SqlOpen(h, t) == h # "unset" /\ From(h) <= t /\ t <= To(h)

\* from/to are '00:00'/'23:59' or '00:00:00'/'23:59:59'.
SqlRound(h) == h \in {"round", "roundSec"}

isRoundTheClock(h) == h # "unset" /\ From(h) = 0 /\ To(h) >= 3

\* Slip: a listing open overnight is taken as never open.
isCurrentlyOpen_SameDay(h, t) == h # "unset" /\ From(h) <= t /\ t < To(h)

\* Open until the end exclusive; an end before the start is tomorrow's.
isCurrentlyOpen(h, t) ==
  LET overnight == To(h) < From(h)
      end == IF overnight THEN To(h) + DayLength ELSE To(h)
      current == IF overnight /\ t < From(h) THEN t + DayLength ELSE t
  IN h # "unset" /\ From(h) <= current /\ current < end

\* One of the required languages is among a listing's traits.
matchesLanguageFilter(required, available) ==
  required = {} \/ required \cap available # {}
-----------------------------------------------------------------------------
(* Order.  The database leaves the order of equal keys open, so a result   *)
(* is a set of sequences.                                                  *)

Arrangements(S, Before(_, _)) ==
  {s \in [1 .. Cardinality(S) -> S] :
     \A m, n \in DOMAIN s :
       m < n => s[m] # s[n] /\ ~ Before(s[n], s[m])}

Oldest(a, b) == tbl[a].born < tbl[b].born
Newest(a, b) == tbl[a].born > tbl[b].born
Cheapest(a, b) == tbl[a].price < tbl[b].price
Dearest(a, b) == tbl[a].price > tbl[b].price

TopActive(i) == tbl[i].top = "active"

\* The places of a stable sort, promoted rows first.
topFirst(s) ==
  Arrangements(DOMAIN s, LAMBDA m, n :
    IF TopActive(s[m]) = TopActive(s[n]) THEN m < n ELSE TopActive(s[m]))

\* Promoted rows move to the front of what was read; the rest keeps its order.
liftListingsTopOnly(s) ==
  LET p == CHOOSE p \in topFirst(s) : TRUE IN [n \in DOMAIN s |-> s[p[n]]]

\* Promoted first (latest activation first, which is left open here), then
\* the newest.
lessByTopState(a, b) ==
  \/ TopActive(a) /\ ~ TopActive(b)
  \/ ~ TopActive(a) /\ ~ TopActive(b) /\ Newest(a, b)

sortListingsByTop(S) == Arrangements(S, lessByTopState)

\* An unnamed status becomes pending; any other is kept.
normalizeListingStatus(s) == IF s = "" THEN "pending" ELSE s

\* Slip: a page reaches into the next.
Paged_OneMore(s, q) ==
  LET limit == IF q.limit < 1 THEN 10 ELSE q.limit
      first == (IF q.page < 1 THEN 0 ELSE q.page - 1) * limit + 1
      last == first + limit
  IN SubSeq(s, first, IF last > Len(s) THEN Len(s) ELSE last)

Paged(s, q) ==
  LET limit == IF q.limit < 1 THEN 10 ELSE q.limit
      first == (IF q.page < 1 THEN 0 ELSE q.page - 1) * limit + 1
      last == first + limit - 1
  IN SubSeq(s, first, IF last > Len(s) THEN Len(s) ELSE last)

\* Scanning stops at a row with a NULL in a column read into a plain value.
Scanned(s, Complete(_)) ==
  IF \A n \in DOMAIN s : Complete(s[n]) THEN Answer(s) ELSE Failed

LiftedAnswer(s, Complete(_)) == Scanned(liftListingsTopOnly(s), Complete)
=============================================================================
