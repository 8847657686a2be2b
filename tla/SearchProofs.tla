----------------------------- MODULE SearchProofs ------------------------------
(***************************************************************************)
(* Theorems about the searches of Market, for any listings, queries and    *)
(* viewers and each of the six kinds.  What a search answers is left open  *)
(* where the database leaves an order open, so the proofs begin with       *)
(* putting a finite set in order: there is always a way, and a member      *)
(* whose key no other has is always at one place.  The six kinds' searches are then brought to one     *)
(* form, and a page, however promoted rows are moved on it, to the places  *)
(* that are its own.                                                       *)
(***************************************************************************)
EXTENDS MarketProofs, FiniteSetTheorems, SequenceTheorems

(* A finite set can be put in order.                                       *)

Line(D) == 1 .. Cardinality(D)

Total(D, Less) ==
  \A a, b \in D :
    /\ a # b => <<a, b>> \in Less \/ <<b, a>> \in Less
    /\ <<a, b>> \in Less => a # b /\ <<b, a>> \notin Less
    /\ \A c \in D : <<a, b>> \in Less /\ <<b, c>> \in Less => <<a, c>> \in Less

\* Every other member comes before or after this one.
Placed(D, Less, i) ==
  /\ <<i, i>> \notin Less
  /\ \A j \in D \ {i} : <<j, i>> \in Less <=> <<i, j>> \notin Less

Sorted(D, Less) ==
  {s \in [Line(D) -> D] :
     \A m, n \in Line(D) : m < n => s[m] # s[n] /\ <<s[n], s[m]>> \notin Less}

LEMMA LineIsFinite ==
  ASSUME NEW D, IsFiniteSet(D)
  PROVE  Cardinality(D)
           \in Nat /\ IsFiniteSet(Line(D)) /\ Cardinality(Line(D)) = Cardinality(D)
<1>1. Cardinality(D) \in Nat
  BY FS_CardinalityType
<1>2. 0 \in Int /\ 1 \in Int /\ Cardinality(D) \in Int
  BY <1>1
<1>3. IsFiniteSet(1 .. Cardinality(D))
      /\ Cardinality(1 .. Cardinality(D)) =
           IF 1 > Cardinality(D) THEN 0 ELSE Cardinality(D) - 1 + 1
  BY <1>2, FS_Interval
<1> QED BY <1>1, <1>3 DEF Line

\* A row of distinct members as long as the set holds every member.
LEMMA Onto ==
  ASSUME NEW D, IsFiniteSet(D), NEW s \in [Line(D) -> D],
         \A m, n \in Line(D) : m < n => s[m] # s[n], NEW i \in D
  PROVE  \E n \in Line(D) : s[n] = i
<1> SUFFICES ASSUME \A n \in Line(D) : s[n] # i PROVE FALSE
  OBVIOUS
<1>1. Cardinality(D)
        \in Nat /\ IsFiniteSet(Line(D)) /\ Cardinality(Line(D)) = Cardinality(D)
  BY LineIsFinite
<1>2. IsFiniteSet(D \ {i}) /\ Cardinality(D \ {i}) = Cardinality(D) - 1
  BY FS_RemoveElement
<1>3. s \in [Line(D) -> D \ {i}]
  OBVIOUS
<1>4. Cardinality(D \ {i}) < Cardinality(Line(D))
  BY <1>1, <1>2
<1>5. \E x, y \in Line(D) : x # y /\ s[x] = s[y]
  BY <1>1, <1>2, <1>3, <1>4, FS_PigeonHole
<1> QED BY <1>1, <1>5 DEF Line

\* How many come before.
Rank(D, Less, i) == Cardinality({j \in D : <<j, i>> \in Less}) + 1

LEMMA RankInLine ==
  ASSUME NEW D, IsFiniteSet(D), NEW Less, NEW i \in D, Placed(D, Less, i)
  PROVE  Rank(D, Less, i) \in Line(D)
<1> DEFINE T == {j \in D : <<j, i>> \in Less}
<1>1. T \in SUBSET (D \ {i})
  BY DEF Placed
<1>2. IsFiniteSet(D \ {i}) /\ Cardinality(D \ {i}) = Cardinality(D) - 1
  BY FS_RemoveElement
<1>3. IsFiniteSet(T) /\ Cardinality(T) <= Cardinality(D \ {i})
  BY <1>1, <1>2, FS_Subset
<1>4. Cardinality(T) \in Nat /\ Cardinality(D) \in Nat
  BY <1>3, FS_CardinalityType
<1> HIDE DEF T
<1>5. Cardinality(T) + 1 \in 1 .. Cardinality(D)
  BY <1>2, <1>3, <1>4
<1> QED BY <1>5 DEF Rank, Line, T

LEMMA RankGrows ==
  ASSUME NEW D, IsFiniteSet(D), NEW Less, Total(D, Less), NEW i \in D,
           NEW j \in D, <<i, j>> \in Less
  PROVE  Rank(D, Less, i) < Rank(D, Less, j)
<1> DEFINE T == {k \in D : <<k, i>> \in Less}
           U == {k \in D : <<k, j>> \in Less}
<1>1. T \cup {i} \in SUBSET U /\ i \notin T /\ T \in SUBSET D /\ U \in SUBSET D
  BY DEF Total
<1>2. IsFiniteSet(T) /\ IsFiniteSet(U)
  BY <1>1, FS_Subset
<1>3. Cardinality(T \cup {i}) = Cardinality(T) + 1
  BY <1>1, <1>2, FS_AddElement
<1>4. Cardinality(T \cup {i}) <= Cardinality(U)
  BY <1>1, <1>2, FS_Subset
<1>5. Cardinality(T) \in Nat /\ Cardinality(U) \in Nat
  BY <1>2, FS_CardinalityType
<1> HIDE DEF T, U
<1>6. Cardinality(T) + 1 < Cardinality(U) + 1
  BY <1>3, <1>4, <1>5
<1> QED BY <1>6 DEF Rank, T, U

\* The members by rank are in order.
LEMMA OrderExists ==
  ASSUME NEW D, IsFiniteSet(D), NEW Less, Total(D, Less) PROVE Sorted(D, Less) # {}
<1>1. PICK rank : rank = [i \in D |-> Rank(D, Less, i)]
  OBVIOUS
<1>2. rank \in [D -> Line(D)]
  <2>1. \A i \in D : Placed(D, Less, i)
    BY DEF Total, Placed
  <2> QED BY <1>1, <2>1, RankInLine
<1>3. \A i, j \in D : <<i, j>> \in Less => rank[i] < rank[j]
  BY <1>1, RankGrows
<1>4. Cardinality(D)
        \in Nat /\ IsFiniteSet(Line(D)) /\ Cardinality(Line(D)) = Cardinality(D)
  BY LineIsFinite
<1>5. Line(D) \subseteq Nat
  BY <1>4 DEF Line
<1>6. ASSUME NEW i \in D, NEW j \in D, i # j PROVE rank[i] # rank[j]
  <2>1. rank[i] \in Nat /\ rank[j] \in Nat
    BY <1>2, <1>5
  <2>2. rank[i] < rank[j] \/ rank[j] < rank[i]
    BY <1>3, <1>6 DEF Total
  <2> QED BY <2>1, <2>2
<1>7. \A n \in Line(D) : \E i \in D : rank[i] = n
  <2> SUFFICES ASSUME NEW n \in Line(D), \A i \in D : rank[i] # n PROVE FALSE
    OBVIOUS
  <2>1. IsFiniteSet(Line(D) \ {n}) /\ Cardinality(Line(D) \ {n}) =
          Cardinality(Line(D)) - 1
    BY <1>4, FS_RemoveElement
  <2>2. rank \in [D -> Line(D) \ {n}]
    BY <1>2
  <2>3. Cardinality(Line(D) \ {n}) < Cardinality(D)
    BY <1>4, <2>1
  <2>4. \E x, y \in D : x # y /\ rank[x] = rank[y]
    BY <2>1, <2>2, <2>3, FS_PigeonHole
  <2> QED BY <1>6, <2>4
<1>8. PICK s : s = [n \in Line(D) |-> CHOOSE i \in D : rank[i] = n]
  OBVIOUS
<1>9. s \in [Line(D) -> D] /\ \A n \in Line(D) : rank[s[n]] = n
  BY <1>7, <1>8
<1>10. ASSUME NEW m \in Line(D), NEW n \in Line(D), m < n
       PROVE  s[m] # s[n] /\ <<s[n], s[m]>> \notin Less
  BY <1>3, <1>5, <1>9, <1>10
<1>11. s \in Sorted(D, Less)
  BY <1>9, <1>10 DEF Sorted
<1> QED BY <1>11

\* The place of such a member is the same however the others are put.
LEMMA PlaceIsRank ==
  ASSUME NEW D, IsFiniteSet(D), NEW Less, NEW s \in Sorted(D, Less),
           NEW n \in Line(D), Placed(D, Less, s[n])
  PROVE  Rank(D, Less, s[n]) = n
<1>1. /\ s \in [Line(D) -> D]
      /\ \A l, m \in Line(D) : l < m => s[l] # s[m] /\ <<s[m], s[l]>> \notin Less
  BY DEF Sorted
<1>2. Cardinality(D) \in Nat /\ Line(D) \subseteq Nat /\ n \in Nat /\ n >= 1
  BY LineIsFinite DEF Line
<1>3. \A m \in Line(D) : m < n => <<s[m], s[n]>> \in Less
  BY <1>1 DEF Placed
<1>4. ASSUME NEW j \in D, <<j, s[n]>> \in Less PROVE \E m \in 1 .. n - 1 : s[m] = j
  <2>1. PICK m \in Line(D) : s[m] = j
    <3>1. s \in [Line(D) -> D] /\ \A k, m \in Line(D) : k < m => s[k] # s[m]
      BY <1>1
    <3> QED BY <3>1, Onto
  <2>2. m # n /\ ~ n < m
    BY <1>1, <1>4, <2>1 DEF Placed
  <2>3. m \in 1 .. n - 1
    BY <1>2, <2>2 DEF Line
  <2> QED BY <2>1, <2>3
<1>5. \A m \in 1 .. n - 1 : m \in Line(D) /\ m < n
  BY <1>2 DEF Line
<1>6. PICK T : T = {j \in D : <<j, s[n]>> \in Less}
  OBVIOUS
<1>7. PICK f : f = [m \in 1 .. n - 1 |-> s[m]]
  OBVIOUS
<1>8. f \in [1 .. n - 1 -> T]
  BY <1>1, <1>3, <1>5, <1>6, <1>7
<1>9. \A l, m \in 1 .. n - 1 : f[l] = f[m] => l = m
  <2> SUFFICES ASSUME NEW l \in 1 .. n - 1, NEW m \in 1 .. n - 1, f[l] = f[m], l # m
        PROVE FALSE
    OBVIOUS
  <2>1. l < m \/ m < l
    BY <1>2
  <2> QED BY <1>1, <1>5, <1>7, <2>1
<1>10. \A j \in T : \E m \in 1 .. n - 1 : f[m] = j
  BY <1>4, <1>6, <1>7
<1>11. f \in Bijection(1 .. n - 1, T)
  BY <1>8, <1>9, <1>10 DEF Bijection, Injection, Surjection, IsInjective
<1>12. ExistsBijection(1 .. n - 1, T)
  BY <1>11 DEF ExistsBijection
<1>13. n - 1 \in Nat
  BY <1>2
<1>14. Cardinality(T) = n - 1
  BY <1>12, <1>13, FS_CountingElements
<1> QED BY <1>2, <1>6, <1>14 DEF Rank
-----------------------------------------------------------------------------
(* The searches, in one form for the six kinds.                            *)

Complete(i) ==
  /\ tbl[i].sub # NoSub
  /\ kind \notin WorkKinds => tbl[i].city # NoCity

Shown(s) == IF \A n \in DOMAIN s : Complete(s[n]) THEN Answer(s) ELSE Failed

GetMatches(q, i) ==
  /\ kind # "work_ad" => tbl[i].status # "archive"
  /\ q.city = NoCity \/ tbl[i].city = q.city
  /\ PriceFrom(q, i) /\ PriceUpTo(q, i) /\ SubIn(q, i) /\ StarsIn(q, i)

PostMatches(q, i) ==
  /\ tbl[i].status # "archive"
  /\ q.city = NoCity \/ home[tbl[i].owner] = q.city
  /\ PriceBetween(q, i) /\ SubIn(q, i) /\ StarsAtLeast(q, i)
  /\ IF kind \in WorkKinds
       THEN /\ q.want \ Language \subseteq tbl[i].traits
            /\ matchesLanguageFilter(q.want \cap Language, tbl[i].traits)
            /\ q.round => isRoundTheClock(tbl[i].hours)
            /\ q.open => isCurrentlyOpen(tbl[i].hours, q.now)
       ELSE /\ q.want \subseteq tbl[i].traits
            /\ q.round => SqlRound(tbl[i].hours)
            /\ q.open => SqlOpen(tbl[i].hours, q.now)

GetFound(q) == {i \in DOMAIN tbl : GetMatches(q, i)}
PostFound(q) == {i \in DOMAIN tbl : PostMatches(q, i)}
OwnFound(u) ==
  {i \in DOMAIN tbl : tbl[i].owner = u /\ (kind \in WorkKinds => home[u] # NoCity)}
StatusFound(u, st) == {i \in DOMAIN tbl : tbl[i].owner = u /\ tbl[i].status = st}

Ids == (DOMAIN tbl) \X (DOMAIN tbl)
OrderBy(sort) ==
  {e \in Ids :
     \/ sort = 1 /\ tbl[e[1]].born < tbl[e[2]].born
     \/ sort = 2 /\ tbl[e[1]].price < tbl[e[2]].price
     \/ sort = 3 /\ tbl[e[1]].price > tbl[e[2]].price
     \/ sort \notin {1, 2, 3} /\ tbl[e[1]].born > tbl[e[2]].born}
\* The numbers of the orders by price are the other way round by POST.
PostSort(q) == IF q.sort = 2 THEN 3 ELSE IF q.sort = 3 THEN 2 ELSE q.sort
TopOrder == {e \in Ids : lessByTopState(e[1], e[2])}

LEMMA SameCardinality ==
  \A X :
    /\ S!Cardinality(X) = Cardinality(X)
    /\ W!Cardinality(X) = Cardinality(X)
    /\ R!Cardinality(X) = Cardinality(X)
    /\ A!Cardinality(X) = Cardinality(X)
    /\ WA!Cardinality(X) = Cardinality(X)
    /\ RA!Cardinality(X) = Cardinality(X)
BY DEF Cardinality, S!Cardinality, W!Cardinality, R!Cardinality, A!Cardinality,
     WA!Cardinality, RA!Cardinality

LEMMA SameLift ==
  ASSUME NEW s
  PROVE
  /\ S!liftListingsTopOnly(s) = liftListingsTopOnly(s)
  /\ W!liftListingsTopOnly(s) = liftListingsTopOnly(s)
  /\ R!liftListingsTopOnly(s) = liftListingsTopOnly(s)
  /\ A!liftListingsTopOnly(s) = liftListingsTopOnly(s)
  /\ WA!liftListingsTopOnly(s) = liftListingsTopOnly(s)
  /\ RA!liftListingsTopOnly(s) = liftListingsTopOnly(s)
<1>1. S!liftListingsTopOnly(s) = liftListingsTopOnly(s)
  <2>1. S!topFirst(s) = topFirst(s)
    BY SameCardinality DEF S!topFirst, topFirst, S!Arrangements, Arrangements,
         S!TopActive, TopActive
  <2> QED BY <2>1 DEF S!liftListingsTopOnly, liftListingsTopOnly
<1>2. W!liftListingsTopOnly(s) = liftListingsTopOnly(s)
  <2>1. W!topFirst(s) = topFirst(s)
    BY SameCardinality DEF W!topFirst, topFirst, W!Arrangements, Arrangements,
         W!TopActive, TopActive
  <2> QED BY <2>1 DEF W!liftListingsTopOnly, liftListingsTopOnly
<1>3. R!liftListingsTopOnly(s) = liftListingsTopOnly(s)
  <2>1. R!topFirst(s) = topFirst(s)
    BY SameCardinality DEF R!topFirst, topFirst, R!Arrangements, Arrangements,
         R!TopActive, TopActive
  <2> QED BY <2>1 DEF R!liftListingsTopOnly, liftListingsTopOnly
<1>4. A!liftListingsTopOnly(s) = liftListingsTopOnly(s)
  <2>1. A!topFirst(s) = topFirst(s)
    BY SameCardinality DEF A!topFirst, topFirst, A!Arrangements, Arrangements,
         A!TopActive, TopActive
  <2> QED BY <2>1 DEF A!liftListingsTopOnly, liftListingsTopOnly
<1>5. WA!liftListingsTopOnly(s) = liftListingsTopOnly(s)
  <2>1. WA!topFirst(s) = topFirst(s)
    BY SameCardinality DEF WA!topFirst, topFirst, WA!Arrangements, Arrangements,
         WA!TopActive, TopActive
  <2> QED BY <2>1 DEF WA!liftListingsTopOnly, liftListingsTopOnly
<1>6. RA!liftListingsTopOnly(s) = liftListingsTopOnly(s)
  <2>1. RA!topFirst(s) = topFirst(s)
    BY SameCardinality DEF RA!topFirst, topFirst, RA!Arrangements, Arrangements,
         RA!TopActive, TopActive
  <2> QED BY <2>1 DEF RA!liftListingsTopOnly, liftListingsTopOnly
<1> QED BY <1>1, <1>2, <1>3, <1>4, <1>5, <1>6

LEMMA SamePaged ==
  \A s, q :
    /\ S!Paged(s, q) = Paged(s, q)
    /\ W!Paged(s, q) = Paged(s, q)
    /\ R!Paged(s, q) = Paged(s, q)
    /\ A!Paged(s, q) = Paged(s, q)
    /\ WA!Paged(s, q) = Paged(s, q)
    /\ RA!Paged(s, q) = Paged(s, q)
BY DEF Paged, S!Paged, W!Paged, R!Paged, A!Paged, WA!Paged, RA!Paged

LEMMA GetSorted ==
  ASSUME NEW q, NEW found \in SUBSET DOMAIN tbl
  PROVE
  /\ S!Arrangements(found, LAMBDA a, b : S!GetBefore(q, a, b)) =
       Sorted(found, OrderBy(q.sort))
  /\ W!Arrangements(found, LAMBDA a, b : W!GetBefore(q, a, b)) =
       Sorted(found, OrderBy(q.sort))
  /\ R!Arrangements(found, LAMBDA a, b : R!GetBefore(q, a, b)) =
       Sorted(found, OrderBy(q.sort))
  /\ A!Arrangements(found, LAMBDA a, b : A!GetBefore(q, a, b)) =
       Sorted(found, OrderBy(q.sort))
  /\ WA!Arrangements(found, LAMBDA a, b : WA!GetBefore(q, a, b)) =
       Sorted(found, OrderBy(q.sort))
  /\ RA!Arrangements(found, LAMBDA a, b : RA!GetBefore(q, a, b)) =
       Sorted(found, OrderBy(q.sort))
<1>1. S!Arrangements(found, LAMBDA a, b : S!GetBefore(q, a, b)) =
        Sorted(found, OrderBy(q.sort))
  <2>1. ASSUME NEW a \in DOMAIN tbl, NEW b \in DOMAIN tbl
        PROVE  S!GetBefore(q, a, b) <=> <<a, b>> \in OrderBy(q.sort)
    <3>1. CASE q.sort = 1
      BY <3>1 DEF S!GetBefore, S!Oldest, OrderBy, Ids
    <3>2. CASE q.sort = 2
      BY <3>2 DEF S!GetBefore, S!Cheapest, OrderBy, Ids
    <3>3. CASE q.sort = 3
      BY <3>3 DEF S!GetBefore, S!Dearest, OrderBy, Ids
    <3>4. CASE q.sort \notin {1, 2, 3}
      BY <3>4 DEF S!GetBefore, S!Newest, OrderBy, Ids
    <3> QED BY <3>1, <3>2, <3>3, <3>4
  <2> QED BY <2>1, SameCardinality DEF S!Arrangements, Sorted, Line
<1>2. W!Arrangements(found, LAMBDA a, b : W!GetBefore(q, a, b)) =
        Sorted(found, OrderBy(q.sort))
  <2>1. ASSUME NEW a \in DOMAIN tbl, NEW b \in DOMAIN tbl
        PROVE  W!GetBefore(q, a, b) <=> <<a, b>> \in OrderBy(q.sort)
    <3>1. CASE q.sort = 1
      BY <3>1 DEF W!GetBefore, W!Oldest, OrderBy, Ids
    <3>2. CASE q.sort = 2
      BY <3>2 DEF W!GetBefore, W!Cheapest, OrderBy, Ids
    <3>3. CASE q.sort = 3
      BY <3>3 DEF W!GetBefore, W!Dearest, OrderBy, Ids
    <3>4. CASE q.sort \notin {1, 2, 3}
      BY <3>4 DEF W!GetBefore, W!Newest, OrderBy, Ids
    <3> QED BY <3>1, <3>2, <3>3, <3>4
  <2> QED BY <2>1, SameCardinality DEF W!Arrangements, Sorted, Line
<1>3. R!Arrangements(found, LAMBDA a, b : R!GetBefore(q, a, b)) =
        Sorted(found, OrderBy(q.sort))
  <2>1. ASSUME NEW a \in DOMAIN tbl, NEW b \in DOMAIN tbl
        PROVE  R!GetBefore(q, a, b) <=> <<a, b>> \in OrderBy(q.sort)
    <3>1. CASE q.sort = 1
      BY <3>1 DEF R!GetBefore, R!Oldest, OrderBy, Ids
    <3>2. CASE q.sort = 2
      BY <3>2 DEF R!GetBefore, R!Cheapest, OrderBy, Ids
    <3>3. CASE q.sort = 3
      BY <3>3 DEF R!GetBefore, R!Dearest, OrderBy, Ids
    <3>4. CASE q.sort \notin {1, 2, 3}
      BY <3>4 DEF R!GetBefore, R!Newest, OrderBy, Ids
    <3> QED BY <3>1, <3>2, <3>3, <3>4
  <2> QED BY <2>1, SameCardinality DEF R!Arrangements, Sorted, Line
<1>4. A!Arrangements(found, LAMBDA a, b : A!GetBefore(q, a, b)) =
        Sorted(found, OrderBy(q.sort))
  <2>1. ASSUME NEW a \in DOMAIN tbl, NEW b \in DOMAIN tbl
        PROVE  A!GetBefore(q, a, b) <=> <<a, b>> \in OrderBy(q.sort)
    <3>1. CASE q.sort = 1
      BY <3>1 DEF A!GetBefore, A!Oldest, OrderBy, Ids
    <3>2. CASE q.sort = 2
      BY <3>2 DEF A!GetBefore, A!Cheapest, OrderBy, Ids
    <3>3. CASE q.sort = 3
      BY <3>3 DEF A!GetBefore, A!Dearest, OrderBy, Ids
    <3>4. CASE q.sort \notin {1, 2, 3}
      BY <3>4 DEF A!GetBefore, A!Newest, OrderBy, Ids
    <3> QED BY <3>1, <3>2, <3>3, <3>4
  <2> QED BY <2>1, SameCardinality DEF A!Arrangements, Sorted, Line
<1>5. WA!Arrangements(found, LAMBDA a, b : WA!GetBefore(q, a, b)) =
        Sorted(found, OrderBy(q.sort))
  <2>1. ASSUME NEW a \in DOMAIN tbl, NEW b \in DOMAIN tbl
        PROVE  WA!GetBefore(q, a, b) <=> <<a, b>> \in OrderBy(q.sort)
    <3>1. CASE q.sort = 1
      BY <3>1 DEF WA!GetBefore, WA!Oldest, OrderBy, Ids
    <3>2. CASE q.sort = 2
      BY <3>2 DEF WA!GetBefore, WA!Cheapest, OrderBy, Ids
    <3>3. CASE q.sort = 3
      BY <3>3 DEF WA!GetBefore, WA!Dearest, OrderBy, Ids
    <3>4. CASE q.sort \notin {1, 2, 3}
      BY <3>4 DEF WA!GetBefore, WA!Newest, OrderBy, Ids
    <3> QED BY <3>1, <3>2, <3>3, <3>4
  <2> QED BY <2>1, SameCardinality DEF WA!Arrangements, Sorted, Line
<1>6. RA!Arrangements(found, LAMBDA a, b : RA!GetBefore(q, a, b)) =
        Sorted(found, OrderBy(q.sort))
  <2>1. ASSUME NEW a \in DOMAIN tbl, NEW b \in DOMAIN tbl
        PROVE  RA!GetBefore(q, a, b) <=> <<a, b>> \in OrderBy(q.sort)
    <3>1. CASE q.sort = 1
      BY <3>1 DEF RA!GetBefore, RA!Oldest, OrderBy, Ids
    <3>2. CASE q.sort = 2
      BY <3>2 DEF RA!GetBefore, RA!Cheapest, OrderBy, Ids
    <3>3. CASE q.sort = 3
      BY <3>3 DEF RA!GetBefore, RA!Dearest, OrderBy, Ids
    <3>4. CASE q.sort \notin {1, 2, 3}
      BY <3>4 DEF RA!GetBefore, RA!Newest, OrderBy, Ids
    <3> QED BY <3>1, <3>2, <3>3, <3>4
  <2> QED BY <2>1, SameCardinality DEF RA!Arrangements, Sorted, Line
<1> QED BY <1>1, <1>2, <1>3, <1>4, <1>5, <1>6

LEMMA PostSorted ==
  ASSUME NEW q, NEW found \in SUBSET DOMAIN tbl
  PROVE
  /\ S!Arrangements(found, LAMBDA a, b : S!PostBefore(q, a, b)) =
       Sorted(found, OrderBy(PostSort(q)))
  /\ W!Arrangements(found, LAMBDA a, b : W!PostBefore(q, a, b)) =
       Sorted(found, OrderBy(PostSort(q)))
  /\ R!Arrangements(found, LAMBDA a, b : R!PostBefore(q, a, b)) =
       Sorted(found, OrderBy(PostSort(q)))
  /\ A!Arrangements(found, LAMBDA a, b : A!PostBefore(q, a, b)) =
       Sorted(found, OrderBy(PostSort(q)))
  /\ WA!Arrangements(found, LAMBDA a, b : WA!PostBefore(q, a, b)) =
       Sorted(found, OrderBy(PostSort(q)))
  /\ RA!Arrangements(found, LAMBDA a, b : RA!PostBefore(q, a, b)) =
       Sorted(found, OrderBy(PostSort(q)))
<1>1. S!Arrangements(found, LAMBDA a, b : S!PostBefore(q, a, b)) =
        Sorted(found, OrderBy(PostSort(q)))
  <2>1. ASSUME NEW a \in DOMAIN tbl, NEW b \in DOMAIN tbl
        PROVE  S!PostBefore(q, a, b) <=> <<a, b>> \in OrderBy(PostSort(q))
    <3>1. CASE q.sort = 1
      BY <3>1 DEF S!PostBefore, S!Oldest, OrderBy, Ids, PostSort
    <3>2. CASE q.sort = 2
      BY <3>2 DEF S!PostBefore, S!Dearest, OrderBy, Ids, PostSort
    <3>3. CASE q.sort = 3
      BY <3>3 DEF S!PostBefore, S!Cheapest, OrderBy, Ids, PostSort
    <3>4. CASE q.sort \notin {1, 2, 3}
      BY <3>4 DEF S!PostBefore, S!Newest, OrderBy, Ids, PostSort
    <3> QED BY <3>1, <3>2, <3>3, <3>4
  <2> QED BY <2>1, SameCardinality DEF S!Arrangements, Sorted, Line
<1>2. W!Arrangements(found, LAMBDA a, b : W!PostBefore(q, a, b)) =
        Sorted(found, OrderBy(PostSort(q)))
  <2>1. ASSUME NEW a \in DOMAIN tbl, NEW b \in DOMAIN tbl
        PROVE  W!PostBefore(q, a, b) <=> <<a, b>> \in OrderBy(PostSort(q))
    <3>1. CASE q.sort = 1
      BY <3>1 DEF W!PostBefore, W!Oldest, OrderBy, Ids, PostSort
    <3>2. CASE q.sort = 2
      BY <3>2 DEF W!PostBefore, W!Dearest, OrderBy, Ids, PostSort
    <3>3. CASE q.sort = 3
      BY <3>3 DEF W!PostBefore, W!Cheapest, OrderBy, Ids, PostSort
    <3>4. CASE q.sort \notin {1, 2, 3}
      BY <3>4 DEF W!PostBefore, W!Newest, OrderBy, Ids, PostSort
    <3> QED BY <3>1, <3>2, <3>3, <3>4
  <2> QED BY <2>1, SameCardinality DEF W!Arrangements, Sorted, Line
<1>3. R!Arrangements(found, LAMBDA a, b : R!PostBefore(q, a, b)) =
        Sorted(found, OrderBy(PostSort(q)))
  <2>1. ASSUME NEW a \in DOMAIN tbl, NEW b \in DOMAIN tbl
        PROVE  R!PostBefore(q, a, b) <=> <<a, b>> \in OrderBy(PostSort(q))
    <3>1. CASE q.sort = 1
      BY <3>1 DEF R!PostBefore, R!Oldest, OrderBy, Ids, PostSort
    <3>2. CASE q.sort = 2
      BY <3>2 DEF R!PostBefore, R!Dearest, OrderBy, Ids, PostSort
    <3>3. CASE q.sort = 3
      BY <3>3 DEF R!PostBefore, R!Cheapest, OrderBy, Ids, PostSort
    <3>4. CASE q.sort \notin {1, 2, 3}
      BY <3>4 DEF R!PostBefore, R!Newest, OrderBy, Ids, PostSort
    <3> QED BY <3>1, <3>2, <3>3, <3>4
  <2> QED BY <2>1, SameCardinality DEF R!Arrangements, Sorted, Line
<1>4. A!Arrangements(found, LAMBDA a, b : A!PostBefore(q, a, b)) =
        Sorted(found, OrderBy(PostSort(q)))
  <2>1. ASSUME NEW a \in DOMAIN tbl, NEW b \in DOMAIN tbl
        PROVE  A!PostBefore(q, a, b) <=> <<a, b>> \in OrderBy(PostSort(q))
    <3>1. CASE q.sort = 1
      BY <3>1 DEF A!PostBefore, A!Oldest, OrderBy, Ids, PostSort
    <3>2. CASE q.sort = 2
      BY <3>2 DEF A!PostBefore, A!Dearest, OrderBy, Ids, PostSort
    <3>3. CASE q.sort = 3
      BY <3>3 DEF A!PostBefore, A!Cheapest, OrderBy, Ids, PostSort
    <3>4. CASE q.sort \notin {1, 2, 3}
      BY <3>4 DEF A!PostBefore, A!Newest, OrderBy, Ids, PostSort
    <3> QED BY <3>1, <3>2, <3>3, <3>4
  <2> QED BY <2>1, SameCardinality DEF A!Arrangements, Sorted, Line
<1>5. WA!Arrangements(found, LAMBDA a, b : WA!PostBefore(q, a, b)) =
        Sorted(found, OrderBy(PostSort(q)))
  <2>1. ASSUME NEW a \in DOMAIN tbl, NEW b \in DOMAIN tbl
        PROVE  WA!PostBefore(q, a, b) <=> <<a, b>> \in OrderBy(PostSort(q))
    <3>1. CASE q.sort = 1
      BY <3>1 DEF WA!PostBefore, WA!Oldest, OrderBy, Ids, PostSort
    <3>2. CASE q.sort = 2
      BY <3>2 DEF WA!PostBefore, WA!Dearest, OrderBy, Ids, PostSort
    <3>3. CASE q.sort = 3
      BY <3>3 DEF WA!PostBefore, WA!Cheapest, OrderBy, Ids, PostSort
    <3>4. CASE q.sort \notin {1, 2, 3}
      BY <3>4 DEF WA!PostBefore, WA!Newest, OrderBy, Ids, PostSort
    <3> QED BY <3>1, <3>2, <3>3, <3>4
  <2> QED BY <2>1, SameCardinality DEF WA!Arrangements, Sorted, Line
<1>6. RA!Arrangements(found, LAMBDA a, b : RA!PostBefore(q, a, b)) =
        Sorted(found, OrderBy(PostSort(q)))
  <2>1. ASSUME NEW a \in DOMAIN tbl, NEW b \in DOMAIN tbl
        PROVE  RA!PostBefore(q, a, b) <=> <<a, b>> \in OrderBy(PostSort(q))
    <3>1. CASE q.sort = 1
      BY <3>1 DEF RA!PostBefore, RA!Oldest, OrderBy, Ids, PostSort
    <3>2. CASE q.sort = 2
      BY <3>2 DEF RA!PostBefore, RA!Dearest, OrderBy, Ids, PostSort
    <3>3. CASE q.sort = 3
      BY <3>3 DEF RA!PostBefore, RA!Cheapest, OrderBy, Ids, PostSort
    <3>4. CASE q.sort \notin {1, 2, 3}
      BY <3>4 DEF RA!PostBefore, RA!Newest, OrderBy, Ids, PostSort
    <3> QED BY <3>1, <3>2, <3>3, <3>4
  <2> QED BY <2>1, SameCardinality DEF RA!Arrangements, Sorted, Line
<1> QED BY <1>1, <1>2, <1>3, <1>4, <1>5, <1>6

LEMMA TopSorted ==
  ASSUME NEW found \in SUBSET DOMAIN tbl
  PROVE
  /\ S!sortListingsByTop(found) = Sorted(found, TopOrder)
  /\ W!sortListingsByTop(found) = Sorted(found, TopOrder)
  /\ R!sortListingsByTop(found) = Sorted(found, TopOrder)
  /\ A!sortListingsByTop(found) = Sorted(found, TopOrder)
  /\ WA!sortListingsByTop(found) = Sorted(found, TopOrder)
  /\ RA!sortListingsByTop(found) = Sorted(found, TopOrder)
<1>1. S!sortListingsByTop(found) = Sorted(found, TopOrder)
  <2>1. \A a, b \in DOMAIN tbl : S!lessByTopState(a, b) <=> <<a, b>> \in TopOrder
    BY DEF S!lessByTopState, S!TopActive, S!Newest, lessByTopState, TopActive, Newest,
         TopOrder, Ids
  <2> QED BY <2>1, SameCardinality DEF S!sortListingsByTop, S!Arrangements, Sorted, Line
<1>2. W!sortListingsByTop(found) = Sorted(found, TopOrder)
  <2>1. \A a, b \in DOMAIN tbl : W!lessByTopState(a, b) <=> <<a, b>> \in TopOrder
    BY DEF W!lessByTopState, W!TopActive, W!Newest, lessByTopState, TopActive, Newest,
         TopOrder, Ids
  <2> QED BY <2>1, SameCardinality DEF W!sortListingsByTop, W!Arrangements, Sorted, Line
<1>3. R!sortListingsByTop(found) = Sorted(found, TopOrder)
  <2>1. \A a, b \in DOMAIN tbl : R!lessByTopState(a, b) <=> <<a, b>> \in TopOrder
    BY DEF R!lessByTopState, R!TopActive, R!Newest, lessByTopState, TopActive, Newest,
         TopOrder, Ids
  <2> QED BY <2>1, SameCardinality DEF R!sortListingsByTop, R!Arrangements, Sorted, Line
<1>4. A!sortListingsByTop(found) = Sorted(found, TopOrder)
  <2>1. \A a, b \in DOMAIN tbl : A!lessByTopState(a, b) <=> <<a, b>> \in TopOrder
    BY DEF A!lessByTopState, A!TopActive, A!Newest, lessByTopState, TopActive, Newest,
         TopOrder, Ids
  <2> QED BY <2>1, SameCardinality DEF A!sortListingsByTop, A!Arrangements, Sorted, Line
<1>5. WA!sortListingsByTop(found) = Sorted(found, TopOrder)
  <2>1. \A a, b \in DOMAIN tbl : WA!lessByTopState(a, b) <=> <<a, b>> \in TopOrder
    BY DEF WA!lessByTopState, WA!TopActive, WA!Newest, lessByTopState, TopActive,
         Newest, TopOrder, Ids
  <2> QED BY <2>1, SameCardinality DEF WA!sortListingsByTop, WA!Arrangements, Sorted,
      Line
<1>6. RA!sortListingsByTop(found) = Sorted(found, TopOrder)
  <2>1. \A a, b \in DOMAIN tbl : RA!lessByTopState(a, b) <=> <<a, b>> \in TopOrder
    BY DEF RA!lessByTopState, RA!TopActive, RA!Newest, lessByTopState, TopActive,
         Newest, TopOrder, Ids
  <2> QED BY <2>1, SameCardinality DEF RA!sortListingsByTop, RA!Arrangements, Sorted,
      Line
<1> QED BY <1>1, <1>2, <1>3, <1>4, <1>5, <1>6

LEMMA GetConditions ==
  ASSUME kind \in Kind, NEW q, NEW i PROVE GetMatch(q, i) <=> GetMatches(q, i)
<1>1. CASE kind = "service"
  <2>1. S!GetMatch(q, i) <=> GetMatches(q, i)
    BY <1>1 DEF GetMatches, S!GetMatch, S!NoPrice, S!PriceFrom, S!PriceUpTo, S!SubIn,
         S!StarsIn, PriceFrom, PriceUpTo, SubIn, StarsIn, NoPrice, WorkKinds
  <2>2. S!GetMatch(q, i) \in BOOLEAN
    BY <1>1 DEF S!GetMatch
  <2>3. GetMatch(q, i) = S!GetMatch(q, i)
    BY <1>1 DEF GetMatch, ByKind
  <2> QED BY <2>1, <2>2, <2>3
<1>2. CASE kind = "work"
  <2>1. W!GetMatch(q, i) <=> GetMatches(q, i)
    BY <1>2 DEF GetMatches, W!GetMatch, W!NoPrice, W!PriceFrom, W!PriceUpTo, W!SubIn,
         W!StarsIn, PriceFrom, PriceUpTo, SubIn, StarsIn, NoPrice, WorkKinds
  <2>2. W!GetMatch(q, i) \in BOOLEAN
    BY <1>2 DEF W!GetMatch
  <2>3. GetMatch(q, i) = W!GetMatch(q, i)
    BY <1>2 DEF GetMatch, ByKind
  <2> QED BY <2>1, <2>2, <2>3
<1>3. CASE kind = "rent"
  <2>1. R!GetMatch(q, i) <=> GetMatches(q, i)
    BY <1>3 DEF GetMatches, R!GetMatch, R!NoPrice, R!PriceFrom, R!PriceUpTo, R!SubIn,
         R!StarsIn, PriceFrom, PriceUpTo, SubIn, StarsIn, NoPrice, WorkKinds
  <2>2. R!GetMatch(q, i) \in BOOLEAN
    BY <1>3 DEF R!GetMatch
  <2>3. GetMatch(q, i) = R!GetMatch(q, i)
    BY <1>3 DEF GetMatch, ByKind
  <2> QED BY <2>1, <2>2, <2>3
<1>4. CASE kind = "ad"
  <2>1. A!GetMatch(q, i) <=> GetMatches(q, i)
    BY <1>4 DEF GetMatches, A!GetMatch, A!NoPrice, A!PriceFrom, A!PriceUpTo, A!SubIn,
         A!StarsIn, PriceFrom, PriceUpTo, SubIn, StarsIn, NoPrice, WorkKinds
  <2>2. A!GetMatch(q, i) \in BOOLEAN
    BY <1>4 DEF A!GetMatch
  <2>3. GetMatch(q, i) = A!GetMatch(q, i)
    BY <1>4 DEF GetMatch, ByKind
  <2> QED BY <2>1, <2>2, <2>3
<1>5. CASE kind = "work_ad"
  <2>1. WA!GetMatch(q, i) <=> GetMatches(q, i)
    BY <1>5 DEF GetMatches, WA!GetMatch, WA!NoPrice, WA!PriceFrom, WA!PriceUpTo,
         WA!SubIn, WA!StarsIn, PriceFrom, PriceUpTo, SubIn, StarsIn, NoPrice, WorkKinds
  <2>2. WA!GetMatch(q, i) \in BOOLEAN
    BY <1>5 DEF WA!GetMatch
  <2>3. GetMatch(q, i) = WA!GetMatch(q, i)
    BY <1>5 DEF GetMatch, ByKind
  <2> QED BY <2>1, <2>2, <2>3
<1>6. CASE kind = "rent_ad"
  <2>1. RA!GetMatch(q, i) <=> GetMatches(q, i)
    BY <1>6 DEF GetMatches, RA!GetMatch, RA!NoPrice, RA!PriceFrom, RA!PriceUpTo,
         RA!SubIn, RA!StarsIn, PriceFrom, PriceUpTo, SubIn, StarsIn, NoPrice, WorkKinds
  <2>2. RA!GetMatch(q, i) \in BOOLEAN
    BY <1>6 DEF RA!GetMatch
  <2>3. GetMatch(q, i) = RA!GetMatch(q, i)
    BY <1>6 DEF GetMatch, ByKind
  <2> QED BY <2>1, <2>2, <2>3
<1> QED BY <1>1, <1>2, <1>3, <1>4, <1>5, <1>6 DEF Kind

LEMMA GetPageIs ==
  ASSUME kind \in Kind, NEW q
  PROVE  GetPage(q) = {Shown(liftListingsTopOnly(Paged(s, q))) :
                        s \in Sorted(GetFound(q), OrderBy(q.sort))}
<1>1. CASE kind = "service"
  <2>1. GetPage(q) = {S!Scanned(liftListingsTopOnly(Paged(s, q)), LAMBDA i : S!Complete(i)) :
           s \in S!Arrangements({i
             \in DOMAIN tbl : S!GetMatch(q, i)}, LAMBDA a, b : S!GetBefore(q, a, b))}
    BY <1>1, SameLift, SamePaged DEF GetPage, ByKind, S!GetServicesWithFilters,
         S!LiftedAnswer, S!Arrangements, S!Scanned
  <2>2. {i \in DOMAIN tbl : S!GetMatch(q, i)} = GetFound(q)
    BY <1>1, GetConditions DEF GetFound, GetMatch, ByKind
  <2>3. \A s : S!Scanned(s, LAMBDA i : S!Complete(i)) = Shown(s)
    BY <1>1 DEF S!Scanned, Shown, S!Complete, Complete, WorkKinds, S!Answer, S!Failed,
         Answer, Failed
  <2>4. GetFound(q) \in SUBSET DOMAIN tbl
    BY DEF GetFound
  <2> QED BY <2>1, <2>2, <2>3, <2>4, GetSorted
<1>2. CASE kind = "work"
  <2>1. GetPage(q) = {W!Scanned(liftListingsTopOnly(Paged(s, q)), LAMBDA i : W!Complete(i)) :
           s \in W!Arrangements({i
             \in DOMAIN tbl : W!GetMatch(q, i)}, LAMBDA a, b : W!GetBefore(q, a, b))}
    BY <1>2, SameLift, SamePaged DEF GetPage, ByKind, W!GetWorksWithFilters,
         W!LiftedAnswer, W!Arrangements, W!Scanned
  <2>2. {i \in DOMAIN tbl : W!GetMatch(q, i)} = GetFound(q)
    BY <1>2, GetConditions DEF GetFound, GetMatch, ByKind
  <2>3. \A s : W!Scanned(s, LAMBDA i : W!Complete(i)) = Shown(s)
    BY <1>2 DEF W!Scanned, Shown, W!Complete, Complete, WorkKinds, W!Answer, W!Failed,
         Answer, Failed
  <2>4. GetFound(q) \in SUBSET DOMAIN tbl
    BY DEF GetFound
  <2> QED BY <2>1, <2>2, <2>3, <2>4, GetSorted
<1>3. CASE kind = "rent"
  <2>1. GetPage(q) = {R!Scanned(liftListingsTopOnly(Paged(s, q)), LAMBDA i : R!Complete(i)) :
           s \in R!Arrangements({i
             \in DOMAIN tbl : R!GetMatch(q, i)}, LAMBDA a, b : R!GetBefore(q, a, b))}
    BY <1>3, SameLift, SamePaged DEF GetPage, ByKind, R!GetRentsWithFilters,
         R!LiftedAnswer, R!Arrangements, R!Scanned
  <2>2. {i \in DOMAIN tbl : R!GetMatch(q, i)} = GetFound(q)
    BY <1>3, GetConditions DEF GetFound, GetMatch, ByKind
  <2>3. \A s : R!Scanned(s, LAMBDA i : R!Complete(i)) = Shown(s)
    BY <1>3 DEF R!Scanned, Shown, R!Complete, Complete, WorkKinds, R!Answer, R!Failed,
         Answer, Failed
  <2>4. GetFound(q) \in SUBSET DOMAIN tbl
    BY DEF GetFound
  <2> QED BY <2>1, <2>2, <2>3, <2>4, GetSorted
<1>4. CASE kind = "ad"
  <2>1. GetPage(q) = {A!Scanned(liftListingsTopOnly(Paged(s, q)), LAMBDA i : A!Complete(i)) :
           s \in A!Arrangements({i
             \in DOMAIN tbl : A!GetMatch(q, i)}, LAMBDA a, b : A!GetBefore(q, a, b))}
    BY <1>4, SameLift, SamePaged DEF GetPage, ByKind, A!GetAdWithFilters,
         A!LiftedAnswer, A!Arrangements, A!Scanned
  <2>2. {i \in DOMAIN tbl : A!GetMatch(q, i)} = GetFound(q)
    BY <1>4, GetConditions DEF GetFound, GetMatch, ByKind
  <2>3. \A s : A!Scanned(s, LAMBDA i : A!Complete(i)) = Shown(s)
    BY <1>4 DEF A!Scanned, Shown, A!Complete, Complete, WorkKinds, A!Answer, A!Failed,
         Answer, Failed
  <2>4. GetFound(q) \in SUBSET DOMAIN tbl
    BY DEF GetFound
  <2> QED BY <2>1, <2>2, <2>3, <2>4, GetSorted
<1>5. CASE kind = "work_ad"
  <2>1. GetPage(q) = {WA!Scanned(liftListingsTopOnly(Paged(s, q)), LAMBDA i : WA!Complete(i)) :
           s \in WA!Arrangements({i
             \in DOMAIN tbl : WA!GetMatch(q, i)}, LAMBDA a, b : WA!GetBefore(q, a, b))}
    BY <1>5, SameLift, SamePaged DEF GetPage, ByKind, WA!GetWorksAdWithFilters,
         WA!LiftedAnswer, WA!Arrangements, WA!Scanned
  <2>2. {i \in DOMAIN tbl : WA!GetMatch(q, i)} = GetFound(q)
    BY <1>5, GetConditions DEF GetFound, GetMatch, ByKind
  <2>3. \A s : WA!Scanned(s, LAMBDA i : WA!Complete(i)) = Shown(s)
    BY <1>5 DEF WA!Scanned, Shown, WA!Complete, Complete, WorkKinds, WA!Answer,
         WA!Failed, Answer, Failed
  <2>4. GetFound(q) \in SUBSET DOMAIN tbl
    BY DEF GetFound
  <2> QED BY <2>1, <2>2, <2>3, <2>4, GetSorted
<1>6. CASE kind = "rent_ad"
  <2>1. GetPage(q) = {RA!Scanned(liftListingsTopOnly(Paged(s, q)), LAMBDA i : RA!Complete(i)) :
           s \in RA!Arrangements({i
             \in DOMAIN tbl : RA!GetMatch(q, i)}, LAMBDA a, b : RA!GetBefore(q, a, b))}
    BY <1>6, SameLift, SamePaged DEF GetPage, ByKind, RA!GetRentsAdWithFilters,
         RA!LiftedAnswer, RA!Arrangements, RA!Scanned
  <2>2. {i \in DOMAIN tbl : RA!GetMatch(q, i)} = GetFound(q)
    BY <1>6, GetConditions DEF GetFound, GetMatch, ByKind
  <2>3. \A s : RA!Scanned(s, LAMBDA i : RA!Complete(i)) = Shown(s)
    BY <1>6 DEF RA!Scanned, Shown, RA!Complete, Complete, WorkKinds, RA!Answer,
         RA!Failed, Answer, Failed
  <2>4. GetFound(q) \in SUBSET DOMAIN tbl
    BY DEF GetFound
  <2> QED BY <2>1, <2>2, <2>3, <2>4, GetSorted
<1> QED BY <1>1, <1>2, <1>3, <1>4, <1>5, <1>6 DEF Kind

LEMMA PostListIs ==
  ASSUME kind \in Kind, NEW q
  PROVE  PostList(q) = {Answer(liftListingsTopOnly(s)) :
                         s \in Sorted(PostFound(q), OrderBy(PostSort(q)))}
<1>1. CASE kind = "service"
  <2>1. PostList(q) = {S!Scanned(liftListingsTopOnly(s), LAMBDA i : S!Always(i)) :
           s \in S!Arrangements({i
             \in DOMAIN tbl : S!PostMatch(q, i)}, LAMBDA a, b : S!PostBefore(q, a, b))}
    BY <1>1, SameLift DEF PostList, ByKind, S!GetFilteredServicesPost, S!LiftedAnswer,
         S!Arrangements, S!Scanned
  <2>2. \A i : S!PostMatch(q, i) <=> PostMatches(q, i)
    BY <1>1 DEF PostMatches, S!PostMatch, WorkKinds, PriceBetween, SubIn, StarsAtLeast,
         SqlOpen, SqlRound, From, To, S!PriceBetween, S!SubIn, S!StarsAtLeast,
         S!SqlOpen, S!SqlRound, S!From, S!To
  <2>3. \A s : S!Scanned(s, LAMBDA i : S!Always(i)) = Answer(s)
    BY DEF S!Scanned, S!Always, S!Answer, Answer
  <2>4. /\ {i \in DOMAIN tbl : S!PostMatch(q, i)} = PostFound(q)
        /\ PostFound(q) \in SUBSET DOMAIN tbl
    BY <2>2 DEF PostFound
  <2> QED BY <2>1, <2>3, <2>4, PostSorted
<1>2. CASE kind = "work"
  <2>1. PostList(q) = {W!Scanned(liftListingsTopOnly(s), LAMBDA i : W!Always(i)) :
           s \in W!Arrangements({i
             \in DOMAIN tbl : W!PostMatch(q, i)}, LAMBDA a, b : W!PostBefore(q, a, b))}
    BY <1>2, SameLift DEF PostList, ByKind, W!GetFilteredWorksPost, W!LiftedAnswer,
         W!Arrangements, W!Scanned
  <2>2. \A i : W!PostMatch(q, i) <=> PostMatches(q, i)
    BY <1>2 DEF PostMatches, W!PostMatch, WorkKinds, PriceBetween, SubIn, StarsAtLeast,
         isRoundTheClock, isCurrentlyOpen, matchesLanguageFilter, From, To, DayLength,
         W!PriceBetween, W!SubIn, W!StarsAtLeast, W!isRoundTheClock, W!isCurrentlyOpen,
         W!matchesLanguageFilter, W!From, W!To, W!DayLength
  <2>3. \A s : W!Scanned(s, LAMBDA i : W!Always(i)) = Answer(s)
    BY DEF W!Scanned, W!Always, W!Answer, Answer
  <2>4. /\ {i \in DOMAIN tbl : W!PostMatch(q, i)} = PostFound(q)
        /\ PostFound(q) \in SUBSET DOMAIN tbl
    BY <2>2 DEF PostFound
  <2> QED BY <2>1, <2>3, <2>4, PostSorted
<1>3. CASE kind = "rent"
  <2>1. PostList(q) = {R!Scanned(liftListingsTopOnly(s), LAMBDA i : R!Always(i)) :
           s \in R!Arrangements({i
             \in DOMAIN tbl : R!PostMatch(q, i)}, LAMBDA a, b : R!PostBefore(q, a, b))}
    BY <1>3, SameLift DEF PostList, ByKind, R!GetFilteredRentsPost, R!LiftedAnswer,
         R!Arrangements, R!Scanned
  <2>2. \A i : R!PostMatch(q, i) <=> PostMatches(q, i)
    BY <1>3 DEF PostMatches, R!PostMatch, WorkKinds, PriceBetween, SubIn, StarsAtLeast,
         SqlOpen, SqlRound, From, To, R!PriceBetween, R!SubIn, R!StarsAtLeast,
         R!SqlOpen, R!SqlRound, R!From, R!To
  <2>3. \A s : R!Scanned(s, LAMBDA i : R!Always(i)) = Answer(s)
    BY DEF R!Scanned, R!Always, R!Answer, Answer
  <2>4. /\ {i \in DOMAIN tbl : R!PostMatch(q, i)} = PostFound(q)
        /\ PostFound(q) \in SUBSET DOMAIN tbl
    BY <2>2 DEF PostFound
  <2> QED BY <2>1, <2>3, <2>4, PostSorted
<1>4. CASE kind = "ad"
  <2>1. PostList(q) = {A!Scanned(liftListingsTopOnly(s), LAMBDA i : A!Always(i)) :
           s \in A!Arrangements({i
             \in DOMAIN tbl : A!PostMatch(q, i)}, LAMBDA a, b : A!PostBefore(q, a, b))}
    BY <1>4, SameLift DEF PostList, ByKind, A!GetFilteredAdPost, A!LiftedAnswer,
         A!Arrangements, A!Scanned
  <2>2. \A i : A!PostMatch(q, i) <=> PostMatches(q, i)
    BY <1>4 DEF PostMatches, A!PostMatch, WorkKinds, PriceBetween, SubIn, StarsAtLeast,
         SqlOpen, SqlRound, From, To, A!PriceBetween, A!SubIn, A!StarsAtLeast,
         A!SqlOpen, A!SqlRound, A!From, A!To
  <2>3. \A s : A!Scanned(s, LAMBDA i : A!Always(i)) = Answer(s)
    BY DEF A!Scanned, A!Always, A!Answer, Answer
  <2>4. /\ {i \in DOMAIN tbl : A!PostMatch(q, i)} = PostFound(q)
        /\ PostFound(q) \in SUBSET DOMAIN tbl
    BY <2>2 DEF PostFound
  <2> QED BY <2>1, <2>3, <2>4, PostSorted
<1>5. CASE kind = "work_ad"
  <2>1. PostList(q) = {WA!Scanned(liftListingsTopOnly(s), LAMBDA i : WA!Always(i)) :
           s \in WA!Arrangements({i
             \in DOMAIN tbl : WA!PostMatch(q, i)}, LAMBDA a, b : WA!PostBefore(q, a, b))}
    BY <1>5, SameLift DEF PostList, ByKind, WA!GetFilteredWorksAdPost, WA!LiftedAnswer,
         WA!Arrangements, WA!Scanned
  <2>2. \A i : WA!PostMatch(q, i) <=> PostMatches(q, i)
    BY <1>5 DEF PostMatches, WA!PostMatch, WorkKinds, PriceBetween, SubIn, StarsAtLeast,
         isRoundTheClock, isCurrentlyOpen, matchesLanguageFilter, From, To, DayLength,
         WA!PriceBetween, WA!SubIn, WA!StarsAtLeast, WA!isRoundTheClock,
         WA!isCurrentlyOpen, WA!matchesLanguageFilter, WA!From, WA!To, WA!DayLength
  <2>3. \A s : WA!Scanned(s, LAMBDA i : WA!Always(i)) = Answer(s)
    BY DEF WA!Scanned, WA!Always, WA!Answer, Answer
  <2>4. /\ {i \in DOMAIN tbl : WA!PostMatch(q, i)} = PostFound(q)
        /\ PostFound(q) \in SUBSET DOMAIN tbl
    BY <2>2 DEF PostFound
  <2> QED BY <2>1, <2>3, <2>4, PostSorted
<1>6. CASE kind = "rent_ad"
  <2>1. PostList(q) = {RA!Scanned(liftListingsTopOnly(s), LAMBDA i : RA!Always(i)) :
           s \in RA!Arrangements({i
             \in DOMAIN tbl : RA!PostMatch(q, i)}, LAMBDA a, b : RA!PostBefore(q, a, b))}
    BY <1>6, SameLift DEF PostList, ByKind, RA!GetFilteredRentsAdPost, RA!LiftedAnswer,
         RA!Arrangements, RA!Scanned
  <2>2. \A i : RA!PostMatch(q, i) <=> PostMatches(q, i)
    BY <1>6 DEF PostMatches, RA!PostMatch, WorkKinds, PriceBetween, SubIn, StarsAtLeast,
         SqlOpen, SqlRound, From, To, RA!PriceBetween, RA!SubIn, RA!StarsAtLeast,
         RA!SqlOpen, RA!SqlRound, RA!From, RA!To
  <2>3. \A s : RA!Scanned(s, LAMBDA i : RA!Always(i)) = Answer(s)
    BY DEF RA!Scanned, RA!Always, RA!Answer, Answer
  <2>4. /\ {i \in DOMAIN tbl : RA!PostMatch(q, i)} = PostFound(q)
        /\ PostFound(q) \in SUBSET DOMAIN tbl
    BY <2>2 DEF PostFound
  <2> QED BY <2>1, <2>3, <2>4, PostSorted
<1> QED BY <1>1, <1>2, <1>3, <1>4, <1>5, <1>6 DEF Kind

LEMMA LikesListIs ==
  ASSUME kind \in Kind, NEW q
  PROVE  LikesList(q) = {Answer(liftListingsTopOnly(s)) :
                         s \in Sorted(PostFound(q), OrderBy(PostSort(q)))}
<1>1. CASE kind = "service"
  <2>1. LikesList(q) = {S!Scanned(liftListingsTopOnly(s), LAMBDA i : S!Always(i)) :
           s \in S!Arrangements({i
             \in DOMAIN tbl : S!LikesMatch(q, i)}, LAMBDA a, b : S!PostBefore(q, a, b))}
    BY <1>1, SameLift DEF LikesList, ByKind, S!GetFilteredServicesWithLikes,
         S!LiftedAnswer, S!Arrangements, S!Scanned
  <2>2. \A i : S!LikesMatch(q, i) <=> PostMatches(q, i)
    BY <1>1 DEF PostMatches, S!LikesMatch, WorkKinds, PriceBetween, SubIn, StarsAtLeast,
         SqlOpen, SqlRound, From, To, S!PriceBetween, S!SubIn, S!StarsAtLeast,
         S!SqlOpen, S!SqlRound, S!From, S!To
  <2>3. \A s : S!Scanned(s, LAMBDA i : S!Always(i)) = Answer(s)
    BY DEF S!Scanned, S!Always, S!Answer, Answer
  <2>4. /\ {i \in DOMAIN tbl : S!LikesMatch(q, i)} = PostFound(q)
        /\ PostFound(q) \in SUBSET DOMAIN tbl
    BY <2>2 DEF PostFound
  <2> QED BY <2>1, <2>3, <2>4, PostSorted
<1>2. CASE kind = "work"
  <2>1. LikesList(q) = {W!Scanned(liftListingsTopOnly(s), LAMBDA i : W!Always(i)) :
           s \in W!Arrangements({i
             \in DOMAIN tbl : W!LikesMatch(q, i)}, LAMBDA a, b : W!PostBefore(q, a, b))}
    BY <1>2, SameLift DEF LikesList, ByKind, W!GetFilteredWorksWithLikes,
         W!LiftedAnswer, W!Arrangements, W!Scanned
  <2>2. \A i : W!LikesMatch(q, i) <=> PostMatches(q, i)
    BY <1>2 DEF PostMatches, W!LikesMatch, WorkKinds, PriceBetween, SubIn, StarsAtLeast,
         isRoundTheClock, isCurrentlyOpen, matchesLanguageFilter, From, To, DayLength,
         W!PriceBetween, W!SubIn, W!StarsAtLeast, W!isRoundTheClock, W!isCurrentlyOpen,
         W!matchesLanguageFilter, W!From, W!To, W!DayLength
  <2>3. \A s : W!Scanned(s, LAMBDA i : W!Always(i)) = Answer(s)
    BY DEF W!Scanned, W!Always, W!Answer, Answer
  <2>4. /\ {i \in DOMAIN tbl : W!LikesMatch(q, i)} = PostFound(q)
        /\ PostFound(q) \in SUBSET DOMAIN tbl
    BY <2>2 DEF PostFound
  <2> QED BY <2>1, <2>3, <2>4, PostSorted
<1>3. CASE kind = "rent"
  <2>1. LikesList(q) = {R!Scanned(liftListingsTopOnly(s), LAMBDA i : R!Always(i)) :
           s \in R!Arrangements({i
             \in DOMAIN tbl : R!LikesMatch(q, i)}, LAMBDA a, b : R!PostBefore(q, a, b))}
    BY <1>3, SameLift DEF LikesList, ByKind, R!GetFilteredRentsWithLikes,
         R!LiftedAnswer, R!Arrangements, R!Scanned
  <2>2. \A i : R!LikesMatch(q, i) <=> PostMatches(q, i)
    BY <1>3 DEF PostMatches, R!LikesMatch, WorkKinds, PriceBetween, SubIn, StarsAtLeast,
         SqlOpen, SqlRound, From, To, R!PriceBetween, R!SubIn, R!StarsAtLeast,
         R!SqlOpen, R!SqlRound, R!From, R!To
  <2>3. \A s : R!Scanned(s, LAMBDA i : R!Always(i)) = Answer(s)
    BY DEF R!Scanned, R!Always, R!Answer, Answer
  <2>4. /\ {i \in DOMAIN tbl : R!LikesMatch(q, i)} = PostFound(q)
        /\ PostFound(q) \in SUBSET DOMAIN tbl
    BY <2>2 DEF PostFound
  <2> QED BY <2>1, <2>3, <2>4, PostSorted
<1>4. CASE kind = "ad"
  <2>1. LikesList(q) = {A!Scanned(liftListingsTopOnly(s), LAMBDA i : A!Always(i)) :
           s \in A!Arrangements({i
             \in DOMAIN tbl : A!LikesMatch(q, i)}, LAMBDA a, b : A!PostBefore(q, a, b))}
    BY <1>4, SameLift DEF LikesList, ByKind, A!GetFilteredAdWithLikes, A!LiftedAnswer,
         A!Arrangements, A!Scanned
  <2>2. \A i : A!LikesMatch(q, i) <=> PostMatches(q, i)
    BY <1>4 DEF PostMatches, A!LikesMatch, WorkKinds, PriceBetween, SubIn, StarsAtLeast,
         SqlOpen, SqlRound, From, To, A!PriceBetween, A!SubIn, A!StarsAtLeast,
         A!SqlOpen, A!SqlRound, A!From, A!To
  <2>3. \A s : A!Scanned(s, LAMBDA i : A!Always(i)) = Answer(s)
    BY DEF A!Scanned, A!Always, A!Answer, Answer
  <2>4. /\ {i \in DOMAIN tbl : A!LikesMatch(q, i)} = PostFound(q)
        /\ PostFound(q) \in SUBSET DOMAIN tbl
    BY <2>2 DEF PostFound
  <2> QED BY <2>1, <2>3, <2>4, PostSorted
<1>5. CASE kind = "work_ad"
  <2>1. LikesList(q) = {WA!Scanned(liftListingsTopOnly(s), LAMBDA i : WA!Always(i)) :
           s \in WA!Arrangements({i
             \in DOMAIN tbl : WA!LikesMatch(q, i)}, LAMBDA a, b : WA!PostBefore(q, a, b))}
    BY <1>5, SameLift DEF LikesList, ByKind, WA!GetFilteredWorksAdWithLikes,
         WA!LiftedAnswer, WA!Arrangements, WA!Scanned
  <2>2. \A i : WA!LikesMatch(q, i) <=> PostMatches(q, i)
    BY <1>5 DEF PostMatches, WA!LikesMatch, WorkKinds, PriceBetween, SubIn,
         StarsAtLeast, isRoundTheClock, isCurrentlyOpen, matchesLanguageFilter, From,
         To, DayLength, WA!PriceBetween, WA!SubIn, WA!StarsAtLeast, WA!isRoundTheClock,
         WA!isCurrentlyOpen, WA!matchesLanguageFilter, WA!From, WA!To, WA!DayLength
  <2>3. \A s : WA!Scanned(s, LAMBDA i : WA!Always(i)) = Answer(s)
    BY DEF WA!Scanned, WA!Always, WA!Answer, Answer
  <2>4. /\ {i \in DOMAIN tbl : WA!LikesMatch(q, i)} = PostFound(q)
        /\ PostFound(q) \in SUBSET DOMAIN tbl
    BY <2>2 DEF PostFound
  <2> QED BY <2>1, <2>3, <2>4, PostSorted
<1>6. CASE kind = "rent_ad"
  <2>1. LikesList(q) = {RA!Scanned(liftListingsTopOnly(s), LAMBDA i : RA!Always(i)) :
           s \in RA!Arrangements({i
             \in DOMAIN tbl : RA!LikesMatch(q, i)}, LAMBDA a, b : RA!PostBefore(q, a, b))}
    BY <1>6, SameLift DEF LikesList, ByKind, RA!GetFilteredRentsAdWithLikes,
         RA!LiftedAnswer, RA!Arrangements, RA!Scanned
  <2>2. \A i : RA!LikesMatch(q, i) <=> PostMatches(q, i)
    BY <1>6 DEF PostMatches, RA!LikesMatch, WorkKinds, PriceBetween, SubIn,
         StarsAtLeast, SqlOpen, SqlRound, From, To, RA!PriceBetween, RA!SubIn,
         RA!StarsAtLeast, RA!SqlOpen, RA!SqlRound, RA!From, RA!To
  <2>3. \A s : RA!Scanned(s, LAMBDA i : RA!Always(i)) = Answer(s)
    BY DEF RA!Scanned, RA!Always, RA!Answer, Answer
  <2>4. /\ {i \in DOMAIN tbl : RA!LikesMatch(q, i)} = PostFound(q)
        /\ PostFound(q) \in SUBSET DOMAIN tbl
    BY <2>2 DEF PostFound
  <2> QED BY <2>1, <2>3, <2>4, PostSorted
<1> QED BY <1>1, <1>2, <1>3, <1>4, <1>5, <1>6 DEF Kind

Whole(u, i) == tbl[i].sub # NoSub /\ (kind \in WorkKinds => home[u] # NoCity)
ShownTo(u, s) == IF \A n \in DOMAIN s : Whole(u, s[n]) THEN Answer(s) ELSE Failed

LEMMA OwnListIs ==
  ASSUME kind \in Kind, NEW u
  PROVE  OwnList(u) = {Shown(s) : s \in Sorted(OwnFound(u), TopOrder)}
<1>1. CASE kind = "service"
  <2>1. OwnList(u) = {S!Scanned(s, LAMBDA i : S!Complete(i))
          : s \in S!sortListingsByTop(OwnFound(u))}
    <3>1. {i \in DOMAIN tbl : tbl[i].owner = u} = OwnFound(u)
      BY <1>1 DEF OwnFound, WorkKinds
    <3> QED BY <1>1, <3>1 DEF OwnList, ByKind, S!GetServicesByUserID, S!Scanned
  <2>2. \A s : S!Scanned(s, LAMBDA i : S!Complete(i)) = Shown(s)
    BY <1>1 DEF S!Scanned, Shown, S!Complete, Complete, WorkKinds, S!Answer, S!Failed,
         Answer, Failed
  <2>3. OwnFound(u) \in SUBSET DOMAIN tbl
    BY DEF OwnFound
  <2> QED BY <2>1, <2>2, <2>3, TopSorted
<1>2. CASE kind = "work"
  <2>1. OwnList(u) = {W!Scanned(s, LAMBDA i : W!Complete(i))
          : s \in W!sortListingsByTop(OwnFound(u))}
    <3>1. {i \in DOMAIN tbl : tbl[i].owner = u /\ home[u] # NoCity} = OwnFound(u)
      BY <1>2 DEF OwnFound, WorkKinds
    <3> QED BY <1>2, <3>1 DEF OwnList, ByKind, W!GetWorksByUserID, W!Scanned
  <2>2. \A s : W!Scanned(s, LAMBDA i : W!Complete(i)) = Shown(s)
    BY <1>2 DEF W!Scanned, Shown, W!Complete, Complete, WorkKinds, W!Answer, W!Failed,
         Answer, Failed
  <2>3. OwnFound(u) \in SUBSET DOMAIN tbl
    BY DEF OwnFound
  <2> QED BY <2>1, <2>2, <2>3, TopSorted
<1>3. CASE kind = "rent"
  <2>1. OwnList(u) = {R!Scanned(s, LAMBDA i : R!Complete(i))
          : s \in R!sortListingsByTop(OwnFound(u))}
    <3>1. {i \in DOMAIN tbl : tbl[i].owner = u} = OwnFound(u)
      BY <1>3 DEF OwnFound, WorkKinds
    <3> QED BY <1>3, <3>1 DEF OwnList, ByKind, R!GetRentsByUserID, R!Scanned
  <2>2. \A s : R!Scanned(s, LAMBDA i : R!Complete(i)) = Shown(s)
    BY <1>3 DEF R!Scanned, Shown, R!Complete, Complete, WorkKinds, R!Answer, R!Failed,
         Answer, Failed
  <2>3. OwnFound(u) \in SUBSET DOMAIN tbl
    BY DEF OwnFound
  <2> QED BY <2>1, <2>2, <2>3, TopSorted
<1>4. CASE kind = "ad"
  <2>1. OwnList(u) = {A!Scanned(s, LAMBDA i : A!Complete(i))
          : s \in A!sortListingsByTop(OwnFound(u))}
    <3>1. {i \in DOMAIN tbl : tbl[i].owner = u} = OwnFound(u)
      BY <1>4 DEF OwnFound, WorkKinds
    <3> QED BY <1>4, <3>1 DEF OwnList, ByKind, A!GetAdByUserID, A!Scanned
  <2>2. \A s : A!Scanned(s, LAMBDA i : A!Complete(i)) = Shown(s)
    BY <1>4 DEF A!Scanned, Shown, A!Complete, Complete, WorkKinds, A!Answer, A!Failed,
         Answer, Failed
  <2>3. OwnFound(u) \in SUBSET DOMAIN tbl
    BY DEF OwnFound
  <2> QED BY <2>1, <2>2, <2>3, TopSorted
<1>5. CASE kind = "work_ad"
  <2>1. OwnList(u) = {WA!Scanned(s, LAMBDA i : WA!Complete(i))
          : s \in WA!sortListingsByTop(OwnFound(u))}
    <3>1. {i \in DOMAIN tbl : tbl[i].owner = u /\ home[u] # NoCity} = OwnFound(u)
      BY <1>5 DEF OwnFound, WorkKinds
    <3> QED BY <1>5, <3>1 DEF OwnList, ByKind, WA!GetWorksAdByUserID, WA!Scanned
  <2>2. \A s : WA!Scanned(s, LAMBDA i : WA!Complete(i)) = Shown(s)
    BY <1>5 DEF WA!Scanned, Shown, WA!Complete, Complete, WorkKinds, WA!Answer,
         WA!Failed, Answer, Failed
  <2>3. OwnFound(u) \in SUBSET DOMAIN tbl
    BY DEF OwnFound
  <2> QED BY <2>1, <2>2, <2>3, TopSorted
<1>6. CASE kind = "rent_ad"
  <2>1. OwnList(u) = {RA!Scanned(s, LAMBDA i : RA!Complete(i))
          : s \in RA!sortListingsByTop(OwnFound(u))}
    <3>1. {i \in DOMAIN tbl : tbl[i].owner = u} = OwnFound(u)
      BY <1>6 DEF OwnFound, WorkKinds
    <3> QED BY <1>6, <3>1 DEF OwnList, ByKind, RA!GetRentsAdByUserID, RA!Scanned
  <2>2. \A s : RA!Scanned(s, LAMBDA i : RA!Complete(i)) = Shown(s)
    BY <1>6 DEF RA!Scanned, Shown, RA!Complete, Complete, WorkKinds, RA!Answer,
         RA!Failed, Answer, Failed
  <2>3. OwnFound(u) \in SUBSET DOMAIN tbl
    BY DEF OwnFound
  <2> QED BY <2>1, <2>2, <2>3, TopSorted
<1> QED BY <1>1, <1>2, <1>3, <1>4, <1>5, <1>6 DEF Kind

LEMMA OwnListByStatusIs ==
  ASSUME kind \in Kind, NEW u, NEW st
  PROVE  OwnListByStatus(u, st) =
           {ShownTo(u, s) : s \in Sorted(StatusFound(u, st), TopOrder)}
<1>1. CASE kind = "service"
  <2>1. OwnListByStatus(u, st) =
          {S!Scanned(s, LAMBDA i : tbl[i].sub # NoSub)
            : s \in S!sortListingsByTop(StatusFound(u, st))}
    BY <1>1 DEF OwnListByStatus, ByKind, S!FetchByStatusAndUserID, S!Scanned,
         StatusFound
  <2>2. \A s : S!Scanned(s, LAMBDA i : tbl[i].sub # NoSub) = ShownTo(u, s)
    BY <1>1 DEF S!Scanned, ShownTo, Whole, WorkKinds, S!Answer, S!Failed, Answer, Failed
  <2>3. StatusFound(u, st) \in SUBSET DOMAIN tbl
    BY DEF StatusFound
  <2> QED BY <2>1, <2>2, <2>3, TopSorted
<1>2. CASE kind = "work"
  <2>1. OwnListByStatus(u, st) =
          {W!Scanned(s, LAMBDA i : tbl[i].sub # NoSub /\ home[u] # NoCity)
            : s \in W!sortListingsByTop(StatusFound(u, st))}
    BY <1>2 DEF OwnListByStatus, ByKind, W!FetchByStatusAndUserID, W!Scanned,
         StatusFound
  <2>2. \A s : W!Scanned(s, LAMBDA i : tbl[i].sub # NoSub /\ home[u] # NoCity) =
          ShownTo(u, s)
    BY <1>2 DEF W!Scanned, ShownTo, Whole, WorkKinds, W!Answer, W!Failed, Answer, Failed
  <2>3. StatusFound(u, st) \in SUBSET DOMAIN tbl
    BY DEF StatusFound
  <2> QED BY <2>1, <2>2, <2>3, TopSorted
<1>3. CASE kind = "rent"
  <2>1. OwnListByStatus(u, st) =
          {R!Scanned(s, LAMBDA i : tbl[i].sub # NoSub)
            : s \in R!sortListingsByTop(StatusFound(u, st))}
    BY <1>3 DEF OwnListByStatus, ByKind, R!FetchByStatusAndUserID, R!Scanned,
         StatusFound
  <2>2. \A s : R!Scanned(s, LAMBDA i : tbl[i].sub # NoSub) = ShownTo(u, s)
    BY <1>3 DEF R!Scanned, ShownTo, Whole, WorkKinds, R!Answer, R!Failed, Answer, Failed
  <2>3. StatusFound(u, st) \in SUBSET DOMAIN tbl
    BY DEF StatusFound
  <2> QED BY <2>1, <2>2, <2>3, TopSorted
<1>4. CASE kind = "ad"
  <2>1. OwnListByStatus(u, st) =
          {A!Scanned(s, LAMBDA i : tbl[i].sub # NoSub)
            : s \in A!sortListingsByTop(StatusFound(u, st))}
    BY <1>4 DEF OwnListByStatus, ByKind, A!FetchAdByStatusAndUserID, A!Scanned,
         StatusFound
  <2>2. \A s : A!Scanned(s, LAMBDA i : tbl[i].sub # NoSub) = ShownTo(u, s)
    BY <1>4 DEF A!Scanned, ShownTo, Whole, WorkKinds, A!Answer, A!Failed, Answer, Failed
  <2>3. StatusFound(u, st) \in SUBSET DOMAIN tbl
    BY DEF StatusFound
  <2> QED BY <2>1, <2>2, <2>3, TopSorted
<1>5. CASE kind = "work_ad"
  <2>1. OwnListByStatus(u, st) =
          {WA!Scanned(s, LAMBDA i : tbl[i].sub # NoSub /\ home[u] # NoCity)
            : s \in WA!sortListingsByTop(StatusFound(u, st))}
    BY <1>5 DEF OwnListByStatus, ByKind, WA!FetchByStatusAndUserID, WA!Scanned,
         StatusFound
  <2>2. \A s : WA!Scanned(s, LAMBDA i : tbl[i].sub # NoSub /\ home[u] # NoCity) =
          ShownTo(u, s)
    BY <1>5 DEF WA!Scanned, ShownTo, Whole, WorkKinds, WA!Answer, WA!Failed, Answer,
         Failed
  <2>3. StatusFound(u, st) \in SUBSET DOMAIN tbl
    BY DEF StatusFound
  <2> QED BY <2>1, <2>2, <2>3, TopSorted
<1>6. CASE kind = "rent_ad"
  <2>1. OwnListByStatus(u, st) =
          {RA!Scanned(s, LAMBDA i : tbl[i].sub # NoSub)
            : s \in RA!sortListingsByTop(StatusFound(u, st))}
    BY <1>6 DEF OwnListByStatus, ByKind, RA!FetchByStatusAndUserID, RA!Scanned,
         StatusFound
  <2>2. \A s : RA!Scanned(s, LAMBDA i : tbl[i].sub # NoSub) = ShownTo(u, s)
    BY <1>6 DEF RA!Scanned, ShownTo, Whole, WorkKinds, RA!Answer, RA!Failed, Answer,
         Failed
  <2>3. StatusFound(u, st) \in SUBSET DOMAIN tbl
    BY DEF StatusFound
  <2> QED BY <2>1, <2>2, <2>3, TopSorted
<1> QED BY <1>1, <1>2, <1>3, <1>4, <1>5, <1>6 DEF Kind
-----------------------------------------------------------------------------
(* A row of listings: what was found, stably sorted, and cut into pages.    *)

\* Everything that was found, and nothing else, is in the row.
LEMMA SortedHas ==
  ASSUME NEW D, IsFiniteSet(D), NEW Less, NEW s \in Sorted(D, Less)
  PROVE  /\ s \in [Line(D) -> D]
         /\ \A i : i \in D <=> \E n \in Line(D) : s[n] = i
<1>1. /\ s \in [Line(D) -> D]
      /\ \A m, n \in Line(D) : m < n => s[m] # s[n]
  BY DEF Sorted
<1>2. ASSUME NEW i \in D PROVE \E n \in Line(D) : s[n] = i
  BY <1>1, <1>2, Onto
<1> QED BY <1>1, <1>2

LEMMA KeyIsTotal ==
  ASSUME NEW D \in SUBSET Int, NEW Less, NEW K \in [D -> Int],
         \A a, b \in D : <<a, b>> \in Less <=> K[a] < K[b] \/ (K[a] = K[b] /\ a < b)
  PROVE  Total(D, Less)
<1>1. ASSUME NEW a \in D, NEW b \in D
      PROVE  /\ a # b => <<a, b>> \in Less \/ <<b, a>> \in Less
             /\ <<a, b>> \in Less => a # b /\ <<b, a>> \notin Less
             /\ \A c \in D : <<a, b>> \in Less /\ <<b, c>> \in Less => <<a, c>> \in Less
  <2>1. a \in Int /\ b \in Int /\ K[a] \in Int /\ K[b] \in Int
    OBVIOUS
  <2>2. \A c \in D : c \in Int /\ K[c] \in Int
    OBVIOUS
  <2>3. ASSUME NEW c \in D, <<a, b>> \in Less, <<b, c>> \in Less PROVE <<a, c>> \in Less
    <3>1. c \in Int /\ K[c] \in Int
      OBVIOUS
    <3>2. K[a] < K[b] \/ (K[a] = K[b] /\ a < b)
      BY <2>3
    <3>3. K[b] < K[c] \/ (K[b] = K[c] /\ b < c)
      BY <2>3
    <3>4. K[a] < K[c] \/ (K[a] = K[c] /\ a < c)
      BY <2>1, <3>1, <3>2, <3>3
    <3> QED BY <3>4
  <2>4. a # b => <<a, b>> \in Less \/ <<b, a>> \in Less
    BY <2>1
  <2>5. <<a, b>> \in Less => a # b /\ <<b, a>> \notin Less
    BY <2>1
  <2> QED BY <2>3, <2>4, <2>5
<1> QED BY <1>1 DEF Total

Long(s, c) == DOMAIN s = 1 .. c
Holds(s, i) == \E n \in DOMAIN s : s[n] = i

\* A stable sort only changes places.
LEMMA LiftedRows ==
  ASSUME NEW c \in Nat, NEW s, Long(s, c)
  PROVE  /\ Long(liftListingsTopOnly(s), c)
         /\ \A i : Holds(liftListingsTopOnly(s), i) <=> Holds(s, i)
<1>1. DOMAIN s = 1 .. c
  BY DEF Long
<1>2. PICK Less : Less = {e \in (1 .. c) \X (1 .. c) :
                    IF TopActive(s[e[1]]) = TopActive(s[e[2]]) THEN e[1] < e[2]
                    ELSE TopActive(s[e[1]])}
  OBVIOUS
<1>3. /\ 0 \in Int /\ 1 \in Int /\ c \in Int
      /\ IsFiniteSet(1 .. c)
  BY FS_Interval
<1>4. Cardinality(1 .. c) = c
  BY <1>3, FS_Interval
<1>5. PICK T : T = {m \in 1 .. c : TopActive(s[m])}
  OBVIOUS
<1>6. PICK K : K = [m \in 1 .. c |-> IF m \in T THEN 0 ELSE 1]
  OBVIOUS
<1>7. K \in [1 .. c -> Int] /\ \A m \in 1 .. c : K[m] = IF m \in T THEN 0 ELSE 1
  BY <1>6
<1>8. \A m, n \in 1 .. c :
        <<m, n>> \in Less <=>
          IF TopActive(s[m]) = TopActive(s[n]) THEN m < n ELSE TopActive(s[m])
  BY <1>2
<1>9. \A m, n \in 1 .. c : <<m, n>> \in Less <=> K[m] < K[n] \/ (K[m] = K[n] /\ m < n)
  <2>1. ASSUME NEW m \in 1 .. c, NEW n \in 1 .. c
        PROVE  <<m, n>> \in Less <=> K[m] < K[n] \/ (K[m] = K[n] /\ m < n)
    <3>1. <<m, n>> \in Less <=> IF m \in T <=> n \in T THEN m < n ELSE m \in T
      BY <1>5, <1>8 DEF TopActive
    <3> QED BY <1>7, <3>1
  <2> QED BY <2>1
<1>10. Total(1 .. c, Less)
  <2>1. 1 .. c \in SUBSET Int
    OBVIOUS
  <2> QED BY <1>7, <1>9, <2>1, KeyIsTotal
<1>11. Line(1 .. c) = 1 .. c
  BY <1>4 DEF Line
<1>12. topFirst(s) = Sorted(1 .. c, Less)
  <2>1. topFirst(s) =
          {p \in [1 .. c -> 1 .. c] :
             \A m, n \in DOMAIN p :
               m < n => p[m] # p[n]
                        /\ ~ (IF TopActive(s[p[n]]) =
                             TopActive(s[p[m]]) THEN p[n] < p[m]
                              ELSE TopActive(s[p[n]]))}
    BY <1>1, <1>4 DEF topFirst, Arrangements
  <2>2. \A p \in [1 .. c -> 1 .. c] : \A m, n \in 1 .. c :
          <<p[n], p[m]>> \in Less <=>
             IF TopActive(s[p[n]]) =
               TopActive(s[p[m]]) THEN p[n] < p[m] ELSE TopActive(s[p[n]])
    BY <1>8
  <2>3. ASSUME NEW p PROVE p \in topFirst(s) <=> p \in Sorted(1 .. c, Less)
    <3>1. p \in Sorted(1 .. c, Less) <=>
            /\ p \in [1 .. c -> 1 .. c]
            /\ \A m, n \in 1 .. c : m < n => p[m] # p[n] /\ <<p[n], p[m]>> \notin Less
      BY <1>11 DEF Sorted
    <3>2. CASE p \in [1 .. c -> 1 .. c]
      <4>1. DOMAIN p = 1 .. c
        BY <3>2
      <4> QED BY <2>1, <2>2, <3>1, <3>2, <4>1
    <3> QED BY <2>1, <3>1, <3>2
  <2> QED BY <2>3
<1>13. PICK p : p \in topFirst(s) /\ liftListingsTopOnly(s) = [n \in 1 .. c |-> s[p[n]]]
  <2>1. topFirst(s) # {}
    BY <1>3, <1>10, <1>12, OrderExists
  <2>2. PICK p : p = CHOOSE x \in topFirst(s) : TRUE
    OBVIOUS
  <2>3. p \in topFirst(s)
    BY <2>1, <2>2
  <2>4. liftListingsTopOnly(s) = [n \in DOMAIN s |-> s[p[n]]]
    BY <2>2 DEF liftListingsTopOnly
  <2> QED BY <1>1, <2>3, <2>4
<1>14. p \in [1 .. c -> 1 .. c] /\ \A i : i \in 1 .. c <=> \E n \in 1 .. c : p[n] = i
  <2>1. p \in Sorted(1 .. c, Less)
    BY <1>12, <1>13
  <2>2. /\ p \in [Line(1 .. c) -> 1 .. c]
        /\ \A i : i \in 1 .. c <=> \E n \in Line(1 .. c) : p[n] = i
    <3>1. IsFiniteSet(1 .. c)
      BY <1>3
    <3>2. PICK X : X = 1 .. c
      OBVIOUS
    <3>3. IsFiniteSet(X) /\ p \in Sorted(X, Less)
      BY <2>1, <3>1, <3>2
    <3>4. p \in [Line(X) -> X] /\ \A i : i \in X <=> \E n \in Line(X) : p[n] = i
      BY <3>3, SortedHas
    <3> QED BY <3>2, <3>4
  <2> QED BY <1>11, <2>2
<1>15. DOMAIN liftListingsTopOnly(s) = 1 .. c
  BY <1>13
<1>16. \A n \in 1 .. c : liftListingsTopOnly(s)[n] = s[p[n]]
  BY <1>13
<1>17. ASSUME NEW n \in 1 .. c PROVE \E m \in 1 .. c : liftListingsTopOnly(s)[m] = s[n]
  <2>1. PICK m \in 1 .. c : p[m] = n
    BY <1>14
  <2> QED BY <1>16, <2>1
<1>18. ASSUME NEW n \in 1 .. c PROVE \E m \in 1 .. c : s[m] = liftListingsTopOnly(s)[n]
  BY <1>14, <1>16
<1> QED BY <1>1, <1>15, <1>17, <1>18 DEF Long, Holds

Limit(q) == IF q.limit < 1 THEN 10 ELSE q.limit
FirstOf(q) == (IF q.page < 1 THEN 0 ELSE q.page - 1) * Limit(q) + 1
OnPage(q, m) == FirstOf(q) <= m /\ m <= FirstOf(q) + Limit(q) - 1
Reached(q, s, i) == \E m \in DOMAIN s : OnPage(q, m) /\ s[m] = i

LEMMA PagedRows ==
  ASSUME NEW c \in Nat, NEW s \in Seq(Int), Long(s, c),
           NEW q, q.page \in Int, q.limit \in Int
  PROVE  /\ \E k \in Nat : Long(Paged(s, q), k)
         /\ \A i : Holds(Paged(s, q), i) <=> Reached(q, s, i)
<1>1. DOMAIN s = 1 .. c
  BY DEF Long
<1>2. Limit(q) \in Int /\ Limit(q) >= 1
  BY DEF Limit
<1>3. PICK first : first = FirstOf(q)
  OBVIOUS
<1>4. first \in Int /\ first >= 1
  <2>1. PICK p \in Nat : p = IF q.page < 1 THEN 0 ELSE q.page - 1
    OBVIOUS
  <2>2. PICK k \in Nat : k = Limit(q)
    BY <1>2
  <2>3. p * k \in Nat
    OBVIOUS
  <2>4. first = p * k + 1
    BY <1>3, <2>1, <2>2 DEF FirstOf
  <2> QED BY <2>3, <2>4
<1>5. PICK end : end = IF first + Limit(q) - 1 > c THEN c ELSE first + Limit(q) - 1
  OBVIOUS
<1>6. end \in Int /\ end <= c
  BY <1>2, <1>4, <1>5
<1>7. Len(s) = c
  BY <1>1
<1>8. Paged(s, q) = SubSeq(s, first, end)
  BY <1>3, <1>5, <1>7 DEF Paged, FirstOf, Limit
<1>9. PICK k \in Nat : k = IF first <= end THEN end - first + 1 ELSE 0
  <2>1. (IF first <= end THEN end - first + 1 ELSE 0) \in Nat
    BY <1>4, <1>6
  <2> QED BY <2>1
<1>10. \A i \in first .. end : s[i] \in Int
  BY <1>1, <1>4, <1>6
<1>11. /\ SubSeq(s, first, end) \in Seq(Int)
       /\ Len(SubSeq(s, first, end)) = k
       /\ \A i \in 1 .. end - first + 1 : SubSeq(s, first, end)[i] = s[first + i - 1]
  BY <1>4, <1>6, <1>9, <1>10, SubSeqProperties
<1>12. DOMAIN Paged(s, q) = 1 .. k
  BY <1>8, <1>11
<1>13. ASSUME NEW n \in 1 .. k
       PROVE  /\ first + n - 1 \in 1 .. c /\ OnPage(q, first + n - 1)
              /\ Paged(s, q)[n] = s[first + n - 1]
  <2>1. first <= end /\ k = end - first + 1
    BY <1>9, <1>13
  <2>2. first + n - 1 \in 1 .. c /\ first <= first + n - 1 /\ first + n - 1 <= end
    BY <1>4, <1>6, <2>1
  <2>3. end <= first + Limit(q) - 1
    BY <1>2, <1>4, <1>5
  <2>4. Paged(s, q)[n] = s[first + n - 1]
    BY <1>8, <1>11, <2>1
  <2>5. first + n - 1 <= first + Limit(q) - 1
    BY <1>2, <1>4, <1>6, <2>2, <2>3
  <2> QED BY <1>3, <2>2, <2>4, <2>5 DEF OnPage
<1>14. ASSUME NEW m \in 1 .. c, OnPage(q, m)
       PROVE  /\ m - first + 1 \in 1 .. k
              /\ Paged(s, q)[m - first + 1] = s[m]
  <2>1. first <= m /\ m <= end
    BY <1>2, <1>3, <1>4, <1>5, <1>14 DEF OnPage
  <2>2. m - first + 1 \in 1 .. k /\ first + (m - first + 1) - 1 = m
    BY <1>4, <1>6, <1>9, <2>1
  <2> QED BY <1>8, <1>9, <1>11, <2>2
<1> QED BY <1>1, <1>12, <1>13, <1>14 DEF Long, Holds, Reached

\* Where the order goes by a number, or leaves ties, there is an arrangement too.
LEMMA KeyOrder ==
  ASSUME NEW D \in SUBSET Int, IsFiniteSet(D), NEW Less, NEW K \in [D -> Int],
         \A a, b \in D : <<a, b>> \in Less => K[a] < K[b]
  PROVE  Sorted(D, Less) # {}
<1>1. PICK Q : Q = {e
        \in D \X D : K[e[1]] < K[e[2]] \/ (K[e[1]] = K[e[2]] /\ e[1] < e[2])}
  OBVIOUS
<1>2. \A a, b \in D : <<a, b>> \in Q <=> K[a] < K[b] \/ (K[a] = K[b] /\ a < b)
  BY <1>1
<1>3. Total(D, Q)
  BY <1>2, KeyIsTotal
<1>4. PICK s : s \in Sorted(D, Q)
  BY <1>3, OrderExists
<1>5. ASSUME NEW m \in Line(D), NEW n \in Line(D), m < n
      PROVE  s[m] # s[n] /\ <<s[n], s[m]>> \notin Less
  <2>1. s[m] \in D /\ s[n] \in D /\ s[m] # s[n] /\ <<s[n], s[m]>> \notin Q
    BY <1>4, <1>5 DEF Sorted
  <2>2. K[s[m]] \in Int /\ K[s[n]] \in Int /\ s[m] \in Int /\ s[n] \in Int
    BY <2>1
  <2>3. ~ (K[s[n]] < K[s[m]])
    BY <1>2, <2>1
  <2>4. <<s[n], s[m]>> \in Less => K[s[n]] < K[s[m]]
    BY <2>1
  <2> QED BY <2>1, <2>3, <2>4
<1> QED BY <1>4, <1>5 DEF Sorted

\* What a search finds is finite and the database can put it in order.
LEMMA FoundIsFinite ==
  ASSUME TypeInv, NEW found \in SUBSET DOMAIN tbl
  PROVE  /\ IsFiniteSet(found) /\ found \in SUBSET Int
         /\ Cardinality(found) \in Nat /\ Cardinality(found) <= MaxId
<1>1. last \in Nat /\ last <= MaxId /\ MaxId \in Nat /\ DOMAIN tbl \subseteq 1 .. last
  BY MarketAssumption DEF TypeInv, Tables
<1>2. IsFiniteSet(1 .. last)
  BY <1>1, FS_Interval
<1>3. Cardinality(1 .. last) = last
  <2>1. 1 \in Int /\ last \in Int
    BY <1>1
  <2> QED BY <1>1, <2>1, FS_Interval
<1>4. found \in SUBSET (1 .. last)
  BY <1>1
<1>5. IsFiniteSet(found) /\ Cardinality(found) <= Cardinality(1 .. last)
  BY <1>2, <1>4, FS_Subset
<1>6. Cardinality(found) \in Nat
  BY <1>5, FS_CardinalityType
<1> QED BY <1>1, <1>3, <1>4, <1>5, <1>6

LEMMA FoundHasOrder ==
  ASSUME TypeInv, NEW found \in SUBSET DOMAIN tbl, NEW sort
  PROVE  Sorted(found, OrderBy(sort)) # {}
<1>1. IsFiniteSet(found) /\ found \in SUBSET Int
  BY FoundIsFinite
<1>2. \A i \in found : tbl[i].born \in Int /\ tbl[i].price \in Int
  BY <1>1 DEF TypeInv, Tables, Row
<1>3. PICK Less : Less = OrderBy(sort)
  OBVIOUS
<1>4. PICK K : K = [i \in found |-> IF sort = 1 THEN tbl[i].born
                                   ELSE IF sort = 2 THEN tbl[i].price
                                   ELSE IF sort = 3 THEN 0 - tbl[i].price
                                   ELSE 0 - tbl[i].born]
  OBVIOUS
<1>5. K \in [found -> Int]
  BY <1>2, <1>4
<1>6. ASSUME NEW a \in found, NEW b \in found, <<a, b>> \in Less PROVE K[a] < K[b]
  <2>1. \/ sort = 1 /\ tbl[a].born < tbl[b].born
        \/ sort = 2 /\ tbl[a].price < tbl[b].price
        \/ sort = 3 /\ tbl[a].price > tbl[b].price
        \/ sort \notin {1, 2, 3} /\ tbl[a].born > tbl[b].born
    BY <1>3, <1>6 DEF OrderBy
  <2> QED BY <1>2, <1>4, <2>1
<1>7. Sorted(found, Less) # {}
  BY <1>1, <1>5, <1>6, KeyOrder
<1> QED BY <1>3, <1>7

LEMMA RowIsSeq ==
  ASSUME NEW T \in SUBSET Int, Cardinality(T) \in Nat, NEW s \in [Line(T) -> T]
  PROVE  s \in Seq(Int) /\ Long(s, Cardinality(T))
<1>1. PICK c \in Nat : c = Cardinality(T)
  OBVIOUS
<1>2. s \in [1 .. c -> Int]
  BY <1>1 DEF Line
<1>3. Seq(Int) = UNION {[1 .. n -> Int] : n \in Nat}
  BY SeqDef
<1> QED BY <1>1, <1>2, <1>3 DEF Long

\* One page that a search by GET may answer.
LEMMA OnePage ==
  ASSUME TypeInv, NEW q, q.page \in Int, q.limit \in Int,
         NEW s \in Sorted(GetFound(q), OrderBy(q.sort)),
         NEW a, a = Shown(liftListingsTopOnly(Paged(s, q)))
  PROVE  /\ a.ok => \A i : Holds(a.items, i) <=> Reached(q, s, i)
         /\ a.ok => \A i : Holds(a.items, i) => Complete(i)
         /\ ~ a.ok => \A i : ~ Holds(a.items, i)
<1>1. PICK F : F = GetFound(q)
  OBVIOUS
<1>2. F \in SUBSET DOMAIN tbl
  BY <1>1 DEF GetFound
<1>3. IsFiniteSet(F) /\ F \in SUBSET Int /\ Cardinality(F) \in Nat
  BY <1>2, FoundIsFinite
<1>4. s \in [Line(F) -> F]
  BY <1>1 DEF Sorted
<1>5. s \in Seq(Int) /\ Long(s, Cardinality(F))
  BY <1>3, <1>4, RowIsSeq
<1>6. PICK t : t = Paged(s, q)
  OBVIOUS
<1>7. (\E k \in Nat : Long(t, k)) /\ \A i : Holds(t, i) <=> Reached(q, s, i)
  BY <1>3, <1>5, <1>6, PagedRows
<1>8. PICK u : u = liftListingsTopOnly(t)
  OBVIOUS
<1>9. \A i : Holds(u, i) <=> Reached(q, s, i)
  BY <1>7, <1>8, LiftedRows
<1>10. a = IF \A n \in DOMAIN u : Complete(u[n]) THEN Answer(u) ELSE Failed
  BY <1>6, <1>8 DEF Shown
<1>11. CASE \A n \in DOMAIN u : Complete(u[n])
  <2>1. a.items = u /\ a.ok
    BY <1>10, <1>11 DEF Answer
  <2>2. \A i : Holds(u, i) => Complete(i)
    BY <1>11 DEF Holds
  <2> QED BY <1>9, <2>1, <2>2
<1>12. CASE ~ \A n \in DOMAIN u : Complete(u[n])
  <2>1. ~ a.ok /\ a.items = <<>>
    BY <1>10, <1>12 DEF Failed
  <2> QED BY <2>1 DEF Holds
<1> QED BY <1>11, <1>12

LEMMA RowsHold ==
  \A answers, i : i \in Rows(answers) <=> \E a \in answers : Holds(a.items, i)
BY DEF Rows, Holds

LEMMA GetRowsMatch ==
  ASSUME TypeInv, NEW q, q.page \in Int, q.limit \in Int, NEW i \in Rows(GetPage(q))
  PROVE  i \in DOMAIN tbl /\ GetMatches(q, i) /\ Complete(i)
<1>1. kind \in Kind
  BY DEF TypeInv, RestTyped
<1>2. PICK a \in GetPage(q) : Holds(a.items, i)
  BY RowsHold
<1>3. PICK s \in Sorted(GetFound(q), OrderBy(q.sort)) :
        a = Shown(liftListingsTopOnly(Paged(s, q)))
  BY <1>1, <1>2, GetPageIs
<1>4. Complete(i) /\ Reached(q, s, i)
  BY <1>2, <1>3, OnePage
<1>5. s \in [Line(GetFound(q)) -> GetFound(q)]
  BY <1>3 DEF Sorted
<1> QED BY <1>4, <1>5 DEF GetFound, Reached

\* Once no page fails, a page holds the places that are its own.
LEMMA GetRowsAre ==
  ASSUME TypeInv, NEW q, q.page \in Int, q.limit \in Int, \A a \in GetPage(q) : a.ok,
           NEW i
  PROVE  i \in Rows(GetPage(q)) <=>
           \E s \in Sorted(GetFound(q), OrderBy(q.sort)) : Reached(q, s, i)
<1>1. GetPage(q) = {Shown(liftListingsTopOnly(Paged(s, q))) :
                      s \in Sorted(GetFound(q), OrderBy(q.sort))}
  BY GetPageIs DEF TypeInv, RestTyped
<1>2. ASSUME NEW s \in Sorted(GetFound(q), OrderBy(q.sort)), NEW a,
             a = Shown(liftListingsTopOnly(Paged(s, q)))
      PROVE  Holds(a.items, i) <=> Reached(q, s, i)
  <2>1. a.ok
    BY <1>1, <1>2
  <2> QED BY <1>2, <2>1, OnePage
<1>3. i \in Rows(GetPage(q)) <=> \E a \in GetPage(q) : Holds(a.items, i)
  BY RowsHold
<1> QED BY <1>1, <1>2, <1>3

LEMMA LiftedFound ==
  ASSUME TypeInv, NEW found \in SUBSET DOMAIN tbl, NEW Less,
           NEW s \in Sorted(found, Less), NEW i
  PROVE  Holds(Answer(liftListingsTopOnly(s)).items, i) <=> i \in found
<1>1. IsFiniteSet(found) /\ found \in SUBSET Int /\ Cardinality(found) \in Nat
  BY FoundIsFinite
<1>2. s \in [Line(found) -> found] /\ (i \in found <=> \E n \in Line(found) : s[n] = i)
  BY <1>1, SortedHas
<1>3. Long(s, Cardinality(found))
  BY <1>1, <1>2, RowIsSeq
<1>4. Holds(liftListingsTopOnly(s), i) <=> Holds(s, i)
  BY <1>1, <1>3, LiftedRows
<1>5. Holds(s, i) <=> i \in found
  BY <1>2 DEF Holds
<1> QED BY <1>4, <1>5 DEF Answer

\* A search by POST answers what matches, whatever the order.
LEMMA PostRows ==
  ASSUME TypeInv, NEW q, NEW i
  PROVE  /\ i \in Rows(PostList(q)) <=> i \in DOMAIN tbl /\ PostMatches(q, i)
         /\ i \in Rows(LikesList(q)) <=> i \in DOMAIN tbl /\ PostMatches(q, i)
<1>1. PICK L : L = {Answer(liftListingsTopOnly(s)) :
                      s \in Sorted(PostFound(q), OrderBy(PostSort(q)))}
  OBVIOUS
<1>2. PostList(q) = L /\ LikesList(q) = L
  BY <1>1, PostListIs, LikesListIs DEF TypeInv, RestTyped
<1>3. /\ PostFound(q) \in SUBSET DOMAIN tbl
      /\ i \in PostFound(q) <=> i \in DOMAIN tbl /\ PostMatches(q, i)
  BY DEF PostFound
<1>4. \A s \in Sorted(PostFound(q), OrderBy(PostSort(q))) :
        Holds(Answer(liftListingsTopOnly(s)).items, i) <=> i \in PostFound(q)
  BY <1>3, LiftedFound
<1>5. Sorted(PostFound(q), OrderBy(PostSort(q))) # {}
  BY <1>3, FoundHasOrder
<1>6. i \in Rows(L) <=> \E a \in L : Holds(a.items, i)
  BY RowsHold
<1>7. i \in Rows(L) <=> i \in PostFound(q)
  BY <1>1, <1>4, <1>5, <1>6
<1> QED BY <1>2, <1>3, <1>7
-----------------------------------------------------------------------------
(* The properties.                                                         *)

\* The city of the token when none is named.
Scoped(q, t) == [q EXCEPT !.city = IF @ = NoCity THEN t ELSE @]

LEMMA QueryForms ==
  ASSUME TypeInv, NEW q \in Search, NEW t \in Viewers
  PROVE  /\ GetQuery(q, t) = Scoped(q, t) /\ PostQuery(q, t) = Scoped(q, t)
         /\ Scoped(q, t) \in Query /\ SortedQuery(q, t) \in Query
<1>1. q \in Query
  BY MarketAssumption
<1>2. kind \in Kind
  BY DEF TypeInv, RestTyped
<1>3. GetQuery(q, t) = Scoped(q, t)
  BY <1>2 DEF GetQuery, ByKind, Kind, Scoped, S!GetQuery, W!GetQuery, R!GetQuery,
       A!GetQuery,
       WA!GetQuery, RA!GetQuery
<1>4. PostQuery(q, t) = Scoped(q, t)
  BY <1>2 DEF PostQuery, ByKind, Kind, Scoped, S!PostQuery, W!PostQuery, R!PostQuery,
       A!PostQuery, WA!PostQuery, RA!PostQuery
<1>5. Scoped(q, t) \in Query
  BY <1>1 DEF Scoped, Query, Viewers
<1>6. q.sort \in Int /\ q.page \in Int /\ q.limit \in Int
  BY <1>1 DEF Query
<1>7. AnyQuery \in Query
  BY DEF AnyQuery, Query, Clock
<1>8. /\ [AnyQuery EXCEPT !.sort = q.sort, !.page = q.page, !.limit = q.limit] \in Query
      /\ [AnyQuery EXCEPT !.city = t, !.sort = q.sort, !.page = q.page, !.limit =
           q.limit] \in Query
  BY <1>6, <1>7 DEF Query, Viewers
<1>9. \/ SortedQuery(q, t) = [AnyQuery EXCEPT !.sort = q.sort, !.page =
        q.page, !.limit = q.limit]
      \/ SortedQuery(q, t) =
           [AnyQuery EXCEPT !.city = t, !.sort = q.sort, !.page = q.page, !.limit =
             q.limit]
  BY <1>2 DEF SortedQuery, ByKind, Kind, AnyQuery, S!AnyQuery, W!AnyQuery, R!AnyQuery,
       A!AnyQuery,
       WA!AnyQuery, RA!AnyQuery, S!SortedQuery, W!SortedQuery, R!SortedQuery,
       A!SortedQuery, WA!SortedQuery, RA!SortedQuery
<1> QED BY <1>3, <1>4, <1>5, <1>8, <1>9

LEMMA ByGet ==
  ASSUME TypeInv, NEW q \in Query, NEW i \in Rows(GetPage(q))
  PROVE  i \in DOMAIN tbl /\ GetMatches(q, i) /\ Complete(i)
<1>1. q.page \in Int /\ q.limit \in Int
  BY DEF Query
<1> QED BY <1>1, GetRowsMatch

LEMMA ListedOpens == ASSUME TypeInv PROVE ListedCanBeOpened
<1>1. kind \in Kind
  BY DEF TypeInv, RestTyped
<1>2. ASSUME NEW i \in DOMAIN tbl, NEW q \in Search, NEW t \in Viewers,
             i \in Rows(GetPage(GetQuery(q, t)))
      PROVE  \/ kind \in WorkKinds /\ home[tbl[i].owner] = NoCity
             \/ kind = "work_ad" /\ Archived(i)
             \/ Found(i)
               /\ (GetQuery(q, t).city # NoCity => FoundIn(i, GetQuery(q, t).city))
  <2>1. PICK g : g = GetQuery(q, t)
    OBVIOUS
  <2>2. g \in Query
    BY <2>1, QueryForms
  <2>3. GetMatches(g, i) /\ Complete(i)
    BY <1>2, <2>1, <2>2, ByGet
  <2>4. /\ kind # "work_ad" => tbl[i].status # "archive"
        /\ g.city = NoCity \/ tbl[i].city = g.city
        /\ tbl[i].sub # NoSub /\ (kind \notin WorkKinds => tbl[i].city # NoCity)
    BY <2>3 DEF GetMatches, Complete
  <2>5. \/ kind \in WorkKinds /\ home[tbl[i].owner] = NoCity
        \/ kind = "work_ad" /\ Archived(i)
        \/ Found(i) /\ (g.city # NoCity => FoundIn(i, g.city))
    <3>1. CASE kind = "service"
      BY <3>1, <2>4 DEF WorkKinds, Archived, Found, FoundIn, ByKind,
         S!GetServiceByID, S!GetServiceByIDWithCity
    <3>2. CASE kind = "work"
      BY <3>2, <2>4 DEF WorkKinds, Archived, Found, FoundIn, ByKind,
         W!GetWorkByID, W!GetWorkByIDWithCity
    <3>3. CASE kind = "rent"
      BY <3>3, <2>4 DEF WorkKinds, Archived, Found, FoundIn, ByKind,
         R!GetRentByID, R!GetRentByIDWithCity
    <3>4. CASE kind = "ad"
      BY <3>4, <2>4 DEF WorkKinds, Archived, Found, FoundIn, ByKind,
         A!GetAdByID, A!GetAdByIDWithCity
    <3>5. CASE kind = "work_ad"
      BY <3>5, <2>4 DEF WorkKinds, Archived, Found, FoundIn, ByKind,
         WA!GetWorkAdByID, WA!GetWorkAdByIDWithCity
    <3>6. CASE kind = "rent_ad"
      BY <3>6, <2>4 DEF WorkKinds, Archived, Found, FoundIn, ByKind,
         RA!GetRentAdByID, RA!GetRentAdByIDWithCity
    <3> QED BY <1>1, <3>1, <3>2, <3>3, <3>4, <3>5, <3>6 DEF Kind
  <2> QED BY <2>1, <2>5
<1>3. ASSUME NEW i \in DOMAIN tbl, NEW b \in BOOLEAN, PhoneShown(i, b)
      PROVE  b /\ (tbl[i].hide => kind \in {"ad", "work_ad"})
  <2>1. CASE kind = "service"
    BY <2>1, <1>3 DEF PhoneShown, ByKind, S!GetServiceByServiceIDAndUserID
  <2>2. CASE kind = "work"
    BY <2>2, <1>3 DEF PhoneShown, ByKind, W!GetWorkByWorkIDAndUserID
  <2>3. CASE kind = "rent"
    BY <2>3, <1>3 DEF PhoneShown, ByKind, R!GetRentByRentIDAndUserID
  <2>4. CASE kind = "ad"
    BY <2>4, <1>3 DEF PhoneShown, ByKind, A!GetAdByAdIDAndUserID
  <2>5. CASE kind = "work_ad"
    BY <2>5, <1>3 DEF PhoneShown, ByKind, WA!GetWorkAdByWorkIDAndUserID
  <2>6. CASE kind = "rent_ad"
    BY <2>6, <1>3 DEF PhoneShown, ByKind, RA!GetRentAdByRentIDAndUserID
  <2> QED BY <1>1, <2>1, <2>2, <2>3, <2>4, <2>5, <2>6 DEF Kind
<1> QED BY <1>2, <1>3 DEF ListedCanBeOpened

LEMMA HoursAreOpen == ASSUME TypeInv PROVE OpenHours
<1>1. ASSUME NEW i \in DOMAIN tbl, NEW t \in Clock
      PROVE
        LET h == tbl[i].hours
            found == i \in Rows(PostList(AnyQuery))
            open == i \in Rows(PostList([AnyQuery EXCEPT !.open = TRUE, !.now = t]))
            round == i \in Rows(PostList([AnyQuery EXCEPT !.round = TRUE]))
            bySql == kind \notin WorkKinds
        IN /\ round <=> found /\ h \in {"round", "roundSec"}
           /\ found => CASE h = "night" /\ bySql -> ~ open
                     [] h = "day" /\ bySql -> open <=> t \in {1, 2}
                     [] h = "round" -> open <=> t < (IF bySql THEN 4 ELSE 3)
                     [] h = "roundSec" /\ ~ bySql -> open <=> t < 5
                     [] OTHER -> open <=> OpenAt(h, t)
  <2> DEFINE found == i \in Rows(PostList(AnyQuery))
             open == i \in Rows(PostList([AnyQuery EXCEPT !.open = TRUE, !.now = t]))
             round == i \in Rows(PostList([AnyQuery EXCEPT !.round = TRUE]))
             bySql == kind \notin WorkKinds
  <2>1. PICK h : h = tbl[i].hours
    OBVIOUS
  <2>2. h \in {"unset", "day", "night", "round", "roundSec"} /\ t \in 0 .. 5
    BY <2>1 DEF TypeInv, Tables, Row, Clock
  <2>3. found <=> tbl[i].status # "archive"
    <3>1. PostMatches(AnyQuery, i) <=> tbl[i].status # "archive"
      BY DEF PostMatches, AnyQuery, PriceBetween, SubIn, StarsAtLeast,
           matchesLanguageFilter
    <3> QED BY <3>1, PostRows
  <2>4. round <=> found /\ IF bySql THEN SqlRound(h) ELSE isRoundTheClock(h)
    <3>1. PostMatches([AnyQuery EXCEPT !.round = TRUE], i) <=>
            /\ tbl[i].status # "archive"
            /\ IF kind \in WorkKinds THEN isRoundTheClock(tbl[i].hours)
                 ELSE SqlRound(tbl[i].hours)
      BY DEF PostMatches, AnyQuery, PriceBetween, SubIn, StarsAtLeast,
           matchesLanguageFilter
    <3> QED BY <2>1, <2>3, <3>1, PostRows
  <2>5. open <=> found /\ IF bySql THEN SqlOpen(h, t) ELSE isCurrentlyOpen(h, t)
    <3>1. PostMatches([AnyQuery EXCEPT !.open = TRUE, !.now = t], i) <=>
            /\ tbl[i].status # "archive"
            /\ IF kind \in WorkKinds THEN isCurrentlyOpen(tbl[i].hours, t)
                                     ELSE SqlOpen(tbl[i].hours, t)
      BY DEF PostMatches, AnyQuery, PriceBetween, SubIn, StarsAtLeast,
           matchesLanguageFilter
    <3> QED BY <2>1, <2>3, <3>1, PostRows
  <2>6. h \in {"round", "roundSec"} <=> isRoundTheClock(h)
    BY <2>2 DEF isRoundTheClock, From, To
  <2>7. /\ h = "unset" => ~ SqlOpen(h, t) /\ ~ isCurrentlyOpen(h, t) /\ ~ OpenAt(h, t)
        /\ h = "day" => /\ SqlOpen(h, t) <=> t \in {1, 2}
                        /\ isCurrentlyOpen(h, t) <=> OpenAt(h, t)
    BY <2>2 DEF SqlOpen, isCurrentlyOpen, From, To, OpenAt, DayLength
  <2>8. h = "night" => /\ ~ SqlOpen(h, t)
                       /\ isCurrentlyOpen(h, t) <=> OpenAt(h, t)
    BY <2>2 DEF SqlOpen, isCurrentlyOpen, From, To, OpenAt, DayLength
  <2>9. h = "round" => /\ SqlOpen(h, t) <=> t < 4
                       /\ isCurrentlyOpen(h, t) <=> t < 3
    BY <2>2 DEF SqlOpen, isCurrentlyOpen, From, To, DayLength
  <2>10. h = "roundSec" => /\ SqlOpen(h, t) <=> OpenAt(h, t)
                           /\ isCurrentlyOpen(h, t) <=> t < 5
    BY <2>2 DEF SqlOpen, isCurrentlyOpen, From, To, OpenAt, DayLength
  <2> HIDE DEF found, open, round, bySql
  <2>11. /\ round <=> found /\ h \in {"round", "roundSec"}
         /\ found => CASE h = "night" /\ bySql -> ~ open
                     [] h = "day" /\ bySql -> open <=> t \in {1, 2}
                     [] h = "round" -> open <=> t < (IF bySql THEN 4 ELSE 3)
                     [] h = "roundSec" /\ ~ bySql -> open <=> t < 5
                     [] OTHER -> open <=> OpenAt(h, t)
    <3>1. round <=> found /\ h \in {"round", "roundSec"}
      BY <2>4, <2>6 DEF SqlRound
    <3>2. CASE h = "unset"
      BY <2>5, <2>7, <3>1, <3>2
    <3>3. CASE h = "day"
      BY <2>5, <2>7, <3>1, <3>3
    <3>4. CASE h = "night"
      BY <2>5, <2>8, <3>1, <3>4
    <3>5. CASE h = "round"
      BY <2>5, <2>9, <3>1, <3>5
    <3>6. CASE h = "roundSec"
      <4>1. found /\ bySql => (open <=> OpenAt(h, t))
        BY <2>5, <2>10, <3>6
      <4>2. found /\ ~ bySql => (open <=> t < 5)
        BY <2>5, <2>10, <3>6
      <4> QED BY <3>1, <3>6, <4>1, <4>2
    <3> QED BY <2>2, <3>2, <3>3, <3>4, <3>5, <3>6
  <2> QED BY <2>1, <2>11 DEF found, open, round, bySql
<1> QED BY <1>1 DEF OpenHours

LEMMA AgreeAboutRows == ASSUME TypeInv PROVE SearchesAgree
<1>1. ASSUME NEW i \in DOMAIN tbl, NEW q \in Search, NEW t \in Viewers,
             (q.from > 0) = (q.to > 0), q.stars = {}, q.want = {}, ~ q.round, ~ q.open,
             tbl[i].city = home[tbl[i].owner],
             \A a \in GetPage([GetQuery(q, t) EXCEPT !.page = 1, !.limit =
               MaxId]) : a.ok
      PROVE  i \in Rows(PostList(PostQuery(q, t))) <=>
               /\ i \in Rows(GetPage([GetQuery(q, t) EXCEPT !.page = 1, !.limit =
                    MaxId]))
               /\ ~ Archived(i)
  <2>1. PICK p : p = Scoped(q, t)
    OBVIOUS
  <2>2. PICK g : g = [p EXCEPT !.page = 1, !.limit = MaxId]
    OBVIOUS
  <2>3. GetQuery(q, t) = p /\ PostQuery(q, t) = p /\ p \in Query
    BY <2>1, QueryForms
  <2>4. /\ p.from = q.from /\ p.to = q.to /\ p.stars = {} /\ p.want =
             {} /\ ~ p.round /\ ~ p.open
        /\ q.from \in Int /\ q.to \in Int
    <3>1. q \in Query
      BY MarketAssumption
    <3> QED BY <1>1, <2>1, <3>1 DEF Scoped, Query
  <2>5. /\ g.city = p.city /\ g.from = p.from /\ g.to = p.to /\ g.stars = p.stars
        /\ g.subs = p.subs /\ g.page = 1 /\ g.limit = MaxId /\ g.page
             \in Int /\ g.limit \in Int
    BY <2>2, <2>3, MarketAssumption DEF Query
  <2>6. tbl[i].price \in Int
    BY DEF TypeInv, Tables, Row
  <2>7. PostMatches(p, i) <=> GetMatches(g, i) /\ ~ Archived(i)
    <3>1. PriceBetween(p, i) <=> PriceFrom(g, i) /\ PriceUpTo(g, i)
      BY <1>1, <2>4, <2>5, <2>6 DEF PriceBetween, PriceFrom, PriceUpTo, NoPrice
    <3>2. SubIn(p, i) <=> SubIn(g, i)
      BY <2>5 DEF SubIn
    <3> QED BY <1>1, <2>4, <2>5, <3>1, <3>2
         DEF PostMatches, GetMatches, Archived, StarsIn, StarsAtLeast, matchesLanguageFilter
  <2>8. i \in Rows(GetPage(g)) <=> GetMatches(g, i)
    <3>1. i \in Rows(GetPage(g)) <=>
            \E s \in Sorted(GetFound(g), OrderBy(g.sort)) : Reached(g, s, i)
      BY <1>1, <2>2, <2>3, <2>5, GetRowsAre
    <3>2. PICK F : F = GetFound(g)
      OBVIOUS
    <3>3. F \in SUBSET DOMAIN tbl /\ (i \in F <=> GetMatches(g, i))
      BY <3>2 DEF GetFound
    <3>4. IsFiniteSet(F) /\ Cardinality(F) \in Nat /\ Cardinality(F) <= MaxId
      BY <3>3, FoundIsFinite
    <3>5. ASSUME NEW s \in Sorted(F, OrderBy(g.sort)) PROVE Reached(g, s, i) <=> i \in F
      <4>1. s \in [Line(F) -> F] /\ (i \in F <=> \E n \in Line(F) : s[n] = i)
        BY <3>4, SortedHas
      <4>2. \A n \in Line(F) : OnPage(g, n)
        BY <2>5, <3>4 DEF OnPage, FirstOf, Limit, Line
      <4> QED BY <4>1, <4>2 DEF Reached
    <3>6. Sorted(F, OrderBy(g.sort)) # {}
      BY <3>3, FoundHasOrder
    <3> QED BY <3>1, <3>2, <3>3, <3>5, <3>6
  <2> QED BY <2>2, <2>3, <2>7, <2>8, PostRows
<1>2. ASSUME NEW i \in DOMAIN tbl, NEW q \in Search, NEW t \in Viewers
      PROVE  i \in Rows(PostList(PostQuery(q, t))) <=>
               i \in Rows(LikesList(PostQuery(q, t)))
  BY PostRows
<1> QED BY <1>1, <1>2 DEF SearchesAgree

LEMMA OwnRows ==
  ASSUME TypeInv, NEW found \in SUBSET DOMAIN tbl, NEW s \in Sorted(found, TopOrder)
  PROVE  /\ \A i : Holds(s, i) <=> i \in found
         /\ \A m, n \in DOMAIN s : m < n /\ TopActive(s[n]) => TopActive(s[m])
<1>1. IsFiniteSet(found) /\ found \in SUBSET Int
  BY FoundIsFinite
<1>2. s \in [Line(found) -> found] /\ \A i : i \in found <=>
        \E n \in Line(found) : s[n] = i
  BY <1>1, SortedHas
<1>3. ASSUME NEW m \in DOMAIN s, NEW n \in DOMAIN s, m < n, TopActive(s[n])
      PROVE  TopActive(s[m])
  <2>1. s[m] \in DOMAIN tbl /\ s[n] \in DOMAIN tbl /\ <<s[n], s[m]>> \notin TopOrder
    BY <1>2, <1>3 DEF Sorted
  <2>2. ~ lessByTopState(s[n], s[m])
    BY <2>1 DEF TopOrder, Ids
  <2> QED BY <1>3, <2>2 DEF lessByTopState
<1> QED BY <1>2, <1>3 DEF Holds

\* No search shows what is archived; the owner's list does.
LEMMA ArchivedIsHidden == ASSUME TypeInv PROVE SearchesHideArchived
<1>1. ASSUME NEW i \in DOMAIN tbl, NEW q \in Search, NEW t \in Viewers, Archived(i)
      PROVE  /\ i \notin Rows(PostList(PostQuery(q, t))) \cup Rows(LikesList(PostQuery(q, t)))
             /\ kind # "work_ad" =>
                  i \notin Rows(GetPage(GetQuery(q, t))) \cup Rows(GetPage(SortedQuery(q, t)))
  <2>1. \A p : ~ PostMatches(p, i)
    BY <1>1 DEF PostMatches, Archived
  <2>2. kind # "work_ad" => \A p : ~ GetMatches(p, i)
    BY <1>1 DEF GetMatches, Archived
  <2>3. GetQuery(q, t) \in Query /\ SortedQuery(q, t) \in Query
    BY QueryForms
  <2>4. \A p \in Query : i \in Rows(GetPage(p)) => GetMatches(p, i)
    BY ByGet
  <2>5. \A p : i \notin Rows(PostList(p)) /\ i \notin Rows(LikesList(p))
    BY <2>1, PostRows
  <2> QED BY <2>2, <2>3, <2>4, <2>5
<1>2. ASSUME NEW i \in DOMAIN tbl, NEW a \in OwnList(tbl[i].owner), a.ok,
             kind \in WorkKinds => home[tbl[i].owner] # NoCity
      PROVE  i \in Rows({a})
  <2>1. PICK u : u = tbl[i].owner
    OBVIOUS
  <2>2. PICK y \in Sorted(OwnFound(u), TopOrder) : a = Shown(y)
    BY <1>2, <2>1, OwnListIs DEF TypeInv, RestTyped
  <2>3. i \in OwnFound(u) /\ OwnFound(u) \in SUBSET DOMAIN tbl
    BY <1>2, <2>1 DEF OwnFound
  <2>4. Holds(y, i)
    BY <2>2, <2>3, OwnRows
  <2>5. a.items = y
    BY <1>2, <2>2 DEF Shown, Answer, Failed
  <2> QED BY <2>4, <2>5, RowsHold
<1> QED BY <1>1, <1>2 DEF SearchesHideArchived

LEMMA AgreeAboutOwn == ASSUME TypeInv PROVE OwnListsAgree
<1>1. ASSUME NEW u \in User, NEW st \in ListStatus, NEW a \in OwnListByStatus(u, st),
             NEW b \in OwnList(u)
      PROVE  /\ a.ok /\ b.ok => Rows({a}) = {i \in Rows({b}) : tbl[i].status = st}
             /\ b.ok => \A m, n \in DOMAIN b.items :
                          m < n /\ TopActive(b.items[n]) => TopActive(b.items[m])
  <2>1. kind \in Kind
    BY DEF TypeInv, RestTyped
  <2>2. PICK x \in Sorted(StatusFound(u, st), TopOrder) : a = ShownTo(u, x)
    BY <1>1, <2>1, OwnListByStatusIs
  <2>3. PICK y \in Sorted(OwnFound(u), TopOrder) : b = Shown(y)
    BY <1>1, <2>1, OwnListIs
  <2>4. /\ StatusFound(u, st) \in SUBSET DOMAIN tbl
        /\ OwnFound(u) \in SUBSET DOMAIN tbl
    BY DEF StatusFound, OwnFound
  <2>5. \A i : Holds(x, i) <=> i \in StatusFound(u, st)
    BY <2>2, <2>4, OwnRows
  <2>6. /\ \A i : Holds(y, i) <=> i \in OwnFound(u)
        /\ \A m, n \in DOMAIN y : m < n /\ TopActive(y[n]) => TopActive(y[m])
    BY <2>3, <2>4, OwnRows
  <2>7. b.ok => b.items = y
    BY <2>3 DEF Shown, Answer, Failed
  <2>8. a.ok => a.items = x /\ \A i : Holds(x, i) => Whole(u, i)
    BY <2>2 DEF ShownTo, Answer, Failed, Holds
  <2>9. ASSUME a.ok, b.ok, NEW i
        PROVE  i \in Rows({a}) <=> i \in Rows({b}) /\ tbl[i].status = st
    <3>1. i \in Rows({a}) <=> i \in StatusFound(u, st)
      BY <2>5, <2>8, <2>9, RowsHold
    <3>2. i \in Rows({b}) <=> i \in OwnFound(u)
      BY <2>6, <2>7, <2>9, RowsHold
    <3>3. i \in StatusFound(u, st) => (kind \in WorkKinds => home[u] # NoCity)
      BY <2>5, <2>8, <2>9 DEF Whole
    <3> QED BY <3>1, <3>2, <3>3 DEF StatusFound, OwnFound
  <2> QED BY <2>6, <2>7, <2>9
<1> QED BY <1>1 DEF OwnListsAgree

LEMMA Grows == ASSUME NEW a \in Nat, NEW b \in Nat, a <= b, NEW l \in Nat
        PROVE a * l <= b * l
<1>1. PICK d \in Nat : b = a + d
  <2>1. b - a \in Nat /\ b = a + (b - a)
    OBVIOUS
  <2> QED BY <2>1
<1>2. b * l = a * l + d * l
  BY <1>1
<1>3. d * l \in Nat /\ a * l \in Nat
  OBVIOUS
<1> QED BY <1>2, <1>3

\* Every place is on one page.
LEMMA OnePageOnly ==
  ASSUME NEW m \in Nat, m >= 1, NEW l \in Nat, l >= 1
  PROVE  \E p \in 1 .. m : \A r \in Nat : r >= 1 =>
           (((r - 1) * l + 1 <= m /\ m <= (r - 1) * l + 1 + l - 1) <=> r = p)
<1>1. PICK d : d = (m - 1) \div l
  OBVIOUS
<1>2. /\ d \in Nat
      /\ l * d <= m - 1 /\ m - 1 < l * d + l
  BY <1>1
<1>3. d * l = l * d /\ d * l \in Nat
  BY <1>2
<1>4. d + 1 \in 1 .. m
  <2>1. d * 1 <= d * l
    BY <1>2, <1>3
  <2> QED BY <1>2, <1>3, <2>1
<1>5. ASSUME NEW r \in Nat, r >= 1
      PROVE  ((r - 1) * l + 1 <= m /\ m <= (r - 1) * l + 1 + l - 1) <=> r = d + 1
  <2>1. PICK e \in Nat : e = r - 1
    BY <1>5
  <2>2. e * l \in Nat
    OBVIOUS
  <2>3. CASE e = d
    BY <1>2, <1>3, <2>1, <2>3
  <2>4. CASE e < d
    <3>1. e + 1 <= d /\ e + 1 \in Nat
      BY <1>2, <2>4
    <3>2. (e + 1) * l <= d * l
      BY <1>2, <3>1, Grows
    <3>3. (e + 1) * l = e * l + l
      OBVIOUS
    <3>4. ~ (m <= e * l + 1 + l - 1)
      BY <1>2, <1>3, <2>2, <3>2, <3>3
    <3> QED BY <1>2, <2>1, <2>4, <3>4
  <2>5. CASE e > d
    <3>1. d + 1 <= e /\ d + 1 \in Nat
      BY <1>2, <2>5
    <3>2. (d + 1) * l <= e * l
      BY <3>1, Grows
    <3>3. (d + 1) * l = d * l + l
      BY <1>2
    <3>4. ~ (e * l + 1 <= m)
      BY <1>2, <1>3, <2>2, <3>2, <3>3
    <3> QED BY <1>2, <2>1, <2>5, <3>4
  <2> QED BY <1>2, <2>3, <2>4, <2>5
<1> QED BY <1>4, <1>5

\* A match has its place by age when no other is of the same second.
LEMMA AgePlaces ==
  ASSUME TypeInv, NEW found \in SUBSET DOMAIN tbl, NEW sort \in {0, 1}, NEW i \in found,
         \A j \in found \ {i} : tbl[j].born # tbl[i].born
  PROVE  Placed(found, OrderBy(sort), i)
<1>1. \A j \in found : j \in DOMAIN tbl /\ tbl[j].born \in Nat
  BY DEF TypeInv, Tables, Row
<1>2. \A j \in found : /\ <<j, i>> \in OrderBy(sort) <=>
                            IF sort = 1 THEN tbl[j].born < tbl[i].born
                            ELSE tbl[j].born > tbl[i].born
                       /\ <<i, j>> \in OrderBy(sort) <=>
                            IF sort = 1 THEN tbl[i].born < tbl[j].born
                            ELSE tbl[i].born > tbl[j].born
  BY <1>1 DEF OrderBy, Ids
<1>3. <<i, i>> \notin OrderBy(sort)
  BY <1>1, <1>2
<1>4. ASSUME NEW j \in found \ {i}
      PROVE  <<j, i>> \in OrderBy(sort) <=> <<i, j>> \notin OrderBy(sort)
  <2>1. tbl[j].born \in Nat /\ tbl[i].born \in Nat /\ tbl[j].born # tbl[i].born
    BY <1>1
  <2> QED BY <1>2, <2>1
<1> QED BY <1>3, <1>4 DEF Placed

\* Such a match is on the page of its place.
LEMMA PageByAge ==
  ASSUME TypeInv, NEW q \in Query, q.sort \in {0, 1}, \A a \in GetPage(q) : a.ok,
         NEW i \in GetFound(q), Placed(GetFound(q), OrderBy(q.sort), i)
  PROVE  i \in Rows(GetPage(q)) <=> OnPage(q, Rank(GetFound(q), OrderBy(q.sort), i))
<1>1. PICK F : F = GetFound(q)
  OBVIOUS
<1>2. PICK Less : Less = OrderBy(q.sort)
  OBVIOUS
<1>3. F \in SUBSET DOMAIN tbl /\ i \in F /\ Placed(F, Less, i)
  BY <1>1, <1>2 DEF GetFound
<1>4. IsFiniteSet(F) /\ Sorted(F, Less) # {}
  BY <1>2, <1>3, FoundIsFinite, FoundHasOrder
<1>5. i \in Rows(GetPage(q)) <=> \E s \in Sorted(F, Less) : Reached(q, s, i)
  <2>1. q.page \in Int /\ q.limit \in Int
    BY DEF Query
  <2> QED BY <1>1, <1>2, <2>1, GetRowsAre
<1>6. ASSUME NEW s \in Sorted(F, Less)
      PROVE  Reached(q, s, i) <=> OnPage(q, Rank(F, Less, i))
  <2>1. s \in [Line(F) -> F] /\ \E n \in Line(F) : s[n] = i
    BY <1>3, <1>4, SortedHas
  <2>2. \A n \in Line(F) : s[n] = i => Rank(F, Less, i) = n
    BY <1>3, <1>4, PlaceIsRank
  <2> QED BY <2>1, <2>2 DEF Reached
<1> QED BY <1>1, <1>2, <1>4, <1>5, <1>6

LEMMA PagesArePart == ASSUME TypeInv PROVE PagesPartition
<1>1. ASSUME NEW i \in DOMAIN tbl, NEW q \in Search, NEW t \in Viewers,
               NEW order \in {0, 1},
             NEW g, g = [GetQuery(q, t) EXCEPT !.sort = order], q.limit > 0,
             \A p \in 1 .. MaxId : \A a \in GetPage([g EXCEPT !.page = p]) : a.ok
      PROVE  LET on == {r \in 1 .. MaxId : i \in Rows(GetPage([g EXCEPT !.page = r]))}
             IN  /\ ~ GetMatch(g, i) => on = {}
                 /\ GetMatch(g, i) /\ Alone(g, i) => \E p \in 1 .. MaxId : on = {p}
  <2>1. g \in Query /\ g.sort = order /\ g.limit = q.limit /\ q.limit \in Int /\ order
          \in Int
    <3>1. q \in Query /\ Scoped(q, t) \in Query /\ GetQuery(q, t) = Scoped(q, t)
      BY QueryForms, MarketAssumption
    <3>2. PICK p \in Query : p = GetQuery(q, t)
      BY <3>1
    <3>3. p.limit = q.limit /\ p.limit \in Int
      BY <3>1, <3>2 DEF Query, Scoped
    <3>4. order \in Int
      OBVIOUS
    <3>5. g = [p EXCEPT !.sort = order]
      BY <1>1, <3>2
    <3>6. g \in Query /\ g.sort = order /\ g.limit = p.limit
      BY <3>4, <3>5 DEF Query
    <3> QED BY <3>3, <3>4, <3>6
  <2>2. q.limit \in Nat /\ q.limit >= 1
    <3>1. q.limit > 0
      BY <1>1
    <3> QED BY <2>1, <3>1
  <2>3. PICK F : F = GetFound(g)
    OBVIOUS
  <2>4. F \in SUBSET DOMAIN tbl /\ \A j \in DOMAIN tbl : j \in F <=> GetMatch(g, j)
    <3>1. \A j \in DOMAIN tbl : GetMatch(g, j) <=> GetMatches(g, j)
      BY GetConditions DEF TypeInv, RestTyped
    <3> QED BY <2>3, <3>1 DEF GetFound
  <2>5. PICK place : place = Rank(F, OrderBy(order), i)
    OBVIOUS
  <2>6. ASSUME NEW p \in 1 .. MaxId, NEW h, h = [g EXCEPT !.page = p]
        PROVE  /\ h \in Query /\ h.sort = order /\ GetFound(h) = F
               /\ Limit(h) = q.limit /\ FirstOf(h) = (p - 1) * q.limit + 1
    <3>1. h \in Query /\ h.sort = order /\ h.limit = q.limit /\ h.page = p
      BY <2>1, <2>6, MarketAssumption DEF Query
    <3>2. GetFound(h) = F
      <4>1. /\ h.city = g.city /\ h.from = g.from /\ h.to = g.to /\ h.subs = g.subs
            /\ h.stars = g.stars
        BY <2>1, <2>6 DEF Query
      <4> QED BY <2>3, <4>1 DEF GetFound, GetMatches, PriceFrom, PriceUpTo, SubIn,
          StarsIn
    <3>3. ~ (p < 1) /\ ~ (h.limit < 1)
      BY <2>2, <3>1, MarketAssumption
    <3> QED BY <3>1, <3>2, <3>3 DEF Limit, FirstOf
  <2>7. CASE i \in F /\ Alone(g, i)
    <3>1. IsFiniteSet(F) /\ Cardinality(F) \in Nat /\ Cardinality(F) <= MaxId
      BY <2>4, FoundIsFinite
    <3>2. Placed(F, OrderBy(order), i)
      <4>1. \A j \in F \ {i} : tbl[j].born # tbl[i].born
        BY <2>4, <2>7 DEF Alone
      <4> QED BY <2>4, <2>7, <4>1, AgePlaces
    <3>8. place \in Line(F)
      BY <2>5, <2>7, <3>1, <3>2, RankInLine
    <3>9. ASSUME NEW p \in 1 .. MaxId
          PROVE  i \in Rows(GetPage([g EXCEPT !.page = p])) <=>
                   /\ (p - 1) * q.limit + 1 <= place
                   /\ place <= (p - 1) * q.limit + 1 + q.limit - 1
      <4>1. PICK h : h = [g EXCEPT !.page = p]
        OBVIOUS
      <4>2. /\ h \in Query /\ h.sort = order /\ GetFound(h) = F
            /\ Limit(h) = q.limit /\ FirstOf(h) = (p - 1) * q.limit + 1
        BY <2>6, <4>1
      <4>3. i \in Rows(GetPage(h)) <=> OnPage(h, place)
        BY <1>1, <2>5, <2>7, <3>2, <4>1, <4>2, PageByAge
      <4> QED BY <4>1, <4>2, <4>3 DEF OnPage
    <3>3. place \in Nat /\ place >= 1 /\ place <= MaxId /\ MaxId \in Nat
      BY <3>1, <3>8, MarketAssumption DEF Line
    <3>4. PICK p \in 1 .. place : \A r \in Nat : r >= 1 =>
            (((r - 1) * q.limit + 1 <= place
              /\ place <= (r - 1) * q.limit + 1 + q.limit - 1)
               <=> r = p)
      <4>1. q.limit \in Nat /\ q.limit >= 1
        BY <2>2
      <4> QED BY <3>3, <4>1, OnePageOnly
    <3>5. p \in 1 .. MaxId
      BY <3>3
    <3>6. \A r \in 1 .. MaxId : i \in Rows(GetPage([g EXCEPT !.page = r])) <=> r = p
      BY <3>3, <3>4, <3>9
    <3>7. {r \in 1 .. MaxId : i \in Rows(GetPage([g EXCEPT !.page = r]))} = {p}
      BY <3>5, <3>6
    <3> QED BY <2>4, <2>7, <3>5, <3>7
  <2>8. ASSUME NEW p \in 1 .. MaxId, i \in Rows(GetPage([g EXCEPT !.page = p]))
        PROVE  i \in F
    <3>1. PICK h : h = [g EXCEPT !.page = p]
      OBVIOUS
    <3>2. h \in Query /\ GetFound(h) = F
      BY <2>6, <3>1
    <3>3. GetMatches(h, i)
      BY <2>8, <3>1, <3>2, ByGet
    <3> QED BY <3>2, <3>3 DEF GetFound
  <2> QED BY <2>4, <2>7, <2>8
<1> SUFFICES ASSUME NEW i \in DOMAIN tbl, NEW q \in Search, NEW t \in Viewers,
                    NEW order \in {0, 1}, q.limit > 0,
                    LET g == [GetQuery(q, t) EXCEPT !.sort = order]
                    IN  \A p \in 1 .. MaxId : \A a \in GetPage([g EXCEPT !.page = p]) : a.ok
             PROVE  LET g == [GetQuery(q, t) EXCEPT !.sort = order]
                        on == {p \in 1 .. MaxId : i \in Rows(GetPage([g EXCEPT !.page = p]))}
                    IN  /\ ~ GetMatch(g, i) => on = {}
                        /\ GetMatch(g, i) /\ Alone(g, i) => \E p \in 1 .. MaxId : on = {p}
  BY DEF PagesPartition
<1>2. PICK g : g = [GetQuery(q, t) EXCEPT !.sort = order]
  OBVIOUS
<1> QED BY <1>1, <1>2
-----------------------------------------------------------------------------
\* A search lists nothing that is archived, but for GET of work_ads; an owner's
\* own list has it.
THEOREM ArchivedStaysHidden == MarketSpec => []SearchesHideArchived
<1>1. ASSUME MarketInv PROVE SearchesHideArchived
  BY <1>1, ArchivedIsHidden DEF MarketInv
<1> QED BY <1>1, MarketInvariance, PTL

\* What a page of GET lists can be opened, in the city searched, with the
\* exceptions that the property names; a hidden phone is shown by two kinds only.
THEOREM ListedIsOpened == MarketSpec => []ListedCanBeOpened
<1>1. ASSUME MarketInv PROVE ListedCanBeOpened
  BY <1>1, ListedOpens DEF MarketInv
<1> QED BY <1>1, MarketInvariance, PTL

\* Signed in or not, by GET or by POST, a search finds the same listings, and an
\* owner's list by status is the part of the whole list that has it.
THEOREM SearchesDoAgree == MarketSpec => []ListsAgree
<1>1. ASSUME MarketInv PROVE ListsAgree
  BY <1>1, AgreeAboutRows, AgreeAboutOwn DEF MarketInv, ListsAgree
<1> QED BY <1>1, MarketInvariance, PTL

\* "Open now" departs from the hours as meant in the stated ways only.
THEOREM HoursAreKept == MarketSpec => []OpenHours
<1>1. ASSUME MarketInv PROVE OpenHours
  BY <1>1, HoursAreOpen DEF MarketInv
<1> QED BY <1>1, MarketInvariance, PTL

\* By age, each match that no other match shares its second with is on one page,
\* whatever is promoted and however the others are put, and nothing is on a page
\* that does not match.
THEOREM PagesDoPartition == MarketSpec => []PagesPartition
<1>1. ASSUME MarketInv PROVE PagesPartition
  BY <1>1, PagesArePart DEF MarketInv
<1> QED BY <1>1, MarketInvariance, PTL
================================================================================
