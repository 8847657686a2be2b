----------------------------- MODULE MarketProofs ------------------------------
(***************************************************************************)
(* Theorems about Market for any users, files, forms, slots and MaxId, and *)
(* for each of the six kinds of listings.  The inductive invariant says    *)
(* whose the files are: what a listing or a request names was uploaded for *)
(* it alone, and stays on disk until the edit that removes it, but for the *)
(* files that some client named by an address the listing did not have; an *)
(* edit keeps what its form does not name, and a request that is about to  *)
(* activate a listing has found a reason to.                               *)
(***************************************************************************)
EXTENDS Market, TLAPS

\* Files that came to their listing as uploads.
Files(images) == {m.file : m \in images} \ lent
Creates(r) == req[r].op = "create"
Edits(r, i) == req[r].op = "edit" /\ req[r].i = i
Writes(r) == req[r].op \in {"create", "edit"}

\* The server answers for the addresses of its own kind, but for two kinds.
UrlOK(m) == RouteDir(m.url) = SaveDir <=> kind \notin {"work_ad", "rent_ad"}
Kept(images) ==
  \A m \in images : m.file \notin lent => disk[m.file] = "there" /\ UrlOK(m)

Named == FileFields \cup DOMAIN FormType
Request ==
  [pc : {"idle", "Reread", "CheckPaid", "Lapse", "Write"},
   op : {"none", "create", "edit", "restore"}, i : Nat, row : Row \cup {NoRow},
   seen : Row \cup {NoRow}, named : SUBSET Named, grounds : SUBSET {"paid", "public"}]

Tables == /\ tbl \in [DOMAIN tbl -> Row] /\ DOMAIN tbl \subseteq 1 .. last
          /\ last \in 0 .. MaxId /\ torn \subseteq 1 .. last

ReqOK ==
  /\ req \in [Slot -> Request]
  /\ \A r \in Slot :
       /\ req[r].pc = "idle" => req[r] = Idle
       /\ req[r].pc # "idle" => req[r].op # "none" /\ req[r].row \in Row
       /\ req[r].op = "edit" => req[r].i \in 1 .. last /\ req[r].seen \in Row

\* The files of a listing and of a request that will write one are uploads ...
Used ==
  /\ \A i \in DOMAIN tbl : \A f \in Files(tbl[i].images) : disk[f] # "unused"
  /\ \A r \in Slot : Writes(r) =>
       \A f \in Files(req[r].row.images) : disk[f] # "unused"

\* ... and nobody else's, but for edits of one listing.
Apart ==
  /\ \A i, j \in DOMAIN tbl : i # j =>
       Files(tbl[i].images) \cap Files(tbl[j].images) = {}
  /\ \A r \in Slot, i \in DOMAIN tbl : Writes(r) /\ ~ Edits(r, i) =>
       Files(req[r].row.images) \cap Files(tbl[i].images) = {}
  /\ \A r, s \in Slot : r # s /\ Writes(r) /\ Writes(s) =>
       \/ Edits(r, req[s].i) /\ req[s].op = "edit"
       \/ Files(req[r].row.images) \cap Files(req[s].row.images) = {}

\* A listing that is not torn has one edit at most.
Sole ==
  \A r, s \in Slot, i \in 1 .. last :
    r # s /\ Edits(r, i) /\ Edits(s, i) => i \in torn

Intact ==
  \A i \in DOMAIN tbl \ torn : (\A r \in Slot : ~ Edits(r, i)) => Kept(tbl[i].images)

\* What is about to be written is on disk.
ReqIntact ==
  \A r \in Slot : Creates(r) \/ (req[r].op = "edit" /\ req[r].i \notin torn) =>
    Kept(req[r].row.images)

FormKept ==
  \A r \in Slot : req[r].op = "edit" =>
    \A x \in DOMAIN req[r].row \ (req[r].named \cup Refreshed) :
      req[r].row[x] = req[r].seen[x] \/ (x = "city" /\ kind \in WorkKinds)

\* Nobody is about to write "active" who did not find a subscription, or the
\* listing public.
GroundsFound ==
  \A r \in Slot : req[r].pc = "Write" =>
    /\ req[r].op = "edit" /\ req[r].row.status = "active" => req[r].grounds # {}
    /\ req[r].op = "restore" /\ kind \in Executors => req[r].grounds # {}

RestTyped ==
  /\ kind \in Kind /\ home \in [User -> City \cup {NoCity}] /\ review \in [1 .. MaxId -> Nat]
  /\ disk \in [File -> {"unused", "there", "removed"}]
  /\ paid \in [User -> {"none", "active", "expired"}] /\ cleaning \subseteq User
  /\ lent \subseteq File

TypeInv == RestTyped /\ Tables /\ ReqOK
FilesInv == Used /\ Apart /\ Sole /\ Intact /\ ReqIntact
MarketInv == TypeInv /\ FilesInv /\ FormKept /\ GroundsFound
-----------------------------------------------------------------------------
(* What the six kinds do alike: lemmas that go through the kinds, so that  *)
(* nothing after them looks into the six modules again.                    *)

LEMMA CreatedRow ==
  ASSUME kind \in Kind, NEW f
  PROVE Created(f) = [Overlaid(BlankRow(f.owner), f) EXCEPT
                        !.status = normalizeListingStatus(@)]
<1>1. CASE kind = "service"
  BY <1>1 DEF Created, Overlaid, BlankRow, normalizeListingStatus, NoPrice, ByKind,
       S!CreateService, S!Overlaid, S!BlankRow, S!normalizeListingStatus, S!NoPrice
<1>2. CASE kind = "work"
  BY <1>2 DEF Created, Overlaid, BlankRow, normalizeListingStatus, NoPrice, ByKind,
       W!CreateWork, W!Overlaid, W!BlankRow, W!normalizeListingStatus, W!NoPrice
<1>3. CASE kind = "rent"
  BY <1>3 DEF Created, Overlaid, BlankRow, normalizeListingStatus, NoPrice, ByKind,
       R!CreateRent, R!Overlaid, R!BlankRow, R!normalizeListingStatus, R!NoPrice
<1>4. CASE kind = "ad"
  BY <1>4 DEF Created, Overlaid, BlankRow, normalizeListingStatus, NoPrice, ByKind,
       A!CreateAd, A!Overlaid, A!BlankRow, A!normalizeListingStatus, A!NoPrice
<1>5. CASE kind = "work_ad"
  BY <1>5 DEF Created, Overlaid, BlankRow, normalizeListingStatus, NoPrice, ByKind,
       WA!CreateWorkAd, WA!Overlaid, WA!BlankRow, WA!normalizeListingStatus, WA!NoPrice
<1>6. CASE kind = "rent_ad"
  BY <1>6 DEF Created, Overlaid, BlankRow, normalizeListingStatus, NoPrice, ByKind,
       RA!CreateRentAd, RA!Overlaid, RA!BlankRow, RA!normalizeListingStatus, RA!NoPrice
<1> QED BY <1>1, <1>2, <1>3, <1>4, <1>5, <1>6 DEF Kind

\* What a form names or uploads.
Offered(f, url) == f.list \cup f.links \cup Uploaded(f, url)

LEMMA Addresses ==
  ASSUME kind \in Kind
  PROVE \E new, edited \in Address :
          /\ \A f : NewImages(f) \subseteq Offered(f, new)
          /\ \A row, f : EditedImages(row, f) \subseteq
               {m \in row.images \cup Offered(f, edited) : m.file \notin f.del}
          /\ RouteDir(new) = SaveDir <=> kind \notin {"work_ad", "rent_ad"}
          /\ RouteDir(edited) = SaveDir <=> kind \notin {"work_ad", "rent_ad"}
<1>1. CASE kind = "service"
  <2>1. \A f : NewImages(f) \subseteq Offered(f, "/images/services/")
    BY <1>1 DEF NewImages, Offered, Uploaded, ByKind, S!NewImages, S!CreateURL,
         S!Uploaded, S!WithSent
  <2>2. \A row, f : EditedImages(row, f) \subseteq
          {m \in row.images \cup Offered(f, "/images/services/") : m.file \notin f.del}
    BY <1>1 DEF EditedImages, Offered, Uploaded, ByKind, S!EditedImages,
         S!CombinedImages, S!EditURL, S!Uploaded, S!WithSent
  <2>3. SaveDir = "services"
    BY <1>1 DEF SaveDir, ByKind, S!SaveDir
  <2>4. RouteDir("/images/services/") = SaveDir <=> kind \notin {"work_ad", "rent_ad"}
    BY <1>1, <2>3 DEF RouteDir
  <2>5. RouteDir("/images/services/") = SaveDir <=> kind \notin {"work_ad", "rent_ad"}
    BY <1>1, <2>3 DEF RouteDir
  <2> USE DEF Address
  <2> WITNESS "/images/services/" \in Address, "/images/services/" \in Address
  <2> QED BY <2>1, <2>2, <2>4, <2>5
<1>2. CASE kind = "work"
  <2>1. \A f : NewImages(f) \subseteq Offered(f, "/images/works/")
    BY <1>2 DEF NewImages, Offered, Uploaded, ByKind, W!NewImages, W!CreateURL,
         W!Uploaded
  <2>2. \A row, f : EditedImages(row, f) \subseteq
          {m \in row.images \cup Offered(f, "/images/works/") : m.file \notin f.del}
    BY <1>2 DEF EditedImages, Offered, Uploaded, ByKind, W!EditedImages,
         W!CombinedImages, W!EditURL, W!Uploaded, W!WithSent
  <2>3. SaveDir = "works"
    BY <1>2 DEF SaveDir, ByKind, W!SaveDir
  <2>4. RouteDir("/images/works/") = SaveDir <=> kind \notin {"work_ad", "rent_ad"}
    BY <1>2, <2>3 DEF RouteDir
  <2>5. RouteDir("/images/works/") = SaveDir <=> kind \notin {"work_ad", "rent_ad"}
    BY <1>2, <2>3 DEF RouteDir
  <2> USE DEF Address
  <2> WITNESS "/images/works/" \in Address, "/images/works/" \in Address
  <2> QED BY <2>1, <2>2, <2>4, <2>5
<1>3. CASE kind = "rent"
  <2>1. \A f : NewImages(f) \subseteq Offered(f, "/images/rents/")
    BY <1>3 DEF NewImages, Offered, Uploaded, ByKind, R!NewImages, R!CreateURL,
         R!Uploaded
  <2>2. \A row, f : EditedImages(row, f) \subseteq
          {m \in row.images \cup Offered(f, "/images/rents/") : m.file \notin f.del}
    BY <1>3 DEF EditedImages, Offered, Uploaded, ByKind, R!EditedImages,
         R!CombinedImages, R!EditURL, R!Uploaded, R!WithSent
  <2>3. SaveDir = "rents"
    BY <1>3 DEF SaveDir, ByKind, R!SaveDir
  <2>4. RouteDir("/images/rents/") = SaveDir <=> kind \notin {"work_ad", "rent_ad"}
    BY <1>3, <2>3 DEF RouteDir
  <2>5. RouteDir("/images/rents/") = SaveDir <=> kind \notin {"work_ad", "rent_ad"}
    BY <1>3, <2>3 DEF RouteDir
  <2> USE DEF Address
  <2> WITNESS "/images/rents/" \in Address, "/images/rents/" \in Address
  <2> QED BY <2>1, <2>2, <2>4, <2>5
<1>4. CASE kind = "ad"
  <2>1. \A f : NewImages(f) \subseteq Offered(f, "/images/ad/")
    BY <1>4 DEF NewImages, Offered, Uploaded, ByKind, A!NewImages, A!CreateURL,
         A!Uploaded
  <2>2. \A row, f : EditedImages(row, f) \subseteq
          {m \in row.images \cup Offered(f, "/images/ad/") : m.file \notin f.del}
    BY <1>4 DEF EditedImages, Offered, Uploaded, ByKind, A!EditedImages,
         A!CombinedImages, A!EditURL, A!Uploaded, A!WithSent
  <2>3. SaveDir = "ad"
    BY <1>4 DEF SaveDir, ByKind, A!SaveDir
  <2>4. RouteDir("/images/ad/") = SaveDir <=> kind \notin {"work_ad", "rent_ad"}
    BY <1>4, <2>3 DEF RouteDir
  <2>5. RouteDir("/images/ad/") = SaveDir <=> kind \notin {"work_ad", "rent_ad"}
    BY <1>4, <2>3 DEF RouteDir
  <2> USE DEF Address
  <2> WITNESS "/images/ad/" \in Address, "/images/ad/" \in Address
  <2> QED BY <2>1, <2>2, <2>4, <2>5
<1>5. CASE kind = "work_ad"
  <2>1. \A f : NewImages(f) \subseteq Offered(f, "/images/worksad/")
    BY <1>5 DEF NewImages, Offered, Uploaded, ByKind, WA!NewImages, WA!CreateURL,
         WA!Uploaded
  <2>2. \A row, f : EditedImages(row, f) \subseteq
          {m \in row.images \cup Offered(f, "/images/works/") : m.file \notin f.del}
    BY <1>5 DEF EditedImages, Offered, Uploaded, ByKind, WA!EditedImages,
         WA!CombinedImages, WA!EditURL, WA!Uploaded, WA!WithSent
  <2>3. SaveDir = "worksad"
    BY <1>5 DEF SaveDir, ByKind, WA!SaveDir
  <2>4. RouteDir("/images/worksad/") = SaveDir <=> kind \notin {"work_ad", "rent_ad"}
    BY <1>5, <2>3 DEF RouteDir
  <2>5. RouteDir("/images/works/") = SaveDir <=> kind \notin {"work_ad", "rent_ad"}
    BY <1>5, <2>3 DEF RouteDir
  <2> USE DEF Address
  <2> WITNESS "/images/worksad/" \in Address, "/images/works/" \in Address
  <2> QED BY <2>1, <2>2, <2>4, <2>5
<1>6. CASE kind = "rent_ad"
  <2>1. \A f : NewImages(f) \subseteq Offered(f, "/images/rent_ad/")
    BY <1>6 DEF NewImages, Offered, Uploaded, ByKind, RA!NewImages, RA!CreateURL,
         RA!Uploaded
  <2>2. \A row, f : EditedImages(row, f) \subseteq
          {m \in row.images \cup Offered(f, "/images/rents_ad/") : m.file \notin f.del}
    BY <1>6 DEF EditedImages, Offered, Uploaded, ByKind, RA!EditedImages,
         RA!CombinedImages, RA!EditURL, RA!Uploaded, RA!WithSent
  <2>3. SaveDir = "rents_ad"
    BY <1>6 DEF SaveDir, ByKind, RA!SaveDir
  <2>4. RouteDir("/images/rent_ad/") = SaveDir <=> kind \notin {"work_ad", "rent_ad"}
    BY <1>6, <2>3 DEF RouteDir
  <2>5. RouteDir("/images/rents_ad/") = SaveDir <=> kind \notin {"work_ad", "rent_ad"}
    BY <1>6, <2>3 DEF RouteDir
  <2> USE DEF Address
  <2> WITNESS "/images/rent_ad/" \in Address, "/images/rents_ad/" \in Address
  <2> QED BY <2>1, <2>2, <2>4, <2>5
<1> QED BY <1>1, <1>2, <1>3, <1>4, <1>5, <1>6 DEF Kind

\* An image is one that the form names, or an upload whose address is answered.
Fine(m, f) == m.file \in f.add /\ UrlOK(m)

LEMMA OfferedAre ==
  ASSUME NEW f, f.add \subseteq File, f.list \cup f.links \subseteq Image, NEW url \in Address,
         RouteDir(url) = SaveDir <=> kind \notin {"work_ad", "rent_ad"}
  PROVE /\ Offered(f, url) \subseteq Image
        /\ \A m \in Offered(f, url) : m \in f.list \cup f.links \/ Fine(m, f)
<1>1. ASSUME NEW m \in Uploaded(f, url) PROVE m \in Image /\ m.file \in f.add /\ m.url = url
  <2>1. PICK x \in f.add : m = [file |-> x, url |-> url, link |-> FALSE]
    BY DEF Uploaded
  <2>2. x \in File
    OBVIOUS
  <2> QED BY <2>1, <2>2 DEF Image
<1>2. \A m \in Uploaded(f, url) : Fine(m, f)
  BY <1>1 DEF UrlOK, Fine
<1> QED BY <1>1, <1>2 DEF Offered

LEMMA NewImagesAre ==
  ASSUME kind \in Kind, NEW f, f.add \subseteq File, f.list \cup f.links \subseteq Image
  PROVE /\ NewImages(f) \subseteq Image
        /\ \A m \in NewImages(f) : m \in f.list \cup f.links \/ Fine(m, f)
<1>1. PICK new \in Address :
        /\ NewImages(f) \subseteq Offered(f, new)
        /\ RouteDir(new) = SaveDir <=> kind \notin {"work_ad", "rent_ad"}
  BY Addresses
<1> QED BY <1>1, OfferedAre

LEMMA UploadsSaved ==
  ASSUME kind \in Kind, NEW f
  PROVE SavedUploads(f) = [x \in File |-> IF x \in f.add THEN "there" ELSE disk[x]]
<1>1. CASE kind = "service"
  BY <1>1 DEF SavedUploads, ByKind, S!SaveUploads
<1>2. CASE kind = "work"
  BY <1>2 DEF SavedUploads, ByKind, W!SaveUploads
<1>3. CASE kind = "rent"
  BY <1>3 DEF SavedUploads, ByKind, R!SaveUploads
<1>4. CASE kind = "ad"
  BY <1>4 DEF SavedUploads, ByKind, A!SaveUploads
<1>5. CASE kind = "work_ad"
  BY <1>5 DEF SavedUploads, ByKind, WA!SaveUploads
<1>6. CASE kind = "rent_ad"
  BY <1>6 DEF SavedUploads, ByKind, RA!SaveUploads
<1> QED BY <1>1, <1>2, <1>3, <1>4, <1>5, <1>6 DEF Kind

LEMMA ImagesEdited ==
  ASSUME kind \in Kind, NEW row, NEW f, f.add \subseteq File, f.list \cup f.links \subseteq Image
  PROVE \A m \in EditedImages(row, f) :
          /\ m.file \notin f.del
          /\ \/ m \in row.images
             \/ m \in Image /\ (m \in f.list \cup f.links \/ Fine(m, f))
<1>1. PICK edited \in Address :
        /\ EditedImages(row, f) \subseteq
             {m \in row.images \cup Offered(f, edited) : m.file \notin f.del}
        /\ RouteDir(edited) = SaveDir <=> kind \notin {"work_ad", "rent_ad"}
  BY Addresses
<1> QED BY <1>1, OfferedAre

\* Files that are deleted are named by the form to delete, and by the listing or
\* by the form besides.
Gone(row, f) ==
  {x \in f.del : x \in f.add \/ \E m \in row.images \cup f.list \cup f.links : m.file = x}

LEMMA DiskEdited ==
  ASSUME kind \in Kind, NEW row, NEW f
  PROVE \E gone \in SUBSET Gone(row, f) :
          EditedDisk(row, f) =
            [x \in File |-> IF x \in gone THEN "removed"
                            ELSE IF x \in f.add THEN "there" ELSE disk[x]]
<1>1. CASE kind = "service"
  <2> DEFINE gone == {m.file : m \in {n \in S!CombinedImages(row, f) :
                         n.file \in f.del /\ ~ n.link /\ n.url = S!EditURL}}
  <2>1. S!CombinedImages(row, f) \subseteq
          row.images \cup f.list \cup f.links \cup S!Uploaded(f, S!EditURL)
    BY DEF S!CombinedImages, S!WithSent
  <2>2. \A m \in S!Uploaded(f, S!EditURL) : m.file \in f.add
    BY DEF S!Uploaded
  <2>3. gone \in SUBSET Gone(row, f)
    BY <2>1, <2>2 DEF Gone
  <2>4. EditedDisk(row, f) = [x \in File |-> IF x \in gone THEN "removed"
                                ELSE IF x \in f.add THEN "there" ELSE disk[x]]
    BY <1>1 DEF EditedDisk, ByKind, S!EditedDisk
  <2> HIDE DEF gone
  <2> QED BY <2>3, <2>4
<1>2. CASE kind = "work"
  <2> DEFINE gone == {m.file : m \in {n \in W!CombinedImages(row, f) :
                         n.file \in f.del /\ ~ n.link /\ n.url = W!EditURL}}
  <2>1. W!CombinedImages(row, f) \subseteq
          row.images \cup f.list \cup f.links \cup W!Uploaded(f, W!EditURL)
    BY DEF W!CombinedImages, W!WithSent
  <2>2. \A m \in W!Uploaded(f, W!EditURL) : m.file \in f.add
    BY DEF W!Uploaded
  <2>3. gone \in SUBSET Gone(row, f)
    BY <2>1, <2>2 DEF Gone
  <2>4. EditedDisk(row, f) = [x \in File |-> IF x \in gone THEN "removed"
                                ELSE IF x \in f.add THEN "there" ELSE disk[x]]
    BY <1>2 DEF EditedDisk, ByKind, W!EditedDisk
  <2> HIDE DEF gone
  <2> QED BY <2>3, <2>4
<1>3. CASE kind = "rent"
  <2> DEFINE gone == {m.file : m \in {n \in R!CombinedImages(row, f) :
                         n.file \in f.del /\ ~ n.link /\ n.url = R!EditURL}}
  <2>1. R!CombinedImages(row, f) \subseteq
          row.images \cup f.list \cup f.links \cup R!Uploaded(f, R!EditURL)
    BY DEF R!CombinedImages, R!WithSent
  <2>2. \A m \in R!Uploaded(f, R!EditURL) : m.file \in f.add
    BY DEF R!Uploaded
  <2>3. gone \in SUBSET Gone(row, f)
    BY <2>1, <2>2 DEF Gone
  <2>4. EditedDisk(row, f) = [x \in File |-> IF x \in gone THEN "removed"
                                ELSE IF x \in f.add THEN "there" ELSE disk[x]]
    BY <1>3 DEF EditedDisk, ByKind, R!EditedDisk
  <2> HIDE DEF gone
  <2> QED BY <2>3, <2>4
<1>4. CASE kind = "ad"
  <2> DEFINE gone == {m.file : m \in {n \in A!CombinedImages(row, f) :
                         n.file \in f.del /\ ~ n.link /\ n.url = A!EditURL}}
  <2>1. A!CombinedImages(row, f) \subseteq
          row.images \cup f.list \cup f.links \cup A!Uploaded(f, A!EditURL)
    BY DEF A!CombinedImages, A!WithSent
  <2>2. \A m \in A!Uploaded(f, A!EditURL) : m.file \in f.add
    BY DEF A!Uploaded
  <2>3. gone \in SUBSET Gone(row, f)
    BY <2>1, <2>2 DEF Gone
  <2>4. EditedDisk(row, f) = [x \in File |-> IF x \in gone THEN "removed"
                                ELSE IF x \in f.add THEN "there" ELSE disk[x]]
    BY <1>4 DEF EditedDisk, ByKind, A!EditedDisk
  <2> HIDE DEF gone
  <2> QED BY <2>3, <2>4
<1>5. CASE kind = "work_ad"
  <2> DEFINE gone == {m.file : m \in {n \in WA!CombinedImages(row, f) :
                         n.file \in f.del /\ ~ n.link /\ n.url = WA!EditURL}}
  <2>1. WA!CombinedImages(row, f) \subseteq
          row.images \cup f.list \cup f.links \cup WA!Uploaded(f, WA!EditURL)
    BY DEF WA!CombinedImages, WA!WithSent
  <2>2. \A m \in WA!Uploaded(f, WA!EditURL) : m.file \in f.add
    BY DEF WA!Uploaded
  <2>3. gone \in SUBSET Gone(row, f)
    BY <2>1, <2>2 DEF Gone
  <2>4. EditedDisk(row, f) = [x \in File |-> IF x \in gone THEN "removed"
                                ELSE IF x \in f.add THEN "there" ELSE disk[x]]
    BY <1>5 DEF EditedDisk, ByKind, WA!EditedDisk
  <2> HIDE DEF gone
  <2> QED BY <2>3, <2>4
<1>6. CASE kind = "rent_ad"
  <2> DEFINE gone == {m.file : m \in {n \in RA!CombinedImages(row, f) :
                         n.file \in f.del /\ ~ n.link /\ n.url = RA!EditURL}}
  <2>1. RA!CombinedImages(row, f) \subseteq
          row.images \cup f.list \cup f.links \cup RA!Uploaded(f, RA!EditURL)
    BY DEF RA!CombinedImages, RA!WithSent
  <2>2. \A m \in RA!Uploaded(f, RA!EditURL) : m.file \in f.add
    BY DEF RA!Uploaded
  <2>3. gone \in SUBSET Gone(row, f)
    BY <2>1, <2>2 DEF Gone
  <2>4. EditedDisk(row, f) = [x \in File |-> IF x \in gone THEN "removed"
                                ELSE IF x \in f.add THEN "there" ELSE disk[x]]
    BY <1>6 DEF EditedDisk, ByKind, RA!EditedDisk
  <2> HIDE DEF gone
  <2> QED BY <2>3, <2>4
<1> QED BY <1>1, <1>2, <1>3, <1>4, <1>5, <1>6 DEF Kind

LEMMA InsertedRow ==
  ASSUME kind \in Kind, NEW row
  PROVE Inserted(row) \subseteq {row}
<1>1. CASE kind = "service"
  BY <1>1 DEF Inserted, ByKind, S!Inserted
<1>2. CASE kind = "work"
  BY <1>2 DEF Inserted, ByKind, W!Inserted
<1>3. CASE kind = "rent"
  BY <1>3 DEF Inserted, ByKind, R!Inserted
<1>4. CASE kind = "ad"
  BY <1>4 DEF Inserted, ByKind, A!Inserted
<1>5. CASE kind = "work_ad"
  BY <1>5 DEF Inserted, ByKind, WA!Inserted
<1>6. CASE kind = "rent_ad"
  BY <1>6 DEF Inserted, ByKind, RA!Inserted
<1> QED BY <1>1, <1>2, <1>3, <1>4, <1>5, <1>6 DEF Kind

LEMMA FoundIsThere ==
  ASSUME kind \in Kind, NEW i, Found(i)
  PROVE i \in DOMAIN tbl
<1>1. CASE kind = "service"
  BY <1>1 DEF Found, ByKind, S!GetServiceByID
<1>2. CASE kind = "work"
  BY <1>2 DEF Found, ByKind, W!GetWorkByID
<1>3. CASE kind = "rent"
  BY <1>3 DEF Found, ByKind, R!GetRentByID
<1>4. CASE kind = "ad"
  BY <1>4 DEF Found, ByKind, A!GetAdByID
<1>5. CASE kind = "work_ad"
  BY <1>5 DEF Found, ByKind, WA!GetWorkAdByID
<1>6. CASE kind = "rent_ad"
  BY <1>6 DEF Found, ByKind, RA!GetRentAdByID
<1> QED BY <1>1, <1>2, <1>3, <1>4, <1>5, <1>6 DEF Kind

LEMMA OverlaidForm ==
  ASSUME kind \in Kind, NEW row, NEW f
  PROVE OverlayForm(row, f) =
          [Overlaid(row, f) EXCEPT
             !.status = IF "status" \in DOMAIN f THEN normalizeListingStatus(@) ELSE @]
<1>1. CASE kind = "service"
  BY <1>1 DEF OverlayForm, Overlaid, normalizeListingStatus, ByKind, S!OverlayForm,
       S!Overlaid, S!normalizeListingStatus
<1>2. CASE kind = "work"
  BY <1>2 DEF OverlayForm, Overlaid, normalizeListingStatus, ByKind, W!OverlayForm,
       W!Overlaid, W!normalizeListingStatus
<1>3. CASE kind = "rent"
  BY <1>3 DEF OverlayForm, Overlaid, normalizeListingStatus, ByKind, R!OverlayForm,
       R!Overlaid, R!normalizeListingStatus
<1>4. CASE kind = "ad"
  BY <1>4 DEF OverlayForm, Overlaid, normalizeListingStatus, ByKind, A!OverlayForm,
       A!Overlaid, A!normalizeListingStatus
<1>5. CASE kind = "work_ad"
  BY <1>5 DEF OverlayForm, Overlaid, normalizeListingStatus, ByKind, WA!OverlayForm,
       WA!Overlaid, WA!normalizeListingStatus
<1>6. CASE kind = "rent_ad"
  BY <1>6 DEF OverlayForm, Overlaid, normalizeListingStatus, ByKind, RA!OverlayForm,
       RA!Overlaid, RA!normalizeListingStatus
<1> QED BY <1>1, <1>2, <1>3, <1>4, <1>5, <1>6 DEF Kind

LEMMA RowsWritten ==
  ASSUME kind \in Kind
  PROVE /\ \A i, row : Updated(i, row) = [tbl EXCEPT ![i] = row]
        /\ \A i : Deleted(i) = [j \in DOMAIN tbl \ {i} |-> tbl[j]]
        /\ \A i, s : WithStatus(i, s) = [tbl EXCEPT ![i].status = s]
        /\ \A u : ArchivedOf(u) =
             [i \in DOMAIN tbl |-> IF tbl[i].owner = u
                                     THEN [tbl[i] EXCEPT !.status = "archive"] ELSE tbl[i]]
<1>1. CASE kind = "service"
  BY <1>1 DEF Updated, Deleted, WithStatus, ArchivedOf, ByKind, S!UpdateService,
       S!DeleteService, S!UpdateStatus, S!ArchiveByUserID
<1>2. CASE kind = "work"
  BY <1>2 DEF Updated, Deleted, WithStatus, ArchivedOf, ByKind, W!UpdateWork,
       W!DeleteWork, W!UpdateStatus, W!ArchiveByUserID
<1>3. CASE kind = "rent"
  BY <1>3 DEF Updated, Deleted, WithStatus, ArchivedOf, ByKind, R!UpdateRent,
       R!DeleteRent, R!UpdateStatus, R!ArchiveByUserID
<1>4. CASE kind = "ad"
  BY <1>4 DEF Updated, Deleted, WithStatus, ArchivedOf, ByKind, A!UpdateAd, A!DeleteAd,
       A!UpdateStatus, A!ArchiveByUserID
<1>5. CASE kind = "work_ad"
  BY <1>5 DEF Updated, Deleted, WithStatus, ArchivedOf, ByKind, WA!UpdateWorkAd,
       WA!DeleteWorkAd, WA!UpdateStatus, WA!ArchiveByUserID
<1>6. CASE kind = "rent_ad"
  BY <1>6 DEF Updated, Deleted, WithStatus, ArchivedOf, ByKind, RA!UpdateRentAd,
       RA!DeleteRentAd, RA!UpdateStatus, RA!ArchiveByUserID
<1> QED BY <1>1, <1>2, <1>3, <1>4, <1>5, <1>6 DEF Kind

LEMMA PaidFor ==
  ASSUME kind \in Kind
  PROVE /\ CreateNeedsPaid <=> kind \in Executors
        /\ UnarchiveNeedsPaid <=> kind \in Executors
        /\ \A old, new : UpdateNeedsPaid(old, new) <=> new = "active" /\ old # "active"
<1>1. CASE kind = "service"
  BY <1>1 DEF CreateNeedsPaid, UnarchiveNeedsPaid, UpdateNeedsPaid, Executors, ByKind,
       S!CreateNeedsPaid, S!UnarchiveNeedsPaid, S!UpdateNeedsPaid
<1>2. CASE kind = "work"
  BY <1>2 DEF CreateNeedsPaid, UnarchiveNeedsPaid, UpdateNeedsPaid, Executors, ByKind,
       W!CreateNeedsPaid, W!UnarchiveNeedsPaid, W!UpdateNeedsPaid
<1>3. CASE kind = "rent"
  BY <1>3 DEF CreateNeedsPaid, UnarchiveNeedsPaid, UpdateNeedsPaid, Executors, ByKind,
       R!CreateNeedsPaid, R!UnarchiveNeedsPaid, R!UpdateNeedsPaid
<1>4. CASE kind = "ad"
  BY <1>4 DEF CreateNeedsPaid, UnarchiveNeedsPaid, UpdateNeedsPaid, Executors, ByKind,
       A!CreateNeedsPaid, A!UnarchiveNeedsPaid, A!UpdateNeedsPaid
<1>5. CASE kind = "work_ad"
  BY <1>5 DEF CreateNeedsPaid, UnarchiveNeedsPaid, UpdateNeedsPaid, Executors, ByKind,
       WA!CreateNeedsPaid, WA!UnarchiveNeedsPaid, WA!UpdateNeedsPaid
<1>6. CASE kind = "rent_ad"
  BY <1>6 DEF CreateNeedsPaid, UnarchiveNeedsPaid, UpdateNeedsPaid, Executors, ByKind,
       RA!CreateNeedsPaid, RA!UnarchiveNeedsPaid, RA!UpdateNeedsPaid
<1> QED BY <1>1, <1>2, <1>3, <1>4, <1>5, <1>6 DEF Kind

LEMMA ReadRow ==
  ASSUME kind \in Kind, NEW i, tbl[i] \in Row
  PROVE Read(i) = [tbl[i] EXCEPT !.stars = review[i], !.liked = FALSE,
                     !.city = IF kind \in WorkKinds THEN home[tbl[i].owner] ELSE @]
<1>1. CASE kind = "service"
  BY <1>1 DEF Read, WorkKinds, Row, ByKind, S!Read
<1>2. CASE kind = "work"
  BY <1>2 DEF Read, WorkKinds, Row, ByKind, W!Read
<1>3. CASE kind = "rent"
  BY <1>3 DEF Read, WorkKinds, Row, ByKind, R!Read
<1>4. CASE kind = "ad"
  BY <1>4 DEF Read, WorkKinds, Row, ByKind, A!Read
<1>5. CASE kind = "work_ad"
  BY <1>5 DEF Read, WorkKinds, Row, ByKind, WA!Read
<1>6. CASE kind = "rent_ad"
  BY <1>6 DEF Read, WorkKinds, Row, ByKind, RA!Read
<1> QED BY <1>1, <1>2, <1>3, <1>4, <1>5, <1>6 DEF Kind
-----------------------------------------------------------------------------
(* Forms and rows.                                                         *)

\* A row whose status may still be unnamed.
DraftRow ==
  [owner : User, city : City \cup {NoCity}, sub : Sub \cup {NoSub},
   price : Int, traits : SUBSET Trait, hours : {"unset", "day", "night",
   "round", "roundSec"}, hide : BOOLEAN, stars : Nat, liked : BOOLEAN,
   top : {"none", "active", "expired"}, status : ListStatus \cup {""}, born : Nat,
   images : SUBSET Image]

FormOK(f) ==
  /\ f.add \subseteq File /\ f.list \cup f.links \subseteq Image
  /\ DOMAIN f \subseteq Named
  /\ \A x \in DOMAIN f \cap DOMAIN FormType : f[x] \in FormType[x]

LEMMA FormFields ==
  /\ DOMAIN FormType = {"owner", "city", "sub", "price", "traits", "hours", "hide",
                        "stars", "liked", "top", "status"}
  /\ FormType.owner = User
BY DEF FormType

LEMMA FormsOK == ASSUME NEW f \in NewForms \cup EditForms PROVE FormOK(f)
BY MarketAssumption, FormFields DEF FormOK, Named, FileFields

LEMMA FormOwned ==
  ASSUME NEW f \in NewForms, NEW u \in User, NEW form, form = WithOwner(f, u)
  PROVE /\ FormOK(form) /\ form.owner \in User
        /\ form.add = f.add /\ form.list = f.list /\ form.links = f.links
<1>1. FormOK(f) /\ {"add", "list", "links"} \subseteq DOMAIN f
  BY FormsOK, MarketAssumption DEF FileFields
<1>2. /\ DOMAIN form = DOMAIN f \cup {"owner"}
      /\ \A x \in DOMAIN f : form[x] = f[x]
      /\ "owner" \notin DOMAIN f => form.owner = u
  BY DEF WithOwner
<1> QED BY <1>1, <1>2, FormFields DEF FormOK, Named, FileFields

LEMMA BlankTyped == ASSUME NEW u \in User PROVE BlankRow(u) \in DraftRow
BY DEF BlankRow, DraftRow, NoPrice

LEMMA OverlaidTyped ==
  ASSUME NEW row \in DraftRow, NEW f, FormOK(f)
  PROVE Overlaid(row, f) \in DraftRow
<1> DEFINE new == Overlaid(row, f)
<1>1. /\ DOMAIN row = {"owner", "city", "sub", "price", "traits", "hours", "hide", "stars",
                       "liked", "top", "status", "born", "images"}
      /\ {"images", "born"} \cap DOMAIN f = {}
  BY FormFields DEF DraftRow, FormOK, Named, FileFields
<1>2. \A x \in DOMAIN FormType : x \in DOMAIN f => f[x] \in FormType[x]
  BY DEF FormOK
<1>3. /\ new.owner \in User /\ new.city \in City \cup {NoCity} /\ new.sub \in Sub \cup {NoSub}
      /\ new.price \in Int /\ new.traits \in SUBSET Trait
      /\ new.hours \in {"unset", "day", "night", "round", "roundSec"}
  BY <1>1, <1>2 DEF Overlaid, FormType, DraftRow
<1>4. /\ new.hide \in BOOLEAN /\ new.stars \in Nat /\ new.liked \in BOOLEAN
      /\ new.top \in {"none", "active", "expired"} /\ new.status \in ListStatus \cup {""}
      /\ new.images \in SUBSET Image /\ new.born \in Nat
  BY <1>1, <1>2 DEF Overlaid, FormType, DraftRow
<1>5. new = [x \in {"owner", "city", "sub", "price", "traits", "hours", "hide", "stars",
                       "liked", "top", "status", "born", "images"} |-> new[x]]
  BY <1>1 DEF Overlaid
<1> HIDE DEF new
<1>6. new = [owner |-> new.owner, city |-> new.city, sub |-> new.sub, price |-> new.price,
             traits |-> new.traits, hours |-> new.hours, hide |-> new.hide,
             stars |-> new.stars, liked |-> new.liked, top |-> new.top,
             status |-> new.status, born |-> new.born, images |-> new.images]
  BY <1>5
<1>7. new \in DraftRow
  BY <1>3, <1>4, <1>6 DEF DraftRow
<1> QED BY <1>7 DEF new

LEMMA DraftWithStatus ==
  ASSUME NEW row \in DraftRow, NEW st \in ListStatus, NEW images \in SUBSET Image,
         NEW new, new = [[row EXCEPT !.status = st] EXCEPT !.images = images]
  PROVE new \in Row
BY DEF DraftRow, Row

LEMMA Normal ==
  ASSUME NEW st \in ListStatus \cup {""} PROVE normalizeListingStatus(st) \in ListStatus
BY DEF normalizeListingStatus, ListStatus

\* The row that a create makes, with these images, in second b.
Drafted(f, images, b) == [Created(f) EXCEPT !.images = images, !.born = b]

LEMMA CreatedTyped ==
  ASSUME kind \in Kind, NEW f, FormOK(f), f.owner \in User, NEW images \in SUBSET Image,
         NEW b \in Nat
  PROVE Drafted(f, images, b) \in Row /\ Drafted(f, images, b).images = images
<1> DEFINE row == Overlaid(BlankRow(f.owner), f)
<1>1. row \in DraftRow
  BY BlankTyped, OverlaidTyped
<1>2. row.status \in ListStatus \cup {""} /\ "status" \in DOMAIN row
  BY <1>1 DEF DraftRow
<1>3. Created(f) = [row EXCEPT !.status = normalizeListingStatus(row.status)]
  BY CreatedRow
<1> HIDE DEF row
<1>4. PICK plain : plain = [Created(f) EXCEPT !.images = images]
  OBVIOUS
<1>5. plain \in Row
  BY <1>1, <1>2, <1>3, <1>4, Normal, DraftWithStatus
<1>6. plain.images = images
  BY <1>1, <1>3, <1>4 DEF DraftRow
<1>7. Drafted(f, images, b) = [plain EXCEPT !.born = b]
  BY <1>4 DEF Drafted
<1> QED BY <1>5, <1>6, <1>7 DEF Row

LEMMA ReadTyped ==
  ASSUME TypeInv, NEW i \in DOMAIN tbl
  PROVE /\ Read(i) \in Row /\ Read(i).images = tbl[i].images
        /\ \A x \in DOMAIN Read(i) \ Refreshed :
             Read(i)[x] = tbl[i][x] \/ (x = "city" /\ kind \in WorkKinds)
<1>1. tbl[i] \in Row /\ kind \in Kind /\ i \in 1 .. MaxId
  BY MarketAssumption DEF TypeInv, RestTyped, Tables
<1>2. review[i] \in Nat /\ home[tbl[i].owner] \in City \cup {NoCity}
  <2>1. review \in [1 .. MaxId -> Nat] /\ home \in [User -> City \cup {NoCity}]
    BY DEF TypeInv, RestTyped
  <2>2. tbl[i].owner \in User
    BY <1>1 DEF Row
  <2> QED BY <1>1, <2>1, <2>2
<1>3. CASE kind \in WorkKinds
  <2>1. Read(i) = [tbl[i] EXCEPT !.stars = review[i], !.liked = FALSE,
                                 !.city = home[tbl[i].owner]]
    BY <1>1, <1>3, ReadRow
  <2> QED BY <1>1, <1>2, <1>3, <2>1 DEF Row, Refreshed
<1>4. CASE kind \notin WorkKinds
  <2>1. Read(i) = [tbl[i] EXCEPT !.stars = review[i], !.liked = FALSE, !.city = @]
    BY <1>1, <1>4, ReadRow
  <2> QED BY <1>1, <1>2, <2>1 DEF Row, Refreshed
<1> QED BY <1>3, <1>4

LEMMA EditTyped ==
  ASSUME TypeInv, NEW i \in DOMAIN tbl, NEW f \in EditForms, NEW images \in SUBSET Image,
         NEW row, row = [OverlayForm(Read(i), f) EXCEPT !.images = images]
  PROVE /\ row \in Row /\ row.images = images
        /\ \A x \in DOMAIN row \ (DOMAIN f \cup Refreshed) :
             row[x] = tbl[i][x] \/ (x = "city" /\ kind \in WorkKinds)
<1>1. PICK old : old = Read(i)
  OBVIOUS
<1>2. PICK laid : laid = Overlaid(old, f)
  OBVIOUS
<1>3. PICK st : st = IF "status" \in DOMAIN f THEN normalizeListingStatus(laid.status)
                                              ELSE laid.status
  OBVIOUS
<1>4. kind \in Kind /\ FormOK(f) /\ old \in Row
  BY <1>1, FormsOK, ReadTyped DEF TypeInv, RestTyped
<1>5. old \in DraftRow /\ DOMAIN old = DOMAIN laid
  BY <1>2, <1>4 DEF Row, DraftRow, Overlaid
<1>6. laid \in DraftRow
  BY <1>2, <1>4, <1>5, OverlaidTyped
<1>7. \A x \in DOMAIN old \ DOMAIN f : laid[x] = old[x]
  BY <1>2 DEF Overlaid
<1>8. "status" \in DOMAIN laid /\ laid.status \in ListStatus \cup {""}
  BY <1>6 DEF DraftRow
<1>9. st \in ListStatus /\ ("status" \notin DOMAIN f => st = old.status)
  BY <1>3, <1>4, <1>5, <1>7, <1>8, Normal DEF Row
<1>10. row = [[laid EXCEPT !.status = st] EXCEPT !.images = images]
  BY <1>1, <1>2, <1>3, <1>4, <1>8, OverlaidForm
<1>11. row \in Row
  BY <1>6, <1>9, <1>10, DraftWithStatus
<1>12. /\ row.images = images /\ row.status = st
       /\ DOMAIN row = DOMAIN laid
       /\ \A x \in DOMAIN laid \ {"status", "images"} : row[x] = laid[x]
  BY <1>6, <1>10 DEF DraftRow
<1>13. \A x \in DOMAIN row \ (DOMAIN f \cup Refreshed) : row[x] = old[x]
  BY <1>5, <1>7, <1>9, <1>12 DEF Refreshed
<1> QED BY <1>1, <1>5, <1>12, <1>13, <1>11, ReadTyped
-----------------------------------------------------------------------------
(* What the steps do to the requests and to the rows.                      *)

LEMMA TypesAreOK == ASSUME TypeInv PROVE MarketTypeOK
BY DEF TypeInv, RestTyped, Tables, ReqOK, Request, MarketTypeOK

PC == {"Reread", "CheckPaid", "Lapse", "Write"}
OthersGoOn(r) == \A s \in Slot \ {r} : req'[s] = req[s]

LEMMA Loading ==
  ASSUME TypeInv, NEW r \in Slot, NEW rec \in Request, Loaded(r, rec),
         rec = Idle \/ (/\ rec.pc \in PC /\ rec.op # "none" /\ rec.row \in Row
                        /\ rec.op = "edit" => rec.i \in 1 .. last /\ rec.seen \in Row),
         last' \in Nat, last <= last'
  PROVE ReqOK' /\ req'[r] = rec /\ OthersGoOn(r)
<1>1. req \in [Slot -> Request] /\ last \in Nat
  BY MarketAssumption DEF TypeInv, ReqOK, Tables
<1>2. req' \in [Slot -> Request] /\ req'[r] = rec /\ OthersGoOn(r)
  BY <1>1 DEF Loaded, OthersGoOn
<1>3. Idle.pc = "idle" /\ Idle.op = "none"
  BY DEF Idle
<1>4. 1 .. last \subseteq 1 .. last'
  BY <1>1
<1>5. ASSUME NEW s \in Slot
      PROVE /\ req'[s].pc = "idle" => req'[s] = Idle
            /\ req'[s].pc # "idle" => req'[s].op # "none" /\ req'[s].row \in Row
            /\ req'[s].op = "edit" => req'[s].i \in 1 .. last' /\ req'[s].seen \in Row
  <2>1. CASE s = r
    BY <1>2, <1>3, <1>4, <2>1 DEF PC
  <2>2. CASE s # r
    BY <1>2, <1>4, <2>2 DEF OthersGoOn, TypeInv, ReqOK
  <2> QED BY <2>1, <2>2
<1> QED BY <1>2, <1>5 DEF ReqOK

LEMMA Ending ==
  ASSUME TypeInv, NEW r \in Slot, End(r), last' \in Nat, last <= last'
  PROVE ReqOK' /\ req'[r] = Idle /\ OthersGoOn(r)
<1>1. Idle \in Request
  BY DEF Idle, Request
<1> QED BY <1>1, Loading DEF End, Loaded

LEMMA Going ==
  ASSUME TypeInv, NEW r \in Slot, req[r].pc # "idle", NEW pc \in PC, NEW g \in SUBSET {"paid", "public"},
         \/ Goto(r, pc) /\ g = {}
         \/ Loaded(r, [req[r] EXCEPT !.pc = pc, !.grounds = @ \cup g]),
         last' = last
  PROVE /\ ReqOK' /\ OthersGoOn(r)
        /\ req'[r].pc = pc /\ req'[r].grounds = req[r].grounds \cup g
        /\ req'[r].op = req[r].op /\ req'[r].i = req[r].i /\ req'[r].row = req[r].row
        /\ req'[r].seen = req[r].seen /\ req'[r].named = req[r].named
<1>1. /\ req \in [Slot -> Request] /\ last \in Nat
      /\ req[r].op # "none" /\ req[r].row \in Row
      /\ req[r].op = "edit" => req[r].i \in 1 .. last /\ req[r].seen \in Row
  BY MarketAssumption DEF TypeInv, ReqOK, Tables
<1>2. PICK rec : rec = [req[r] EXCEPT !.pc = pc, !.grounds = @ \cup g]
  OBVIOUS
<1>3. req[r] \in Request
  BY <1>1
<1>4. /\ rec \in Request /\ rec.pc = pc /\ rec.grounds = req[r].grounds \cup g
      /\ rec.op = req[r].op /\ rec.i = req[r].i /\ rec.row = req[r].row
      /\ rec.seen = req[r].seen /\ rec.named = req[r].named
  BY <1>2, <1>3 DEF Request, PC
<1>5. Loaded(r, rec)
  <2>1. CASE Goto(r, pc) /\ g = {}
    <3>1. rec = [req[r] EXCEPT !.pc = pc]
      BY <1>2, <1>3, <2>1 DEF Request
    <3> QED BY <1>1, <2>1, <3>1 DEF Goto, Loaded
  <2>2. CASE Loaded(r, [req[r] EXCEPT !.pc = pc, !.grounds = @ \cup g])
    BY <1>2, <2>2
  <2> QED BY <2>1, <2>2
<1>6. ReqOK' /\ req'[r] = rec /\ OthersGoOn(r)
  BY <1>1, <1>4, <1>5, Loading
<1> QED BY <1>4, <1>6

\* Rows come to no new files.
Restyled ==
  /\ DOMAIN tbl' \subseteq DOMAIN tbl /\ tbl' \in [DOMAIN tbl' -> Row]
  /\ \A j \in DOMAIN tbl' : tbl'[j].images = tbl[j].images

LEMMA StatusWritten ==
  ASSUME TypeInv, NEW i \in DOMAIN tbl, NEW st \in ListStatus, tbl' = WithStatus(i, st)
  PROVE /\ Restyled /\ tbl'[i].status = st
        /\ \A j \in DOMAIN tbl' : j # i => tbl'[j] = tbl[j]
<1>1. tbl \in [DOMAIN tbl -> Row] /\ kind \in Kind
  BY DEF TypeInv, RestTyped, Tables
<1>2. tbl' = [tbl EXCEPT ![i].status = st]
  BY <1>1, RowsWritten
<1>3. PICK row : row = [tbl[i] EXCEPT !.status = st]
  OBVIOUS
<1>4. tbl[i] \in Row
  BY <1>1
<1>5. row \in Row /\ row.images = tbl[i].images /\ row.status = st
  BY <1>3, <1>4 DEF Row
<1>6. tbl' = [tbl EXCEPT ![i] = row]
  BY <1>2, <1>3
<1> QED BY <1>1, <1>5, <1>6 DEF Restyled

LEMMA TopWritten ==
  ASSUME TypeInv, NEW i \in DOMAIN tbl, NEW t \in {"none", "active", "expired"},
         tbl' = [tbl EXCEPT ![i].top = t]
  PROVE /\ Restyled
        /\ \A j \in DOMAIN tbl' : tbl'[j].status = tbl[j].status
<1>1. tbl \in [DOMAIN tbl -> Row]
  BY DEF TypeInv, Tables
<1>2. PICK row : row = [tbl[i] EXCEPT !.top = t]
  OBVIOUS
<1>3. tbl[i] \in Row
  BY <1>1
<1>4. row \in Row /\ row.images = tbl[i].images /\ row.status = tbl[i].status
  BY <1>2, <1>3 DEF Row
<1>5. tbl' = [tbl EXCEPT ![i] = row]
  BY <1>2
<1> QED BY <1>1, <1>4, <1>5 DEF Restyled

LEMMA RowDeleted ==
  ASSUME TypeInv, NEW i, tbl' = Deleted(i)
  PROVE Restyled /\ \A j \in DOMAIN tbl' : tbl'[j] = tbl[j]
<1>1. tbl \in [DOMAIN tbl -> Row] /\ kind \in Kind
  BY DEF TypeInv, RestTyped, Tables
<1>2. tbl' = [j \in DOMAIN tbl \ {i} |-> tbl[j]]
  BY <1>1, RowsWritten
<1> QED BY <1>1, <1>2 DEF Restyled

LEMMA ArchivedBySubscription ==
  ASSUME TypeInv, NEW u, tbl' = ArchiveListingsByType(u)
  PROVE /\ Restyled
        /\ \A j \in DOMAIN tbl' : tbl'[j].status \in {"archive", tbl[j].status}
<1>1. tbl \in [DOMAIN tbl -> Row] /\ kind \in Kind
  BY DEF TypeInv, RestTyped, Tables
<1>2. CASE kind \in Executors
  <2>1. tbl' = [j \in DOMAIN tbl |-> IF tbl[j].owner = u
                       THEN [tbl[j] EXCEPT !.status = "archive"] ELSE tbl[j]]
    BY <1>1, <1>2, RowsWritten DEF ArchiveListingsByType
  <2>2. ASSUME NEW j \in DOMAIN tbl
        PROVE /\ tbl'[j] \in Row /\ tbl'[j].images = tbl[j].images
              /\ tbl'[j].status \in {"archive", tbl[j].status}
    <3>1. tbl[j] \in Row
      BY <1>1
    <3>2. CASE tbl[j].owner = u
      <4>1. tbl'[j] = [tbl[j] EXCEPT !.status = "archive"]
        BY <2>1, <3>2
      <4> QED BY <3>1, <4>1 DEF Row, ListStatus
    <3>3. CASE tbl[j].owner # u
      BY <2>1, <3>1, <3>3
    <3> QED BY <3>2, <3>3
  <2> QED BY <2>1, <2>2 DEF Restyled
<1>3. CASE kind \notin Executors
  BY <1>1, <1>3 DEF ArchiveListingsByType, Restyled
<1> QED BY <1>2, <1>3

LEMMA SameTable == ASSUME TypeInv, tbl' = tbl PROVE Restyled
BY DEF TypeInv, Tables, Restyled
-----------------------------------------------------------------------------
(* Steps that bring no file to a listing or a request.                     *)

Calm ==
  /\ kind' = kind /\ last' = last /\ disk' = disk /\ lent' = lent
  /\ torn \subseteq torn' /\ torn' \subseteq 1 .. last
  /\ Restyled
  /\ \A r \in Slot :
       /\ req'[r].op \in {"create", "edit"} =>
            /\ req'[r].op = req[r].op /\ req'[r].i = req[r].i /\ req'[r].row = req[r].row
            /\ req'[r].seen = req[r].seen /\ req'[r].named = req[r].named
       /\ req[r].op = "edit" =>
            \/ req'[r].op = "edit" /\ req'[r].i = req[r].i
            \/ req[r].i \in torn' \/ req[r].i \notin DOMAIN tbl'

LEMMA SameDir == ASSUME kind' = kind PROVE SaveDir' = SaveDir
BY DEF SaveDir, ByKind, S!SaveDir, W!SaveDir, R!SaveDir, A!SaveDir, WA!SaveDir,
     RA!SaveDir

LEMMA CalmTables == ASSUME TypeInv, Calm PROVE Tables'
BY DEF TypeInv, Tables, Calm, Restyled

LEMMA CalmFiles == ASSUME TypeInv, FilesInv, Calm PROVE FilesInv'
<1>1. Used'
  BY DEF FilesInv, Used, Calm, Restyled, Files, Writes
<1>2. Apart'
  <2>1. ASSUME NEW i \in DOMAIN tbl', NEW j \in DOMAIN tbl', i # j
        PROVE Files(tbl'[i].images) \cap Files(tbl'[j].images) = {}
    BY <2>1 DEF FilesInv, Apart, Calm, Restyled
  <2>2. ASSUME NEW r \in Slot, NEW i \in DOMAIN tbl', Writes(r)', ~ Edits(r, i)'
        PROVE Files(req'[r].row.images) \cap Files(tbl'[i].images) = {}
    BY <2>2 DEF FilesInv, Apart, Calm, Restyled, Writes, Edits
  <2>3. ASSUME NEW r \in Slot, NEW s \in Slot, r # s, Writes(r)', Writes(s)'
        PROVE \/ req'[r].op = "edit" /\ req'[r].i = req'[s].i /\ req'[s].op = "edit"
              \/ Files(req'[r].row.images) \cap Files(req'[s].row.images) = {}
    <3>1. Writes(r) /\ Writes(s)
      BY <2>3 DEF Calm, Writes
    <3>2. \/ req[r].op = "edit" /\ req[r].i = req[s].i /\ req[s].op = "edit"
          \/ Files(req[r].row.images) \cap Files(req[s].row.images) = {}
      BY <2>3, <3>1 DEF FilesInv, Apart, Edits
    <3> QED BY <2>3, <3>2 DEF Calm, Writes
  <2>4. lent' = lent
    BY DEF Calm
  <2> QED BY <2>1, <2>2, <2>3, <2>4 DEF Apart, Edits, Files
<1>3. Sole'
  BY DEF FilesInv, Sole, Calm, Edits
<1>4. Intact'
  <2>1. SUFFICES ASSUME NEW i \in DOMAIN tbl' \ torn', \A r \in Slot : ~ Edits(r, i)'
                 PROVE Kept(tbl[i].images)'
    BY DEF Intact
  <2>2. i \in DOMAIN tbl \ torn /\ tbl'[i].images = tbl[i].images
    BY DEF Calm, Restyled
  <2>3. \A r \in Slot : ~ Edits(r, i)
    BY <2>1 DEF Calm, Edits
  <2>4. Kept(tbl[i].images)
    BY <2>2, <2>3 DEF FilesInv, Intact
  <2> QED BY <2>2, <2>4, SameDir DEF Kept, UrlOK, Calm
<1>5. ReqIntact'
  <2>1. SUFFICES ASSUME NEW r \in Slot, Creates(r)' \/ (req'[r].op = "edit" /\ req'[r].i \notin torn')
                 PROVE Kept(req[r].row.images)'
    BY DEF ReqIntact
  <2>2. /\ Creates(r) \/ (req[r].op = "edit" /\ req[r].i \notin torn)
        /\ req'[r].row = req[r].row
    BY <2>1 DEF Calm, Creates
  <2>3. Kept(req[r].row.images)
    BY <2>2 DEF FilesInv, ReqIntact
  <2> QED BY <2>2, <2>3, SameDir DEF Kept, UrlOK, Calm
<1> QED BY <1>1, <1>2, <1>3, <1>4, <1>5 DEF FilesInv

LEMMA CalmForms == ASSUME FormKept, Calm PROVE FormKept'
BY DEF FormKept, Calm

\* A request that goes on, or ends where its edit is given up.
LEMMA CalmRequest ==
  ASSUME NEW r \in Slot, OthersGoOn(r),
         \/ req'[r] = Idle /\ (req[r].op = "edit" => req[r].i \in torn')
         \/ /\ req'[r].op = req[r].op /\ req'[r].i = req[r].i /\ req'[r].row = req[r].row
            /\ req'[r].seen = req[r].seen /\ req'[r].named = req[r].named,
         kind' = kind, last' = last, disk' = disk, lent' = lent, torn \subseteq torn',
         torn' \subseteq 1 .. last, Restyled
  PROVE Calm
BY DEF Calm, OthersGoOn, Idle

LEMMA CalmRows ==
  ASSUME TypeInv, Restyled, req' = req, kind' = kind, last' = last, disk' = disk, torn' = torn,
         lent' = lent
  PROVE Calm /\ ReqOK'
BY DEF Calm, TypeInv, Tables, ReqOK

LEMMA CalmStep ==
  ASSUME MarketInv, Calm, RestTyped', ReqOK', GroundsFound'
  PROVE MarketInv'
BY CalmTables, CalmFiles, CalmForms DEF MarketInv, TypeInv

LEMMA RowsStep ==
  ASSUME MarketInv, Restyled, req' = req, kind' = kind, last' = last, disk' = disk,
         torn' = torn, lent' = lent, RestTyped'
  PROVE MarketInv'
<1>1. GroundsFound'
  BY DEF MarketInv, GroundsFound
<1> QED BY <1>1, CalmRows, CalmStep DEF MarketInv

\* Grounds are asked of a request that is about to write, and of the one that
\* this step changed.
LEMMA GroundsStep ==
  ASSUME GroundsFound, NEW r \in Slot, OthersGoOn(r), kind' = kind,
         req'[r].pc = "Write" =>
           /\ req'[r].op = "edit" /\ req'[r].row.status = "active" => req'[r].grounds # {}
           /\ req'[r].op = "restore" /\ kind \in Executors => req'[r].grounds # {}
  PROVE GroundsFound'
BY DEF GroundsFound, OthersGoOn

LEMMA TornGrows ==
  ASSUME TypeInv, NEW r \in Slot, Torn(r)
  PROVE /\ torn \subseteq torn' /\ torn' \subseteq 1 .. last
        /\ req[r].op = "edit" => req[r].i \in torn'
BY DEF TypeInv, Tables, ReqOK, Torn

LEMMA LastIsNat == ASSUME TypeInv PROVE last \in Nat /\ torn \subseteq 1 .. last
BY MarketAssumption DEF TypeInv, Tables

LEMMA GivenUp ==
  ASSUME MarketInv, NEW r \in Slot, End(r), Torn(r), Restyled,
         UNCHANGED <<kind, home, review, last, disk, paid, cleaning, lent>>
  PROVE MarketInv'
<1>1. TypeInv /\ GroundsFound /\ last \in Nat /\ RestTyped
  BY LastIsNat DEF MarketInv, TypeInv
<1>2. ReqOK' /\ req'[r] = Idle /\ OthersGoOn(r)
  BY <1>1, Ending
<1>3. Calm
  BY <1>1, <1>2, TornGrows, CalmRequest
<1>4. GroundsFound'
  BY <1>1, <1>2, GroundsStep DEF Idle
<1>5. RestTyped'
  BY <1>1 DEF RestTyped
<1> QED BY <1>2, <1>3, <1>4, <1>5, CalmStep

LEMMA GoesOn ==
  ASSUME MarketInv, NEW r \in Slot, req[r].pc # "idle", NEW pc \in PC, NEW g \in SUBSET {"paid", "public"},
         \/ Goto(r, pc) /\ g = {}
         \/ Loaded(r, [req[r] EXCEPT !.pc = pc, !.grounds = @ \cup g]),
         pc = "Write" => g # {},
         UNCHANGED <<kind, tbl, home, review, last, disk, paid, cleaning, torn, lent>>
  PROVE MarketInv'
<1>1. TypeInv /\ GroundsFound /\ torn \subseteq 1 .. last /\ RestTyped
  BY LastIsNat DEF MarketInv, TypeInv
<1>2. /\ ReqOK' /\ OthersGoOn(r)
      /\ req'[r].pc = pc /\ req'[r].grounds = req[r].grounds \cup g
      /\ req'[r].op = req[r].op /\ req'[r].i = req[r].i /\ req'[r].row = req[r].row
      /\ req'[r].seen = req[r].seen /\ req'[r].named = req[r].named
  BY <1>1, Going
<1>3. Restyled
  BY <1>1, SameTable
<1>4. Calm
  BY <1>1, <1>2, <1>3, CalmRequest
<1>5. GroundsFound'
  BY <1>1, <1>2, GroundsStep
<1>6. RestTyped'
  BY <1>1 DEF RestTyped
<1> QED BY <1>2, <1>4, <1>5, <1>6, CalmStep

LEMMA RereadStep == ASSUME MarketInv, NEW r \in Slot, Reread(r) PROVE MarketInv'
<1>1. CASE End(r) /\ Torn(r)
  BY <1>1, GivenUp, SameTable DEF Reread, MarketInv
<1>2. CASE Goto(r, "CheckPaid") /\ UNCHANGED torn
  <2>1. "CheckPaid" \in PC /\ "CheckPaid" # "Write" /\ {} \in SUBSET {"paid", "public"}
    BY DEF PC
  <2>2. /\ req[r].pc # "idle"
        /\ UNCHANGED <<kind, tbl, home, review, last, disk, paid, cleaning, torn, lent>>
    BY <1>2 DEF Reread
  <2> QED BY <1>2, <2>1, <2>2, GoesOn
<1>3. CASE /\ Loaded(r, [req[r] EXCEPT !.pc = "Write", !.grounds = @ \cup {"public"}])
           /\ UNCHANGED torn
  BY <1>3, GoesOn DEF Reread, PC
<1> QED BY <1>1, <1>2, <1>3 DEF Reread

LEMMA CheckPaidStep == ASSUME MarketInv, NEW r \in Slot, CheckPaid(r) PROVE MarketInv'
<1>1. CASE End(r) /\ Torn(r)
  BY <1>1, GivenUp, SameTable DEF CheckPaid, MarketInv
<1>2. CASE Goto(r, "Lapse") /\ UNCHANGED torn
  BY <1>2, GoesOn DEF CheckPaid, PC
<1>3. CASE /\ Loaded(r, [req[r] EXCEPT !.pc = "Write", !.grounds = @ \cup {"paid"}])
           /\ UNCHANGED torn
  <2>1. "Write" \in PC /\ {"paid"} \in SUBSET {"paid", "public"} /\ {"paid"} # {}
    BY DEF PC
  <2>2. /\ req[r].pc # "idle"
        /\ UNCHANGED <<kind, tbl, home, review, last, disk, paid, cleaning, torn, lent>>
    BY <1>3 DEF CheckPaid
  <2> QED BY <1>3, <2>1, <2>2, GoesOn
<1> QED BY <1>1, <1>2, <1>3 DEF CheckPaid

LEMMA LapseStep == ASSUME MarketInv, NEW r \in Slot, Lapse(r) PROVE MarketInv'
BY GivenUp, ArchivedBySubscription DEF Lapse, MarketInv

LEMMA DropStep == ASSUME MarketInv, NEW r \in Slot, Drop(r) PROVE MarketInv'
BY GivenUp, SameTable DEF Drop, MarketInv

LEMMA StartRestoreStep ==
  ASSUME MarketInv, NEW r \in Slot, NEW i \in DOMAIN tbl, StartRestore(r, i)
  PROVE MarketInv'
<1>1. TypeInv /\ GroundsFound /\ last \in Nat /\ torn \subseteq 1 .. last /\ RestTyped
  BY LastIsNat DEF MarketInv, TypeInv
<1>2. PICK rec : rec = [Idle EXCEPT !.pc = IF UnarchiveNeedsPaid THEN "CheckPaid" ELSE "Write",
                                    !.op = "restore", !.i = i, !.row = tbl[i]]
  OBVIOUS
<1>3. tbl[i] \in Row /\ i \in Nat
  BY <1>1 DEF TypeInv, Tables
<1>4. /\ rec.pc = IF UnarchiveNeedsPaid THEN "CheckPaid" ELSE "Write"
      /\ rec.op = "restore" /\ rec.row = tbl[i] /\ rec \in Request
  BY <1>2, <1>3 DEF Idle, Request
<1>5. ReqOK' /\ req'[r] = rec /\ OthersGoOn(r)
  <2>1. Loaded(r, rec) /\ last' = last
    BY <1>2 DEF StartRestore
  <2>2. rec.pc \in PC
    BY <1>4 DEF PC
  <2> QED BY <1>1, <1>3, <1>4, <2>1, <2>2, Loading
<1>6. req[r] = Idle /\ Idle.op = "none"
  BY <1>1 DEF StartRestore, TypeInv, ReqOK, Idle
<1>7. Restyled
  BY <1>1, SameTable DEF StartRestore
<1>8. Calm
  BY <1>1, <1>4, <1>5, <1>6, <1>7 DEF Calm, OthersGoOn, StartRestore
<1>9. GroundsFound'
  BY <1>1, <1>4, <1>5, GroundsStep, PaidFor DEF StartRestore, RestTyped
<1>10. RestTyped'
  BY <1>1 DEF RestTyped, StartRestore
<1> QED BY <1>5, <1>8, <1>9, <1>10, CalmStep

\* What other parts do.
LEMMA ForeignSteps ==
  ASSUME MarketInv, NEW i \in DOMAIN tbl,
         \/ Archive(i) \/ Delete(i) \/ OrderMoves(i) \/ Rate(i)
         \/ ActivateTop(i) \/ TopExpires(i) \/ ClearExpiredTop(i) \/ DeactivateTop(i)
  PROVE MarketInv'
<1>1. TypeInv /\ RestTyped
  BY DEF MarketInv, TypeInv
<1>2. CASE Archive(i)
  <2>1. Restyled
    BY <1>1, <1>2, StatusWritten DEF Archive, ListStatus
  <2>2. RestTyped'
    BY <1>1, <1>2 DEF Archive, RestTyped
  <2> QED BY <1>2, <2>1, <2>2, RowsStep DEF Archive
<1>3. CASE Delete(i)
  <2>1. Restyled
    BY <1>1, <1>3, RowDeleted DEF Delete
  <2>2. RestTyped'
    BY <1>1, <1>3 DEF Delete, RestTyped
  <2> QED BY <1>3, <2>1, <2>2, RowsStep DEF Delete
<1>4. CASE OrderMoves(i)
  <2>1. PICK st \in {"active", "in_progress", "done"} : tbl' = WithStatus(i, st)
    BY <1>4 DEF OrderMoves
  <2>2. Restyled
    BY <1>1, <2>1, StatusWritten DEF ListStatus
  <2>3. RestTyped'
    BY <1>1, <1>4 DEF OrderMoves, RestTyped
  <2> QED BY <1>4, <2>2, <2>3, RowsStep DEF OrderMoves
<1>5. CASE Rate(i)
  <2>1. Restyled
    BY <1>1, <1>5, SameTable DEF Rate
  <2>2. PICK n \in {1, 2} : review' = [review EXCEPT ![i] = n]
    BY <1>5 DEF Rate
  <2>3. review \in [1 .. MaxId -> Nat] /\ n \in Nat
    BY <1>1 DEF RestTyped
  <2>4. review' \in [1 .. MaxId -> Nat]
    BY <2>2, <2>3
  <2>5. RestTyped'
    BY <1>1, <1>5, <2>4 DEF Rate, RestTyped
  <2> QED BY <1>5, <2>1, <2>5, RowsStep DEF Rate
<1>6. CASE ActivateTop(i) \/ TopExpires(i) \/ ClearExpiredTop(i) \/ DeactivateTop(i)
  <2>1. PICK t \in {"none", "active", "expired"} : SetTop(i, t)
    BY <1>6 DEF ActivateTop, TopExpires, ClearExpiredTop, DeactivateTop
  <2>2. Restyled
    BY <1>1, <2>1, TopWritten DEF SetTop
  <2>3. RestTyped'
    BY <1>1, <2>1 DEF SetTop, RestTyped
  <2> QED BY <2>1, <2>2, <2>3, RowsStep DEF SetTop
<1> QED BY <1>2, <1>3, <1>4, <1>5, <1>6

LEMMA SubscriptionSteps ==
  ASSUME MarketInv,
         \/ \E u \in User :
              \/ MoveHome(u) \/ Expires(u) \/ ExtendSubscription(u) \/ CleanerArchives(u)
         \/ CleanerReads \/ CleanerStops
  PROVE MarketInv'
<1>1. TypeInv /\ RestTyped
  BY DEF MarketInv, TypeInv
<1>2. ASSUME NEW u \in User, MoveHome(u) PROVE MarketInv'
  <2>1. Restyled
    BY <1>1, <1>2, SameTable DEF MoveHome
  <2>2. RestTyped'
    BY <1>1, <1>2 DEF MoveHome, RestTyped
  <2> QED BY <1>2, <2>1, <2>2, RowsStep DEF MoveHome
<1>3. ASSUME NEW u \in User, Expires(u) PROVE MarketInv'
  <2>1. Restyled
    BY <1>1, <1>3, SameTable DEF Expires
  <2>2. RestTyped'
    BY <1>1, <1>3 DEF Expires, RestTyped
  <2> QED BY <1>3, <2>1, <2>2, RowsStep DEF Expires
<1>4. ASSUME NEW u \in User, ExtendSubscription(u) PROVE MarketInv'
  <2>1. Restyled
    BY <1>1, <1>4, SameTable DEF ExtendSubscription
  <2>2. RestTyped'
    BY <1>1, <1>4 DEF ExtendSubscription, RestTyped
  <2> QED BY <1>4, <2>1, <2>2, RowsStep DEF ExtendSubscription
<1>5. ASSUME NEW u \in User, CleanerArchives(u) PROVE MarketInv'
  <2>1. Restyled
    BY <1>1, <1>5, ArchivedBySubscription DEF CleanerArchives
  <2>2. RestTyped'
    BY <1>1, <1>5 DEF CleanerArchives, RestTyped
  <2> QED BY <1>5, <2>1, <2>2, RowsStep DEF CleanerArchives
<1>6. CASE CleanerReads \/ CleanerStops
  <2>1. Restyled
    BY <1>1, <1>6, SameTable DEF CleanerReads, CleanerStops
  <2>2. RestTyped'
    BY <1>1, <1>6 DEF CleanerReads, CleanerStops, RestTyped
  <2> QED BY <1>6, <2>1, <2>2, RowsStep DEF CleanerReads, CleanerStops
<1> QED BY <1>2, <1>3, <1>4, <1>5, <1>6
-----------------------------------------------------------------------------
(* Steps that bring files.                                                 *)

LEMMA NowIsNat == ASSUME TypeInv PROVE Now \subseteq Nat
<1>1. \A i \in DOMAIN tbl : tbl[i].born \in Nat
  BY DEF TypeInv, Tables, Row
<1>2. \A r \in Slot : req[r].op = "create" => req[r].row.born \in Nat
  BY DEF TypeInv, ReqOK, Idle, Row
<1>3. Born \subseteq Nat
  BY <1>1, <1>2 DEF Born
<1> SUFFICES ASSUME NEW b \in Now PROVE b \in Nat
  OBVIOUS
<1>4. b = 0 \/ b \in Born \/ \E n \in Born : b = n + 1
  BY DEF Now
<1>5. CASE \E n \in Born : b = n + 1
  <2>1. PICK n \in Born : b = n + 1
    BY <1>5
  <2>2. n \in Nat
    BY <1>3
  <2> QED BY <2>1, <2>2
<1>6. CASE b \in Born
  BY <1>3, <1>6
<1> QED BY <1>4, <1>5, <1>6

\* Other requests and rows keep their files.
LEMMA StartCreateStep ==
  ASSUME MarketInv, NEW r \in Slot, NEW u \in User, NEW f \in NewForms, NEW b \in Now,
         StartCreate(r, u, f, b)
  PROVE MarketInv'
<1>1. /\ TypeInv /\ RestTyped /\ ReqOK /\ Tables /\ GroundsFound /\ FilesInv /\ FormKept
      /\ last \in Nat /\ torn \subseteq 1 .. last /\ kind \in Kind
  BY LastIsNat DEF MarketInv, TypeInv, RestTyped
<1>2. PICK form : form = WithOwner(f, u)
  OBVIOUS
<1>3. /\ FormOK(form) /\ form.owner \in User
      /\ form.add = f.add /\ form.list = f.list /\ form.links = f.links
      /\ f.add \subseteq File /\ f.list \cup f.links \subseteq Image
  BY <1>2, FormOwned, FormsOK DEF FormOK
<1>4. PICK row : row = [Created(form) EXCEPT !.images = NewImages(form), !.born = b]
  OBVIOUS
<1>5. /\ NewImages(form) \subseteq Image
      /\ \A m \in NewImages(form) : m \in f.list \cup f.links \/ Fine(m, f)
  BY <1>1, <1>3, NewImagesAre DEF Fine
<1>6. b \in Nat
  BY <1>1, NowIsNat
<1>7. row \in Row /\ row.images = NewImages(form)
  <2>1. PICK images : images = NewImages(form)
    OBVIOUS
  <2>2. images \in SUBSET Image
    BY <1>5, <2>1
  <2>3. row = Drafted(form, images, b)
    BY <1>4, <2>1 DEF Drafted
  <2>4. Drafted(form, images, b) \in Row /\ Drafted(form, images, b).images = images
    BY <1>1, <1>3, <1>6, <2>2, CreatedTyped
  <2> QED BY <2>1, <2>3, <2>4
<1>8. PICK rec : rec = [Idle EXCEPT !.pc = IF CreateNeedsPaid THEN "CheckPaid" ELSE "Write",
                                    !.op = "create", !.row = row]
  OBVIOUS
<1>9. rec \in Request /\ rec.pc \in PC /\ rec.op = "create" /\ rec.row = row
  BY <1>7, <1>8 DEF Idle, Request, PC
<1>10. ReqOK' /\ req'[r] = rec /\ OthersGoOn(r)
  <2>1. Loaded(r, rec) /\ last' = last
    BY <1>2, <1>4, <1>8 DEF StartCreate
  <2> QED BY <1>1, <1>7, <1>9, <2>1, Loading
<1>11. disk' = [x \in File |-> IF x \in f.add THEN "there" ELSE disk[x]]
  BY <1>1, <1>2, <1>3, UploadsSaved DEF StartCreate
<1>12. \A x \in f.add : disk[x] = "unused"
  BY DEF StartCreate, Fresh
<1>13. /\ kind' = kind /\ last' = last /\ torn' = torn /\ tbl' = tbl
       /\ home' = home /\ review' = review /\ paid' = paid /\ cleaning' = cleaning
  BY DEF StartCreate
<1>14. /\ \A i \in DOMAIN tbl : \A m \in tbl[i].images : m.file \in File
       /\ \A s \in Slot : Writes(s) => \A m \in req[s].row.images : m.file \in File
  BY <1>1 DEF Tables, ReqOK, Idle, Writes, Row, Image
<1>15. \A x \in File : disk[x] # "unused" => disk'[x] = disk[x] /\ x \notin f.add
  BY <1>11, <1>12
<1>16. /\ lent' = lent \cup {m.file : m \in row.images \cap (f.list \cup f.links)}
       /\ lent \subseteq lent' /\ lent' \subseteq File
  BY <1>1, <1>2, <1>5, <1>7 DEF StartCreate, RestTyped, Image
<1> DEFINE Own(images) == {m.file : m \in images} \ lent'
<1>25. \A images : Own(images) \subseteq Files(images)
  BY <1>16 DEF Files
<1>26. \A m \in row.images : m.file \notin lent' =>
         m.file \in f.add /\ m.file \in File /\ UrlOK(m) /\ disk'[m.file] = "there"
  BY <1>3, <1>5, <1>7, <1>11, <1>16 DEF Fine
<1>17. RestTyped'
  BY <1>1, <1>11, <1>13, <1>16 DEF RestTyped
<1>18. Tables'
  BY <1>1, <1>13 DEF Tables
<1>19. FormKept' /\ GroundsFound'
  BY <1>1, <1>9, <1>10, <1>13, GroundsStep DEF FormKept, OthersGoOn
<1>20. Used'
  <2>1. ASSUME NEW i \in DOMAIN tbl, NEW m \in tbl[i].images, m.file \notin lent'
        PROVE disk'[m.file] # "unused"
    BY <1>1, <1>14, <1>15, <1>16, <2>1 DEF FilesInv, Used, Files
  <2>2. ASSUME NEW s \in Slot \ {r}, Writes(s), NEW m \in req[s].row.images, m.file \notin lent'
        PROVE disk'[m.file] # "unused"
    BY <1>1, <2>2, <1>14, <1>15, <1>16 DEF FilesInv, Used, Files
  <2>3. ASSUME NEW s \in Slot, Writes(s)', NEW m \in req'[s].row.images, m.file \notin lent'
        PROVE disk'[m.file] # "unused"
    BY <1>9, <1>10, <1>26, <2>2, <2>3 DEF Writes, OthersGoOn
  <2> QED BY <1>13, <2>1, <2>3 DEF Used, Files
<1>21. Apart'
  <2>1. ASSUME NEW i \in DOMAIN tbl PROVE Own(row.images) \cap Own(tbl[i].images) = {}
    BY <1>1, <1>12, <1>16, <1>26 DEF FilesInv, Used, Files
  <2>2. ASSUME NEW s \in Slot \ {r}, Writes(s)
        PROVE Own(row.images) \cap Own(req[s].row.images) = {}
    BY <1>1, <1>12, <1>16, <1>26, <2>2 DEF FilesInv, Used, Files
  <2> HIDE DEF Own
  <2>3. ASSUME NEW s \in Slot, NEW i \in DOMAIN tbl, Writes(s)', ~ Edits(s, i)'
        PROVE Own(req'[s].row.images) \cap Own(tbl[i].images) = {}
    <3>1. CASE s = r
      BY <1>9, <1>10, <2>1, <3>1
    <3>2. CASE s # r
      <4>1. req'[s] = req[s] /\ Writes(s) /\ ~ Edits(s, i)
        BY <1>10, <2>3, <3>2 DEF OthersGoOn, Writes, Edits
      <4>2. Files(req[s].row.images) \cap Files(tbl[i].images) = {}
        BY <1>1, <4>1 DEF FilesInv, Apart
      <4> QED BY <1>25, <4>1, <4>2
    <3> QED BY <3>1, <3>2
  <2>4. ASSUME NEW s \in Slot, NEW t \in Slot, s # t, Writes(s)', Writes(t)'
        PROVE \/ req'[s].op = "edit" /\ req'[s].i = req'[t].i /\ req'[t].op = "edit"
              \/ Own(req'[s].row.images) \cap Own(req'[t].row.images) = {}
    <3>1. CASE s # r /\ t # r
      <4>1. req'[s] = req[s] /\ req'[t] = req[t] /\ Writes(s) /\ Writes(t)
        BY <1>10, <2>4, <3>1 DEF OthersGoOn, Writes
      <4>2. \/ req[s].op = "edit" /\ req[s].i = req[t].i /\ req[t].op = "edit"
            \/ Files(req[s].row.images) \cap Files(req[t].row.images) = {}
        BY <1>1, <2>4, <4>1 DEF FilesInv, Apart, Edits
      <4> QED BY <1>25, <4>1, <4>2
    <3>2. CASE s = r
      BY <1>9, <1>10, <2>2, <2>4, <3>2 DEF OthersGoOn, Writes
    <3>3. CASE t = r
      BY <1>9, <1>10, <2>2, <2>4, <3>3 DEF OthersGoOn, Writes
    <3> QED BY <3>1, <3>2, <3>3
  <2>5. ASSUME NEW i \in DOMAIN tbl, NEW j \in DOMAIN tbl, i # j
        PROVE Own(tbl[i].images) \cap Own(tbl[j].images) = {}
    <3>1. Files(tbl[i].images) \cap Files(tbl[j].images) = {}
      BY <1>1, <2>5 DEF FilesInv, Apart
    <3> QED BY <1>25, <3>1
  <2> USE DEF Own
  <2> QED BY <1>13, <2>3, <2>4, <2>5 DEF Apart, Edits, Files
<1>22. Sole'
  BY <1>1, <1>9, <1>10, <1>13 DEF FilesInv, Sole, Edits, OthersGoOn
<1>23. Intact'
  <2>1. SUFFICES ASSUME NEW i \in DOMAIN tbl \ torn, \A s \in Slot : ~ Edits(s, i)',
                        NEW m \in tbl[i].images, m.file \notin lent'
                 PROVE disk'[m.file] = "there" /\ UrlOK(m)
    BY <1>13, SameDir DEF Intact, Kept, UrlOK
  <2>2. \A s \in Slot : ~ Edits(s, i)
    BY <1>1, <1>10, <2>1 DEF StartCreate, Edits, OthersGoOn, ReqOK, Idle
  <2>3. disk[m.file] = "there" /\ UrlOK(m)
    BY <1>1, <1>16, <2>1, <2>2 DEF FilesInv, Intact, Kept
  <2> QED BY <1>14, <1>15, <2>1, <2>3
<1>24. ReqIntact'
  <2>1. SUFFICES ASSUME NEW s \in Slot, Creates(s)' \/ (req'[s].op = "edit" /\ req'[s].i \notin torn),
                        NEW m \in req'[s].row.images, m.file \notin lent'
                 PROVE disk'[m.file] = "there" /\ UrlOK(m)
    BY <1>13, SameDir DEF ReqIntact, Kept, UrlOK
  <2>2. CASE s = r
    BY <1>9, <1>10, <1>26, <2>1, <2>2
  <2>3. CASE s # r
    <3>1. disk[m.file] = "there" /\ UrlOK(m)
      BY <1>1, <1>10, <1>16, <2>1, <2>3 DEF FilesInv, ReqIntact, Kept, OthersGoOn, Creates
    <3>2. m \in req[s].row.images /\ Writes(s)
      BY <1>10, <2>1, <2>3 DEF OthersGoOn, Creates, Writes
    <3> QED BY <1>14, <1>15, <3>1, <3>2
  <2> QED BY <2>2, <2>3
<1> QED BY <1>10, <1>17, <1>18, <1>19, <1>20, <1>21, <1>22, <1>23, <1>24
        DEF MarketInv, TypeInv, FilesInv

LEMMA StartEditStep ==
  ASSUME MarketInv, NEW r \in Slot, NEW i \in DOMAIN tbl, NEW f \in EditForms, StartEdit(r, i, f)
  PROVE MarketInv'
<1>1. /\ TypeInv /\ RestTyped /\ ReqOK /\ Tables /\ GroundsFound /\ FilesInv /\ FormKept
      /\ last \in Nat /\ torn \subseteq 1 .. last /\ kind \in Kind
  BY LastIsNat DEF MarketInv, TypeInv, RestTyped
<1>2. f.add \subseteq File /\ f.list \cup f.links \subseteq Image /\ DOMAIN f \subseteq Named
  BY FormsOK DEF FormOK
<1>3. tbl[i] \in Row /\ i \in 1 .. last
  BY <1>1 DEF Tables
<1>4. PICK old : old = tbl[i].images
  OBVIOUS
<1>5. PICK images : images = EditedImages(tbl[i], f)
  OBVIOUS
<1>6. /\ \A m \in images : m.file \notin f.del /\ m \in Image
      /\ \A m \in images : m \in old \/ m \in f.list \cup f.links \/ Fine(m, f)
      /\ old \subseteq Image
  BY <1>1, <1>2, <1>3, <1>4, <1>5, ImagesEdited DEF Row
<1>7. PICK row : row = [OverlayForm(Read(i), f) EXCEPT !.images = images]
  OBVIOUS
<1>8. /\ row \in Row /\ row.images = images
      /\ \A x \in DOMAIN row \ (DOMAIN f \cup Refreshed) :
           row[x] = tbl[i][x] \/ (x = "city" /\ kind \in WorkKinds)
  BY <1>1, <1>6, <1>7, EditTyped
<1>9. PICK g : g = IF tbl[i].status = "archive" THEN {} ELSE {"public"}
  OBVIOUS
<1>10. PICK rec : rec = [pc |-> IF row.status = "active" THEN "Reread" ELSE "Write",
                         op |-> "edit", i |-> i, row |-> row, seen |-> tbl[i],
                         named |-> DOMAIN f, grounds |-> g]
  OBVIOUS
<1>11. /\ rec \in Request /\ rec.pc \in PC /\ rec.op = "edit" /\ rec.row = row /\ rec.i = i
       /\ rec.seen = tbl[i] /\ rec.named = DOMAIN f
       /\ rec.pc = "Write" => rec.row.status # "active"
  <2>1. g \in SUBSET {"paid", "public"} /\ i \in Nat
    BY <1>1, <1>3, <1>9
  <2> QED BY <1>2, <1>3, <1>8, <1>10, <2>1 DEF Request, PC
<1>12. ReqOK' /\ req'[r] = rec /\ OthersGoOn(r)
  <2>1. Loaded(r, rec) /\ last' = last
    BY <1>5, <1>7, <1>9, <1>10 DEF StartEdit
  <2> QED BY <1>1, <1>3, <1>8, <1>11, <2>1, Loading
<1>13. PICK gone \in SUBSET Gone(tbl[i], f) :
         disk' = [x \in File |-> IF x \in gone THEN "removed"
                                 ELSE IF x \in f.add THEN "there" ELSE disk[x]]
  BY <1>1, DiskEdited DEF StartEdit
<1>14. /\ \A x \in f.add : disk[x] = "unused"
       /\ req[r] = Idle /\ Idle.op = "none"
  BY <1>1 DEF StartEdit, Fresh, ReqOK, Idle
<1>15. /\ kind' = kind /\ last' = last /\ tbl' = tbl
       /\ home' = home /\ review' = review /\ paid' = paid /\ cleaning' = cleaning
       /\ torn \subseteq torn' /\ torn' \subseteq torn \cup {i}
       /\ i \in torn' \/ \A s \in Slot \ {r} : ~ Edits(s, i)
  BY DEF StartEdit, Overlap, Edits
<1>16. /\ \A j \in DOMAIN tbl : \A m \in tbl[j].images : m.file \in File
       /\ \A s \in Slot : Writes(s) => \A m \in req[s].row.images : m.file \in File
  BY <1>1 DEF Tables, ReqOK, Idle, Writes, Row, Image
<1>29. /\ lent' = lent \cup Lent(old, f) /\ lent \subseteq lent' /\ lent' \subseteq File
  BY <1>1, <1>2, <1>4 DEF StartEdit, RestTyped, Lent, Image
<1>30. \A m \in f.list \cup f.links : m.file \notin lent' =>
         \E n \in old : n.file = m.file /\ n.url = m.url
  BY <1>29 DEF Lent
<1> DEFINE Own(ims) == {m.file : m \in ims} \ lent'
<1>31. \A ims : Own(ims) \subseteq Files(ims)
  BY <1>29 DEF Files
<1>17. /\ \A x \in File : disk[x] # "unused" => x \notin f.add
       /\ \A x \in File : disk[x] # "unused" => disk'[x] # "unused"
       /\ \A x \in File : disk[x] # "unused" /\ x \notin f.del => disk'[x] = disk[x]
       /\ \A x \in f.add : x \notin f.del => disk'[x] = "there"
       /\ \A x \in f.add : disk'[x] # "unused"
  BY <1>2, <1>13, <1>14 DEF Gone
<1>32. \A x \in File : disk[x] # "unused" /\ x \notin Files(old) /\ x \notin lent' => disk'[x] = disk[x]
  <2>1. SUFFICES ASSUME NEW x \in File, disk[x] # "unused", x \notin Files(old), x \notin lent'
                 PROVE x \notin gone
    BY <1>13, <1>17
  <2>2. \A m \in old : m.file # x
    BY <1>29, <2>1 DEF Files
  <2>3. \A m \in f.list \cup f.links : m.file # x
    BY <1>30, <2>1, <2>2
  <2> QED BY <1>4, <1>13, <1>17, <2>1, <2>2, <2>3 DEF Gone
<1>18. \A m \in old : m.file \in File /\ (m.file \notin lent => disk[m.file] # "unused")
  BY <1>1, <1>4, <1>16 DEF FilesInv, Used, Files
<1>19. \A m \in images : m.file \notin lent' =>
         /\ m.file \in File
         /\ \/ m.file \in f.add /\ UrlOK(m) /\ disk[m.file] = "unused"
            \/ \E n \in old : n.file = m.file /\ n.url = m.url /\ disk[m.file] # "unused"
  BY <1>2, <1>6, <1>14, <1>18, <1>29, <1>30 DEF Fine
<1>33. Own(images) \subseteq Files(old) \cup f.add
  BY <1>19, <1>29 DEF Files
<1>20. RestTyped'
  BY <1>1, <1>13, <1>15, <1>29 DEF RestTyped
<1>21. Tables'
  BY <1>1, <1>3, <1>15 DEF Tables
<1>22. FormKept'
  <2>1. SUFFICES ASSUME NEW s \in Slot, req'[s].op = "edit",
                        NEW x \in DOMAIN req'[s].row \ (req'[s].named \cup Refreshed)
                 PROVE req'[s].row[x] = req'[s].seen[x] \/ (x = "city" /\ kind \in WorkKinds)
    BY <1>15 DEF FormKept
  <2>2. CASE s = r
    BY <1>8, <1>11, <1>12, <2>1, <2>2
  <2>3. CASE s # r
    BY <1>1, <1>12, <2>1, <2>3 DEF FormKept, OthersGoOn
  <2> QED BY <2>2, <2>3
<1>23. GroundsFound'
  BY <1>1, <1>11, <1>12, <1>15, GroundsStep
<1>24. Used'
  <2>1. ASSUME NEW j \in DOMAIN tbl, NEW m \in tbl[j].images, m.file \notin lent'
        PROVE disk'[m.file] # "unused"
    BY <1>1, <1>16, <1>17, <1>29, <2>1 DEF FilesInv, Used, Files
  <2>2. ASSUME NEW s \in Slot \ {r}, Writes(s), NEW m \in req[s].row.images, m.file \notin lent'
        PROVE disk'[m.file] # "unused"
    BY <1>1, <1>16, <1>17, <1>29, <2>2 DEF FilesInv, Used, Files
  <2>3. ASSUME NEW m \in images, m.file \notin lent' PROVE disk'[m.file] # "unused"
    BY <1>17, <1>19, <2>3
  <2>4. ASSUME NEW s \in Slot, Writes(s)', NEW m \in req'[s].row.images, m.file \notin lent'
        PROVE disk'[m.file] # "unused"
    BY <1>8, <1>11, <1>12, <2>2, <2>3, <2>4 DEF Writes, OthersGoOn
  <2> QED BY <1>15, <2>1, <2>4 DEF Used, Files
<1>25. Apart'
  <2>1. ASSUME NEW j \in DOMAIN tbl, j # i PROVE Own(images) \cap Own(tbl[j].images) = {}
    <3>1. Files(old) \cap Files(tbl[j].images) = {}
      BY <1>1, <1>4, <2>1 DEF FilesInv, Apart
    <3>2. \A x \in Files(tbl[j].images) : disk[x] # "unused"
      BY <1>1 DEF FilesInv, Used
    <3> QED BY <1>14, <1>31, <1>33, <3>1, <3>2
  <2>2. ASSUME NEW s \in Slot \ {r}, Writes(s), ~ Edits(s, i)
        PROVE Own(images) \cap Own(req[s].row.images) = {}
    <3>1. Files(old) \cap Files(req[s].row.images) = {}
      BY <1>1, <1>4, <2>2 DEF FilesInv, Apart
    <3>2. \A x \in Files(req[s].row.images) : disk[x] # "unused"
      BY <1>1, <2>2 DEF FilesInv, Used
    <3> QED BY <1>14, <1>31, <1>33, <3>1, <3>2
  <2> HIDE DEF Own
  <2>3. ASSUME NEW s \in Slot, NEW j \in DOMAIN tbl, Writes(s)', ~ Edits(s, j)'
        PROVE Own(req'[s].row.images) \cap Own(tbl[j].images) = {}
    <3>1. CASE s = r
      BY <1>8, <1>11, <1>12, <2>1, <2>3, <3>1 DEF Edits
    <3>2. CASE s # r
      <4>1. req'[s] = req[s] /\ Writes(s) /\ ~ Edits(s, j)
        BY <1>12, <2>3, <3>2 DEF OthersGoOn, Writes, Edits
      <4>2. Files(req[s].row.images) \cap Files(tbl[j].images) = {}
        BY <1>1, <4>1 DEF FilesInv, Apart
      <4> QED BY <1>31, <4>1, <4>2
    <3> QED BY <3>1, <3>2
  <2>4. ASSUME NEW s \in Slot, NEW t \in Slot, s # t, Writes(s)', Writes(t)'
        PROVE \/ req'[s].op = "edit" /\ req'[s].i = req'[t].i /\ req'[t].op = "edit"
              \/ Own(req'[s].row.images) \cap Own(req'[t].row.images) = {}
    <3>1. CASE s # r /\ t # r
      <4>1. req'[s] = req[s] /\ req'[t] = req[t] /\ Writes(s) /\ Writes(t)
        BY <1>12, <2>4, <3>1 DEF OthersGoOn, Writes
      <4>2. \/ req[s].op = "edit" /\ req[s].i = req[t].i /\ req[t].op = "edit"
            \/ Files(req[s].row.images) \cap Files(req[t].row.images) = {}
        BY <1>1, <2>4, <4>1 DEF FilesInv, Apart, Edits
      <4> QED BY <1>31, <4>1, <4>2
    <3>2. CASE s = r
      BY <1>8, <1>11, <1>12, <2>2, <2>4, <3>2 DEF OthersGoOn, Writes, Edits
    <3>3. CASE t = r
      BY <1>8, <1>11, <1>12, <2>2, <2>4, <3>3 DEF OthersGoOn, Writes, Edits
    <3> QED BY <3>1, <3>2, <3>3
  <2>5. ASSUME NEW j \in DOMAIN tbl, NEW k \in DOMAIN tbl, j # k
        PROVE Own(tbl[j].images) \cap Own(tbl[k].images) = {}
    <3>1. Files(tbl[j].images) \cap Files(tbl[k].images) = {}
      BY <1>1, <2>5 DEF FilesInv, Apart
    <3> QED BY <1>31, <3>1
  <2> USE DEF Own
  <2> QED BY <1>15, <2>3, <2>4, <2>5 DEF Apart, Edits, Files
<1>26. Sole'
  <2>1. SUFFICES ASSUME NEW s \in Slot, NEW t \in Slot, NEW j \in 1 .. last, s # t,
                        Edits(s, j)', Edits(t, j)'
                 PROVE j \in torn'
    BY <1>15 DEF Sole
  <2>2. CASE s # r /\ t # r
    BY <1>1, <1>12, <1>15, <2>1, <2>2 DEF FilesInv, Sole, Edits, OthersGoOn
  <2>3. CASE s = r
    BY <1>11, <1>12, <1>15, <2>1, <2>3 DEF Edits, OthersGoOn
  <2>4. CASE t = r
    BY <1>11, <1>12, <1>15, <2>1, <2>4 DEF Edits, OthersGoOn
  <2> QED BY <2>2, <2>3, <2>4
<1>27. Intact'
  <2>1. SUFFICES ASSUME NEW j \in DOMAIN tbl \ torn', \A s \in Slot : ~ Edits(s, j)',
                        NEW m \in tbl[j].images, m.file \notin lent'
                 PROVE disk'[m.file] = "there" /\ UrlOK(m)
    BY <1>15, SameDir DEF Intact, Kept, UrlOK
  <2>2. j # i /\ j \notin torn
    BY <1>11, <1>12, <1>15, <2>1 DEF Edits
  <2>3. \A s \in Slot : ~ Edits(s, j)
    BY <1>12, <1>14, <2>1 DEF Edits, OthersGoOn
  <2>4. disk[m.file] = "there" /\ UrlOK(m)
    BY <1>1, <1>29, <2>1, <2>2, <2>3 DEF FilesInv, Intact, Kept
  <2>5. m.file \notin Files(old)
    BY <1>1, <1>4, <1>29, <2>1, <2>2 DEF FilesInv, Apart, Files
  <2> QED BY <1>16, <1>32, <2>1, <2>4, <2>5
<1>28. ReqIntact'
  <2>1. SUFFICES ASSUME NEW s \in Slot, Creates(s)' \/ (req'[s].op = "edit" /\ req'[s].i \notin torn'),
                        NEW m \in req'[s].row.images, m.file \notin lent'
                 PROVE disk'[m.file] = "there" /\ UrlOK(m)
    BY <1>15, SameDir DEF ReqIntact, Kept, UrlOK
  <2>2. CASE s = r
    <3>1. i \notin torn' /\ m \in images
      BY <1>8, <1>11, <1>12, <2>1, <2>2 DEF Creates
    <3>2. \A t \in Slot : ~ Edits(t, i)
      BY <1>14, <1>15, <3>1 DEF Edits
    <3>3. Kept(old)
      BY <1>1, <1>4, <1>15, <3>1, <3>2 DEF FilesInv, Intact
    <3>4. CASE m.file \in f.add /\ UrlOK(m)
      BY <1>6, <1>17, <3>1, <3>4
    <3>5. CASE \E n \in old : n.file = m.file /\ n.url = m.url /\ disk[m.file] # "unused"
      <4>1. PICK n \in old : n.file = m.file /\ n.url = m.url
        BY <3>5
      <4>2. disk[m.file] = "there" /\ UrlOK(m)
        BY <1>29, <2>1, <3>3, <4>1 DEF Kept, UrlOK
      <4> QED BY <1>6, <1>17, <1>18, <3>1, <4>1, <4>2
    <3> QED BY <1>19, <2>1, <3>1, <3>4, <3>5
  <2>3. CASE s # r
    <3>1. m \in req[s].row.images /\ Writes(s) /\ ~ Edits(s, i)
      BY <1>12, <1>15, <2>1, <2>3 DEF OthersGoOn, Creates, Writes, Edits
    <3>2. disk[m.file] = "there" /\ UrlOK(m)
      BY <1>1, <1>12, <1>15, <1>29, <2>1, <2>3 DEF FilesInv, ReqIntact, Kept, OthersGoOn,
           Creates
    <3>3. m.file \notin Files(old)
      BY <1>1, <1>4, <1>29, <2>1, <3>1 DEF FilesInv, Apart, Files
    <3> QED BY <1>16, <1>32, <2>1, <3>1, <3>2, <3>3
  <2> QED BY <2>2, <2>3
<1> QED BY <1>12, <1>20, <1>21, <1>22, <1>23, <1>24, <1>25, <1>26, <1>27, <1>28
        DEF MarketInv, TypeInv, FilesInv

\* The row that a request has made goes into the table, at n.
Puts(r, n) ==
  /\ Writes(r) /\ kind' = kind /\ disk' = disk /\ torn' = torn /\ lent' = lent
  /\ last' \in Nat /\ last <= last'
  /\ n \in 1 .. last' /\ (Edits(r, n) \/ (Creates(r) /\ n = last + 1))
  /\ DOMAIN tbl' = DOMAIN tbl \cup {n} /\ tbl' \in [DOMAIN tbl' -> Row]
  /\ tbl'[n] = req[r].row /\ \A j \in DOMAIN tbl \ {n} : tbl'[j] = tbl[j]
  /\ req'[r] = Idle /\ OthersGoOn(r)

LEMMA PutFiles ==
  ASSUME TypeInv, FilesInv, NEW r \in Slot, NEW n, Puts(r, n)
  PROVE FilesInv'
<1>1. /\ last \in Nat /\ DOMAIN tbl \subseteq 1 .. last /\ ReqOK
      /\ Idle.op = "none" /\ torn \subseteq 1 .. last
  BY LastIsNat DEF TypeInv, Tables, Idle
<1>2. \A s \in Slot : Edits(s, n) => n \in 1 .. last
  BY <1>1 DEF Edits, ReqOK
<1>3. Creates(r) => n \notin 1 .. last /\ n \notin DOMAIN tbl /\ \A s \in Slot : ~ Edits(s, n)
  BY <1>1, <1>2 DEF Puts, Creates, Edits
<1>4. /\ \A s \in Slot \ {r} : req'[s] = req[s]
      /\ \A s \in Slot : Writes(s)' => s # r
      /\ DOMAIN tbl' = DOMAIN tbl \cup {n}
      /\ tbl'[n] = req[r].row /\ \A j \in DOMAIN tbl \ {n} : tbl'[j] = tbl[j]
  BY <1>1 DEF Puts, OthersGoOn, Writes
<1>5. Used'
  BY <1>4 DEF FilesInv, Used, Files, Writes, Puts
<1>6. Apart'
  <2>1. ASSUME NEW j \in DOMAIN tbl, j # n
        PROVE Files(req[r].row.images) \cap Files(tbl[j].images) = {}
    BY <2>1 DEF FilesInv, Apart, Puts, Edits, Creates
  <2>2. ASSUME NEW s \in Slot \ {r}, Writes(s), ~ Edits(s, n)
        PROVE Files(req[r].row.images) \cap Files(req[s].row.images) = {}
    <3>1. ~ (Edits(r, req[s].i) /\ req[s].op = "edit")
      BY <2>2 DEF Puts, Edits, Creates
    <3> QED BY <2>2, <3>1 DEF FilesInv, Apart, Puts
  <2>3. ASSUME NEW j \in DOMAIN tbl', NEW k \in DOMAIN tbl', j # k
        PROVE Files(tbl'[j].images) \cap Files(tbl'[k].images) = {}
    BY <1>4, <2>1, <2>3 DEF FilesInv, Apart
  <2>4. ASSUME NEW s \in Slot, NEW j \in DOMAIN tbl', Writes(s)', ~ Edits(s, j)'
        PROVE Files(req'[s].row.images) \cap Files(tbl'[j].images) = {}
    <3>1. s # r /\ Writes(s) /\ ~ Edits(s, j) /\ req'[s] = req[s]
      BY <1>4, <2>4 DEF Writes, Edits
    <3>2. CASE j = n
      BY <1>4, <2>2, <3>1, <3>2
    <3>3. CASE j # n
      BY <1>4, <3>1, <3>3 DEF FilesInv, Apart
    <3> QED BY <3>2, <3>3
  <2>5. ASSUME NEW s \in Slot, NEW t \in Slot, s # t, Writes(s)', Writes(t)'
        PROVE \/ req'[s].op = "edit" /\ req'[s].i = req'[t].i /\ req'[t].op = "edit"
              \/ Files(req'[s].row.images) \cap Files(req'[t].row.images) = {}
    BY <1>4, <2>5 DEF FilesInv, Apart, Writes, Edits
  <2>6. lent' = lent
    BY DEF Puts
  <2> QED BY <2>3, <2>4, <2>5, <2>6 DEF Apart, Edits, Files
<1>7. Sole'
  <2>1. SUFFICES ASSUME NEW s \in Slot, NEW t \in Slot, NEW j, s # t, Edits(s, j)', Edits(t, j)'
                 PROVE j \in torn
    BY DEF Sole, Puts
  <2>2. s # r /\ t # r
    BY <1>1, <2>1 DEF Edits, Puts
  <2>3. Edits(s, j) /\ Edits(t, j)
    BY <1>4, <2>1, <2>2 DEF Edits
  <2> QED BY <1>1, <2>1, <2>3 DEF FilesInv, Sole, ReqOK, Edits
<1>8. Intact'
  <2>1. SUFFICES ASSUME NEW j \in DOMAIN tbl' \ torn, \A s \in Slot : ~ Edits(s, j)',
                        NEW m \in tbl'[j].images, m.file \notin lent
                 PROVE disk[m.file] = "there" /\ UrlOK(m)
    BY SameDir DEF Intact, Kept, UrlOK, Puts
  <2>2. CASE j = n
    <3>1. Creates(r) \/ (req[r].op = "edit" /\ req[r].i \notin torn)
      BY <2>1, <2>2 DEF Puts, Edits
    <3> QED BY <1>4, <2>1, <2>2, <3>1 DEF FilesInv, ReqIntact, Kept
  <2>3. CASE j # n
    <3>1. \A s \in Slot : ~ Edits(s, j)
      BY <1>4, <2>1, <2>3 DEF Edits, Puts, Creates
    <3> QED BY <1>4, <2>1, <2>3, <3>1 DEF FilesInv, Intact, Kept
  <2> QED BY <2>2, <2>3
<1>9. ReqIntact'
  <2>1. SUFFICES ASSUME NEW s \in Slot, Creates(s)' \/ (req'[s].op = "edit" /\ req'[s].i \notin torn),
                        NEW m \in req'[s].row.images, m.file \notin lent
                 PROVE disk[m.file] = "there" /\ UrlOK(m)
    BY SameDir DEF ReqIntact, Kept, UrlOK, Puts
  <2>2. s # r
    BY <1>1, <2>1 DEF Creates, Puts
  <2> QED BY <1>4, <2>1, <2>2 DEF FilesInv, ReqIntact, Kept, Creates
<1> QED BY <1>5, <1>6, <1>7, <1>8, <1>9 DEF FilesInv

LEMMA WriteStep == ASSUME MarketInv, NEW r \in Slot, Write(r) PROVE MarketInv'
<1>1. /\ TypeInv /\ RestTyped /\ ReqOK /\ Tables /\ GroundsFound /\ FilesInv /\ FormKept
      /\ last \in Nat /\ torn \subseteq 1 .. last /\ kind \in Kind /\ MaxId \in Nat
  BY LastIsNat, MarketAssumption DEF MarketInv, TypeInv, RestTyped
<1>2. PICK q : q = req[r]
  OBVIOUS
<1>3. /\ q.row \in Row /\ (q.op = "edit" => q.i \in 1 .. last)
      /\ tbl \in [DOMAIN tbl -> Row] /\ DOMAIN tbl \subseteq 1 .. last
      /\ Idle.op = "none" /\ Idle.pc = "idle"
  BY <1>1, <1>2 DEF Write, ReqOK, Tables, Idle
<1>4. /\ End(r) /\ kind' = kind /\ disk' = disk /\ torn' = torn /\ lent' = lent
      /\ home' = home /\ review' = review /\ paid' = paid /\ cleaning' = cleaning
  BY DEF Write
<1>5. RestTyped'
  BY <1>1, <1>4 DEF RestTyped
<1>6. ASSUME last' \in Nat, last <= last'
      PROVE /\ ReqOK' /\ req'[r] = Idle /\ OthersGoOn(r) /\ GroundsFound' /\ FormKept'
  <2>1. ReqOK' /\ req'[r] = Idle /\ OthersGoOn(r)
    BY <1>1, <1>4, <1>6, Ending
  <2>2. GroundsFound'
    BY <1>1, <1>3, <1>4, <2>1, GroundsStep
  <2>3. FormKept'
    BY <1>1, <1>3, <1>4, <2>1 DEF FormKept, OthersGoOn
  <2> QED BY <2>1, <2>2, <2>3
<1>7. CASE /\ q.op = "create" /\ last < MaxId /\ last' = last + 1
           /\ \E row \in Inserted(q.row) :
                tbl' = [i \in DOMAIN tbl \cup {last + 1} |->
                          IF i \in DOMAIN tbl THEN tbl[i] ELSE row]
  <2>1. tbl' = [i \in DOMAIN tbl \cup {last + 1} |-> IF i \in DOMAIN tbl THEN tbl[i] ELSE q.row]
    BY <1>1, <1>7, InsertedRow
  <2>2. last + 1 \notin DOMAIN tbl /\ last' \in Nat /\ last <= last' /\ last + 1 \in 1 .. last'
    BY <1>1, <1>3, <1>7
  <2>3. /\ DOMAIN tbl' = DOMAIN tbl \cup {last + 1} /\ tbl'[last + 1] = q.row
        /\ \A j \in DOMAIN tbl : tbl'[j] = tbl[j]
        /\ tbl' \in [DOMAIN tbl' -> Row]
    BY <1>3, <2>1, <2>2
  <2>4. Puts(r, last + 1)
    BY <1>2, <1>4, <1>6, <1>7, <2>2, <2>3 DEF Puts, Writes, Creates
  <2>5. FilesInv'
    BY <1>1, <2>4, PutFiles
  <2>6. Tables'
    BY <1>1, <1>3, <1>4, <1>7, <2>2, <2>3 DEF Tables
  <2> QED BY <1>5, <1>6, <2>2, <2>5, <2>6 DEF MarketInv, TypeInv
<1>8. CASE q.op = "edit" /\ q.i \in DOMAIN tbl /\ tbl' = Updated(q.i, q.row) /\ last' = last
  <2>1. tbl' = [tbl EXCEPT ![q.i] = q.row]
    BY <1>1, <1>8, RowsWritten
  <2>2. /\ DOMAIN tbl' = DOMAIN tbl \cup {q.i} /\ tbl'[q.i] = q.row
        /\ \A j \in DOMAIN tbl \ {q.i} : tbl'[j] = tbl[j]
        /\ tbl' \in [DOMAIN tbl' -> Row]
    BY <1>3, <1>8, <2>1
  <2>3. last' \in Nat /\ last <= last'
    BY <1>1, <1>8
  <2>4. Puts(r, q.i)
    BY <1>2, <1>3, <1>4, <1>6, <1>8, <2>2, <2>3 DEF Puts, Writes, Edits
  <2>5. FilesInv'
    BY <1>1, <2>4, PutFiles
  <2>6. Tables'
    BY <1>1, <1>3, <1>4, <1>8, <2>2 DEF Tables
  <2> QED BY <1>5, <1>6, <2>3, <2>5, <2>6 DEF MarketInv, TypeInv
<1>9. CASE q.op = "restore" /\ q.i \in DOMAIN tbl /\ tbl' = WithStatus(q.i, "active") /\ last' = last
  <2>1. Restyled
    BY <1>1, <1>9, StatusWritten DEF ListStatus
  <2>2. last' \in Nat /\ last <= last'
    BY <1>1, <1>9
  <2>3. Calm
    BY <1>1, <1>2, <1>4, <1>6, <1>9, <2>1, <2>2, CalmRequest
  <2> QED BY <1>5, <1>6, <2>2, <2>3, CalmStep
<1> QED BY <1>2, <1>7, <1>8, <1>9 DEF Write
-----------------------------------------------------------------------------
LEMMA MarketStarts == ASSUME MarketInit PROVE MarketInv
<1>1. MaxId \in Nat /\ DOMAIN tbl = {} /\ last = 0 /\ torn = {} /\ \A r \in Slot : req[r] = Idle
  BY MarketAssumption DEF MarketInit
<1>2. RestTyped
  BY DEF MarketInit, RestTyped
<1>3. Tables
  <2>1. tbl \in [DOMAIN tbl -> Row]
    BY DEF MarketInit
  <2> QED BY <1>1, <2>1 DEF Tables
<1>4. Idle \in Request /\ Idle.pc = "idle" /\ Idle.op = "none"
  BY DEF Idle, Request
<1>5. ReqOK
  BY <1>1, <1>4 DEF MarketInit, ReqOK
<1>6. FilesInv
  BY <1>1, <1>4 DEF FilesInv, Used, Apart, Sole, Intact, ReqIntact, Writes, Creates,
       Edits
<1>7. FormKept /\ GroundsFound
  BY <1>1, <1>4 DEF FormKept, GroundsFound
<1> QED BY <1>2, <1>3, <1>5, <1>6, <1>7 DEF MarketInv, TypeInv

LEMMA MarketRests == ASSUME MarketInv, UNCHANGED marketVars PROVE MarketInv'
<1>1. TypeInv /\ RestTyped
  BY DEF MarketInv, TypeInv
<1>2. Restyled
  BY <1>1, SameTable DEF marketVars
<1>3. RestTyped'
  BY <1>1 DEF RestTyped, marketVars
<1> QED BY <1>2, <1>3, RowsStep DEF marketVars

LEMMA MarketSteps == ASSUME MarketInv, [MarketNext]_marketVars PROVE MarketInv'
<1>1. ASSUME NEW r \in Slot, Requests(r) PROVE MarketInv'
  BY <1>1, StartCreateStep, StartRestoreStep, StartEditStep, RereadStep, CheckPaidStep,
     LapseStep, WriteStep, DropStep DEF Requests
<1>2. CASE \E i \in DOMAIN tbl :
             \/ Archive(i) \/ Delete(i) \/ OrderMoves(i) \/ Rate(i)
             \/ ActivateTop(i) \/ TopExpires(i) \/ ClearExpiredTop(i) \/ DeactivateTop(i)
  BY <1>2, ForeignSteps
<1>3. CASE \/ \E u \in User :
                \/ MoveHome(u) \/ Expires(u) \/ ExtendSubscription(u) \/ CleanerArchives(u)
           \/ CleanerReads \/ CleanerStops
  BY <1>3, SubscriptionSteps
<1>4. CASE UNCHANGED marketVars
  BY <1>4, MarketRests
<1> QED BY <1>1, <1>2, <1>3, <1>4 DEF MarketNext

\* What holds of every listing and every request in flight, for any number of
\* users, uploads, slots and listings of any of the six kinds.
THEOREM MarketInvariance == MarketSpec => []MarketInv
<1>1. MarketInit => MarketInv
  BY MarketStarts
<1>2. MarketInv /\ [MarketNext]_marketVars => MarketInv'
  BY MarketSteps
<1> QED BY <1>1, <1>2, PTL DEF MarketSpec

\* Rows, requests and files keep their types: an edit, whatever its form names,
\* writes back a whole row.
THEOREM MarketTypeCorrect == MarketSpec => []MarketTypeOK
<1>1. MarketInv => MarketTypeOK
  BY TypesAreOK DEF MarketInv
<1> QED BY <1>1, MarketInvariance, PTL

\* The files that a listing names are on disk and their addresses answered, but
\* for a listing that is being edited or was torn, and for files that some form
\* named from outside.
THEOREM ListingsKeepFiles == MarketSpec => []FilesOfListingsExist
<1>1. ASSUME MarketInv PROVE FilesOfListingsExist
  BY <1>1 DEF MarketInv, FilesInv, Intact, FilesOfListingsExist, Edits, Kept, UrlOK,
       ImageServed
<1> QED BY <1>1, MarketInvariance, PTL

\* An edit writes back what it read in every field that its form leaves out.
THEOREM EditsKeepTheRest == MarketSpec => EditKeepsUnnamed
<1> DEFINE Keeps ==
      \A r \in Slot :
       LET q == req[r]
           kept == DOMAIN q.row \ (q.named \cup Refreshed)
       IN q.op = "edit" /\ Finished(r, q.i) /\ tbl' # tbl =>
            \A x \in kept :
              tbl'[q.i][x] = q.seen[x] \/ (x = "city" /\ kind \in WorkKinds)
<1>1. ASSUME MarketInv, MarketNext PROVE Keeps
  <2>1. SUFFICES ASSUME NEW r \in Slot, req[r].op = "edit", Finished(r, req[r].i), tbl' # tbl,
                        NEW x \in DOMAIN req[r].row \ (req[r].named \cup Refreshed)
                 PROVE \/ tbl'[req[r].i][x] = req[r].seen[x]
                       \/ x = "city" /\ kind \in WorkKinds
    OBVIOUS
  <2>2. /\ Idle.op = "none" /\ req'[r] = Idle /\ req[r] # Idle /\ req[r].pc = "Write"
        /\ req \in [Slot -> Request] /\ kind \in Kind
    BY <1>1, <2>1 DEF MarketInv, TypeInv, ReqOK, RestTyped, Finished, Idle
  <2>3. Write(r)
    <3>1. ASSUME NEW s \in Slot, Requests(s) PROVE s = r
      BY <2>2, <3>1 DEF Requests, StartCreate, StartRestore, StartEdit, Reread,
           CheckPaid,
         Lapse, Write, Drop, Loaded, Goto, End
    <3>2. \E s \in Slot : Requests(s)
      BY <1>1, <2>2 DEF MarketNext, Archive, Delete, OrderMoves, Rate, ActivateTop,
           TopExpires,
         ClearExpiredTop, DeactivateTop, SetTop, MoveHome, Expires, ExtendSubscription,
         CleanerArchives, CleanerReads, CleanerStops
    <3>3. Requests(r)
      BY <3>1, <3>2
    <3> QED BY <2>1, <2>2, <3>3 DEF Requests, StartCreate, StartRestore, StartEdit,
        Reread,
         CheckPaid, Lapse, Drop, Idle
  <2>4. req[r].i \in DOMAIN tbl /\ tbl' = [tbl EXCEPT ![req[r].i] = req[r].row]
    BY <2>1, <2>2, <2>3, RowsWritten DEF Write
  <2>5. tbl'[req[r].i] = req[r].row
    BY <2>4
  <2> QED BY <1>1, <2>1, <2>5 DEF MarketInv, FormKept
<1>2. MarketInv /\ [MarketNext]_marketVars => [Keeps]_marketVars
  BY <1>1
<1> QED BY <1>2, MarketInvariance, PTL DEF MarketSpec, EditKeepsUnnamed

\* One of the ways in which a performer's listing comes out of the archive.
Permitted(i) ==
  \/ \E r \in Slot : Finished(r, i) /\ req[r].grounds # {}
  \/ \E r \in Slot :
       Finished(r, i) /\ req[r].op = "edit" /\ req[r].row.status # "active"
  \/ req' = req /\ tbl'[i].status = "active"

StatusKept == \A i \in DOMAIN tbl \cap DOMAIN tbl' : tbl'[i].status \in {"archive", tbl[i].status}

LEMMA NoneReturns == ASSUME StatusKept PROVE Returned = {}
BY DEF StatusKept, Returned, Archived

LEMMA WriteReturns ==
  ASSUME MarketInv, NEW r \in Slot, Write(r), NEW i \in Returned PROVE Permitted(i)
<1>1. /\ TypeInv /\ GroundsFound /\ kind \in Kind /\ kind \in Executors
      /\ i \in DOMAIN tbl \cap DOMAIN tbl' /\ tbl[i].status = "archive" /\ tbl'[i].status # "archive"
      /\ req \in [Slot -> Request]
  BY DEF MarketInv, TypeInv, RestTyped, ReqOK, Returned, Archived
<1>2. req[r].pc = "Write" /\ req'[r] = Idle
  BY <1>1 DEF Write, End
<1>3. CASE /\ req[r].op = "create"
           /\ \E row \in Inserted(req[r].row) :
                tbl' = [j \in DOMAIN tbl \cup {last + 1} |->
                          IF j \in DOMAIN tbl THEN tbl[j] ELSE row]
  <2>1. tbl'[i] = tbl[i]
    BY <1>1, <1>3
  <2> QED BY <1>1, <2>1
<1>4. CASE req[r].op = "edit" /\ req[r].i \in DOMAIN tbl /\ tbl' = Updated(req[r].i, req[r].row)
  <2>1. tbl' = [tbl EXCEPT ![req[r].i] = req[r].row]
    BY <1>1, <1>4, RowsWritten
  <2>2. i = req[r].i
    BY <1>1, <2>1
  <2> QED BY <1>1, <1>2, <1>4, <2>2 DEF Permitted, Finished, GroundsFound
<1>5. CASE req[r].op = "restore" /\ req[r].i \in DOMAIN tbl /\ tbl' = WithStatus(req[r].i, "active")
  <2>1. i = req[r].i
    BY <1>1, <1>5, StatusWritten DEF ListStatus
  <2> QED BY <1>1, <1>2, <1>5, <2>1 DEF Permitted, Finished, GroundsFound
<1> QED BY <1>3, <1>4, <1>5 DEF Write

LEMMA RequestReturns ==
  ASSUME MarketInv, NEW r \in Slot, Requests(r), NEW i \in Returned PROVE Permitted(i)
<1>1. CASE Write(r)
  BY <1>1, WriteReturns
<1>2. CASE Lapse(r)
  <2>1. StatusKept
    BY <1>2, ArchivedBySubscription DEF Lapse, StatusKept, MarketInv, Restyled
  <2> QED BY <2>1, NoneReturns
<1>3. CASE ~ Write(r) /\ ~ Lapse(r)
  <2>1. tbl' = tbl
    BY <1>3 DEF Requests, StartCreate, StartRestore, StartEdit, Reread, CheckPaid, Drop
  <2> QED BY <2>1 DEF Returned, Archived
<1> QED BY <1>1, <1>2, <1>3

LEMMA ForeignReturns ==
  ASSUME MarketInv, NEW j \in DOMAIN tbl,
         \/ Archive(j) \/ Delete(j) \/ OrderMoves(j) \/ Rate(j)
         \/ ActivateTop(j) \/ TopExpires(j) \/ ClearExpiredTop(j) \/ DeactivateTop(j),
         NEW i \in Returned
  PROVE Permitted(i)
<1>1. TypeInv /\ kind \in Executors /\ i \in DOMAIN tbl \cap DOMAIN tbl'
  BY DEF MarketInv, Returned
<1>2. CASE Archive(j)
  <2>1. StatusKept
    BY <1>1, <1>2, StatusWritten DEF Archive, ListStatus, StatusKept
  <2> QED BY <2>1, NoneReturns
<1>3. CASE Delete(j)
  <2>1. StatusKept
    BY <1>1, <1>3, RowDeleted DEF Delete, StatusKept
  <2> QED BY <2>1, NoneReturns
<1>4. CASE OrderMoves(j)
  <2>1. tbl' = WithStatus(j, "active") /\ req' = req
    BY <1>1, <1>4 DEF OrderMoves
  <2>2. i = j
    BY <1>1, <2>1, StatusWritten DEF ListStatus, Returned, Archived
  <2>3. tbl'[i].status = "active"
    BY <1>1, <2>1, <2>2, StatusWritten DEF ListStatus
  <2> QED BY <2>1, <2>3 DEF Permitted
<1>5. CASE Rate(j)
  BY <1>5 DEF Rate, Returned, Archived
<1>6. CASE ActivateTop(j) \/ TopExpires(j) \/ ClearExpiredTop(j) \/ DeactivateTop(j)
  <2>1. PICK t \in {"none", "active", "expired"} : SetTop(j, t)
    BY <1>6 DEF ActivateTop, TopExpires, ClearExpiredTop, DeactivateTop
  <2>2. StatusKept
    BY <1>1, <2>1, TopWritten DEF SetTop, StatusKept
  <2> QED BY <2>2, NoneReturns
<1> QED BY <1>2, <1>3, <1>4, <1>5, <1>6

LEMMA SubscriptionReturns ==
  ASSUME MarketInv,
         \/ \E u \in User :
              \/ MoveHome(u) \/ Expires(u) \/ ExtendSubscription(u) \/ CleanerArchives(u)
         \/ CleanerReads \/ CleanerStops
  PROVE Returned = {}
<1>1. ASSUME NEW u \in User, CleanerArchives(u) PROVE Returned = {}
  <2>1. StatusKept
    BY <1>1, ArchivedBySubscription DEF CleanerArchives, StatusKept, MarketInv, Restyled
  <2> QED BY <2>1, NoneReturns
<1>2. CASE tbl' = tbl
  BY <1>2 DEF Returned, Archived
<1> QED BY <1>1, <1>2 DEF MoveHome, Expires, ExtendSubscription, CleanerReads,
    CleanerStops

\* A performer's listing leaves the archive only by a request that found a
\* subscription or the listing public, by an edit that names a status other
\* than active, or by an order that is called off.
THEOREM ReturnsArePaid == MarketSpec => OnlyPaidReturns
<1>1. ASSUME MarketInv, MarketNext, NEW i \in Returned PROVE Permitted(i)
  <2>1. CASE \E r \in Slot : Requests(r)
    BY <1>1, <2>1, RequestReturns
  <2>2. CASE \E j \in DOMAIN tbl :
               \/ Archive(j) \/ Delete(j) \/ OrderMoves(j) \/ Rate(j)
               \/ ActivateTop(j) \/ TopExpires(j) \/ ClearExpiredTop(j) \/ DeactivateTop(j)
    BY <1>1, <2>2, ForeignReturns
  <2>3. CASE \/ \E u \in User :
                  \/ MoveHome(u) \/ Expires(u) \/ ExtendSubscription(u) \/ CleanerArchives(u)
             \/ CleanerReads \/ CleanerStops
    BY <1>1, <2>3, SubscriptionReturns
  <2> QED BY <1>1, <2>1, <2>2, <2>3 DEF MarketNext
<1>2. MarketInv /\ [MarketNext]_marketVars => [\A i \in Returned : Permitted(i)]_marketVars
  BY <1>1
<1>3. [\A i \in Returned : Permitted(i)]_marketVars =>
        [\A i \in Returned :
           \/ \E r \in Slot : Finished(r, i) /\ req[r].grounds # {}
           \/ \E r \in Slot :
                Finished(r, i) /\ req[r].op = "edit" /\ req[r].row.status # "active"
           \/ req' = req /\ tbl'[i].status = "active"]_marketVars
  BY DEF Permitted
<1> QED BY <1>2, <1>3, MarketInvariance, PTL DEF MarketSpec, OnlyPaidReturns
=============================================================================
