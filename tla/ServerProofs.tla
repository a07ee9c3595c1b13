---------------------------- MODULE ServerProofs ----------------------------
(***************************************************************************)
(* Proofs about ListPaging and IaCServer, for pages of any size, any       *)
(* number of callers, requests, configs, zones and records, and any number *)
(* of calls, failures and edits in the dashboard.                          *)
(***************************************************************************)
EXTENDS ServerSafety, SequenceTheorems, TLAPS

-----------------------------------------------------------------------------
(* Pages *)

\* A new record moves those behind it on by one place.
LEMMA Inserted ==
    ASSUME NEW s \in Seq(Records), NEW r \in Records, NEW i \in 1..(Len(s) + 1)
    PROVE  LET t == InsertAt(s, i, r)
           IN  /\ t \in Seq(Records)
               /\ Len(t) = Len(s) + 1
               /\ \A j \in 1..Len(t) :
                     t[j] = IF j < i THEN s[j] ELSE IF j = i THEN r ELSE s[j - 1]
<1> DEFINE front == SubSeq(s, 1, i - 1)
           back == SubSeq(s, i, Len(s))
<1>1. Len(s) \in Nat /\ i \in Nat \ {0} /\ \A j \in 1..Len(s) : s[j] \in Records
  BY LenProperties, ElementOfSeq
<1>2. /\ front \in Seq(Records)
      /\ Len(front) = i - 1
      /\ \A j \in 1..(i - 1) : front[j] = s[j]
  <2>1. \A j \in 1..(i - 1) : s[j] \in Records
    BY <1>1
  <2> QED BY <1>1, <2>1, SubSeqProperties, Z3
<1>3. /\ back \in Seq(Records)
      /\ Len(back) = Len(s) - i + 1
      /\ \A j \in 1..(Len(s) - i + 1) : back[j] = s[i + j - 1]
  <2>1. \A j \in i..Len(s) : s[j] \in Records
    BY <1>1
  <2> QED BY <1>1, <2>1, SubSeqProperties, Z3
<1>4. /\ <<r>> \in Seq(Records) /\ Len(<<r>>) = 1 /\ <<r>>[1] = r
  OBVIOUS
<1> HIDE DEF front, back
<1> DEFINE most == front \o <<r>>
<1>5. /\ most \in Seq(Records)
      /\ Len(most) = i
      /\ \A j \in 1..i : most[j] = IF j < i THEN s[j] ELSE r
  BY <1>1, <1>2, <1>4, ConcatProperties, Z3
<1> HIDE DEF most
<1>6. /\ most \o back \in Seq(Records)
      /\ Len(most \o back) = Len(s) + 1
      /\ \A j \in 1..(Len(s) + 1) : (most \o back)[j] =
            IF j < i THEN s[j] ELSE IF j = i THEN r ELSE s[j - 1]
  BY <1>1, <1>3, <1>5, ConcatProperties, Z3
<1> QED BY <1>6 DEF InsertAt, front, back, most

\* A record that is gone lets those behind it move back by one place.
LEMMA Removed ==
    ASSUME NEW s \in Seq(Records), NEW i \in 1..Len(s)
    PROVE  LET t == RemoveAt(s, i)
           IN  /\ t \in Seq(Records)
               /\ Len(t) = Len(s) - 1
               /\ \A j \in 1..Len(t) : t[j] = IF j < i THEN s[j] ELSE s[j + 1]
<1> DEFINE front == SubSeq(s, 1, i - 1)
           back == SubSeq(s, i + 1, Len(s))
<1>1. Len(s) \in Nat /\ i \in Nat \ {0} /\ \A j \in 1..Len(s) : s[j] \in Records
  BY LenProperties, ElementOfSeq
<1>2. /\ front \in Seq(Records)
      /\ Len(front) = i - 1
      /\ \A j \in 1..(i - 1) : front[j] = s[j]
  <2>1. \A j \in 1..(i - 1) : s[j] \in Records
    BY <1>1
  <2> QED BY <1>1, <2>1, SubSeqProperties, Z3
<1>3. /\ back \in Seq(Records)
      /\ Len(back) = Len(s) - i
      /\ \A j \in 1..(Len(s) - i) : back[j] = s[i + j]
  <2>1. \A j \in (i + 1)..Len(s) : s[j] \in Records
    BY <1>1
  <2> QED BY <1>1, <2>1, SubSeqProperties, Z3
<1> HIDE DEF front, back
<1>4. /\ front \o back \in Seq(Records)
      /\ Len(front \o back) = Len(s) - 1
      /\ \A j \in 1..(Len(s) - 1) : (front \o back)[j] = IF j < i THEN s[j] ELSE s[j + 1]
  <2>1. /\ front \o back \in Seq(Records)
        /\ Len(front \o back) = Len(s) - 1
        /\ \A j \in 1..(Len(s) - 1) : (front \o back)[j] =
              IF j <= i - 1 THEN front[j] ELSE back[j - (i - 1)]
    <3>1. /\ front \o back \in Seq(Records)
          /\ Len(front \o back) = Len(front) + Len(back)
          /\ \A j \in 1..(Len(front) + Len(back)) : (front \o back)[j] =
                IF j <= Len(front) THEN front[j] ELSE back[j - Len(front)]
      BY <1>2, <1>3, ConcatProperties
    <3>2. Len(front) + Len(back) = Len(s) - 1
      BY <1>1, <1>2, <1>3
    <3> QED BY <1>2, <3>1, <3>2
  <2>2. ASSUME NEW j \in 1..(Len(s) - 1), j > i - 1
        PROVE  back[j - (i - 1)] = s[j + 1]
    <3>1. j - (i - 1) \in 1..(Len(s) - i) /\ i + (j - (i - 1)) = j + 1
      BY <1>1, <2>2
    <3> QED BY <1>3, <3>1
  <2> QED BY <1>1, <1>2, <2>1, <2>2
<1> QED BY <1>4 DEF RemoveAt, front, back

-----------------------------------------------------------------------------
(* The inductive invariant *)

\* The records behind the first n.
Behind(s, n) == {s[i] : i \in {j \in DOMAIN s : j > n}}

\* While pages are fetched, a record that has been there all the time is listed or
\* still to come, unless one was deleted; and, unless one was created, no record
\* that is listed is still to come.  (The properties speak of listings that are
\* done, which says nothing about those that are not.)
ListingOK(c) ==
    /\ scan[c].status = "on" =>
          LET ahead == Behind(order[scan[c].zone], scan[c].offset)
          IN  /\ ~scan[c].shrunk => scan[c].stayed \subseteq scan[c].listed \cup ahead
              /\ ~scan[c].grown => scan[c].listed \cap ahead = {}
    /\ scan[c].status = "done" /\ ~scan[c].shrunk => scan[c].stayed \subseteq scan[c].listed
    /\ ~scan[c].grown => scan[c].twice = {}

PagingInv == PagingTypeOK /\ \A c \in Callers : ListingOK(c)

LEMMA PagingInitially == PagingInit => PagingInv
<1> SUFFICES ASSUME PagingInit PROVE PagingInv
  OBVIOUS
<1>1. NoListing \in Scan
  BY PageAssumption DEF NoListing, Scan
<1>2. PagingTypeOK
  BY <1>1 DEF PagingInit, PagingTypeOK
<1>3. \A c \in Callers : ListingOK(c)
  BY DEF PagingInit, ListingOK, NoListing
<1> QED BY <1>2, <1>3 DEF PagingInv

\* A listing starts with every record still to come.
LEMMA BeginListingKeeps ==
    ASSUME PagingInv, NEW c \in Callers, NEW z \in ZoneIds, BeginListing(c, z)
    PROVE  PagingInv'
<1> USE DEF BeginListing
<1>1. Range(order[z]) \subseteq Records
  BY ElementOfSeq, LenProperties DEF PagingInv, PagingTypeOK, Range
<1>2. Listing(z) \in Scan
  BY <1>1 DEF Listing, Scan
<1>3. PagingTypeOK'
  BY <1>2 DEF PagingInv, PagingTypeOK
<1>4. ASSUME NEW d \in Callers PROVE ListingOK(d)'
  <2>1. CASE d = c
    <3>1. scan'[d] = Listing(z) /\ order' = order
      BY <2>1 DEF PagingInv, PagingTypeOK
    <3>2. Behind(order[z], 0) = Range(order[z])
      <4>1. \A j \in DOMAIN order[z] : j > 0
        BY LenProperties DEF PagingInv, PagingTypeOK
      <4> QED BY <4>1 DEF Behind, Range
    <3> QED BY <3>1, <3>2 DEF ListingOK, Listing, Behind
  <2>2. CASE d # c
    BY <2>2 DEF PagingInv, PagingTypeOK, ListingOK, Behind
  <2> QED BY <2>1, <2>2
<1> QED BY <1>3, <1>4 DEF PagingInv

LEMMA EndListingKeeps ==
    ASSUME PagingInv, NEW c \in Callers, EndListing(c)
    PROVE  PagingInv'
<1>1. NoListing \in Scan
  BY PageAssumption DEF NoListing, Scan
<1>2. PagingTypeOK'
  BY <1>1 DEF PagingInv, PagingTypeOK, EndListing
<1>3. ASSUME NEW d \in Callers PROVE ListingOK(d)'
  BY DEF PagingInv, PagingTypeOK, EndListing, ListingOK, Behind, NoListing
<1> QED BY <1>2, <1>3 DEF PagingInv

\* A page moves its records from those to come to those that are listed.
LEMMA FetchPageKeeps ==
    ASSUME PagingInv, NEW c \in Callers, NEW counted \in BOOLEAN, FetchPage(c, counted)
    PROVE  PagingInv'
<1> DEFINE s == scan[c]
           all == order[s.zone]
           next == s.offset + PageSize
<1>1. /\ s \in Scan /\ s.status = "on" /\ PageSize \in Nat \ {0}
      /\ s.zone \in ZoneIds /\ s.offset \in Nat /\ next \in Nat
      /\ all \in Seq(Records) /\ IsInjective(all)
  BY PageAssumption DEF PagingInv, PagingTypeOK, FetchPage, Scan
<1>2. DOMAIN all = 1..Len(all) /\ Len(all) \in Nat
      /\ \A j \in DOMAIN all : all[j] \in Records
  BY <1>1, LenProperties, ElementOfSeq
<1>3. Page(c) = {all[i] : i \in {j \in DOMAIN all : s.offset < j /\ j <= next}}
  BY DEF Page
<1>4. Behind(all, s.offset) = Page(c) \cup Behind(all, next)
  BY <1>1, <1>2, <1>3 DEF Behind
<1>5. Page(c) \cap Behind(all, next) = {}
  BY <1>1, <1>2, <1>3 DEF Behind, IsInjective
<1>6. LastPage(c, counted) => Behind(all, next) = {}
  <2>1. CASE counted
    BY <1>1, <1>2, <2>1 DEF LastPage, Behind
  <2>2. CASE ~counted
    <3>1. SUFFICES ASSUME Page(c) = {}, NEW j \in DOMAIN all, j > next
                   PROVE  FALSE
      BY <2>2 DEF LastPage, Behind
    <3>2. next \in DOMAIN all /\ s.offset < next /\ next <= next
      BY <1>1, <1>2, <3>1
    <3> QED BY <1>3, <3>1, <3>2
  <2> QED BY <2>1, <2>2
<1>7. Page(c) \subseteq Records
  BY <1>2, <1>3
<1> DEFINE read == [s EXCEPT
          !.status = IF LastPage(c, counted) THEN "done" ELSE "on",
          !.offset = @ + PageSize,
          !.listed = @ \cup Page(c),
          !.twice  = @ \cup (s.listed \cap Page(c))]
<1>8. order' = order /\ scan' = [scan EXCEPT ![c] = read]
  BY DEF FetchPage
<1>9. /\ read \in Scan
      /\ read.zone = s.zone /\ read.offset = next
      /\ read.status = IF LastPage(c, counted) THEN "done" ELSE "on"
      /\ read.listed = s.listed \cup Page(c)
      /\ read.twice = s.twice \cup (s.listed \cap Page(c))
      /\ read.stayed = s.stayed /\ read.shrunk = s.shrunk /\ read.grown = s.grown
  BY <1>1, <1>7 DEF Scan
<1>10. ListingOK(c)
  BY DEF PagingInv
<1> HIDE DEF read, next
<1>11. PagingTypeOK'
  BY <1>8, <1>9 DEF PagingInv, PagingTypeOK
<1>12. ASSUME NEW d \in Callers PROVE ListingOK(d)'
  <2>1. CASE d = c
    <3>1. scan'[d] = read
      BY <1>8, <2>1 DEF PagingInv, PagingTypeOK
    <3>2. ~s.shrunk => s.stayed \subseteq read.listed \cup Behind(all, next)
      BY <1>1, <1>4, <1>9, <1>10 DEF ListingOK
    <3>3. ~s.grown => read.listed \cap Behind(all, next) = {} /\ read.twice = {}
      BY <1>1, <1>4, <1>5, <1>9, <1>10 DEF ListingOK
    <3> QED BY <1>6, <1>8, <1>9, <3>1, <3>2, <3>3 DEF ListingOK, Behind
  <2>2. CASE d # c
    BY <1>8, <2>2 DEF PagingInv, PagingTypeOK, ListingOK, Behind
  <2> QED BY <2>1, <2>2
<1> QED BY <1>11, <1>12 DEF PagingInv

LEMMA InsertedBehind ==
    ASSUME NEW s \in Seq(Records), NEW r \in Records, NEW i \in 1..(Len(s) + 1),
           NEW n \in Nat
    PROVE  Behind(s, n) \subseteq Behind(InsertAt(s, i, r), n)
<1> DEFINE t == InsertAt(s, i, r)
<1>1. /\ Len(s) \in Nat /\ DOMAIN s = 1..Len(s) /\ i \in Nat
      /\ DOMAIN t = 1..(Len(s) + 1)
      /\ \A j \in 1..(Len(s) + 1) :
            t[j] = IF j < i THEN s[j] ELSE IF j = i THEN r ELSE s[j - 1]
  BY Inserted, LenProperties
<1> HIDE DEF t
<1>2. SUFFICES ASSUME NEW j \in DOMAIN s, j > n
               PROVE  \E k \in DOMAIN t : k > n /\ t[k] = s[j]
  BY DEF Behind, t
<1>3. CASE j < i
  BY <1>1, <1>2, <1>3
<1>4. CASE j >= i
  <2>1. j + 1 \in DOMAIN t /\ j + 1 > n /\ t[j + 1] = s[j]
    BY <1>1, <1>2, <1>4
  <2> QED BY <2>1
<1> QED BY <1>1, <1>3, <1>4

LEMMA InsertedInjective ==
    ASSUME NEW s \in Seq(Records), NEW r \in Records, NEW i \in 1..(Len(s) + 1),
           IsInjective(s), r \notin Range(s)
    PROVE  IsInjective(InsertAt(s, i, r))
<1> DEFINE t == InsertAt(s, i, r)
<1>1. /\ Len(s) \in Nat /\ DOMAIN s = 1..Len(s) /\ i \in Nat
      /\ DOMAIN t = 1..(Len(s) + 1)
      /\ \A j \in 1..(Len(s) + 1) :
            t[j] = IF j < i THEN s[j] ELSE IF j = i THEN r ELSE s[j - 1]
  BY Inserted, LenProperties
<1> HIDE DEF t
<1>2. \A j \in DOMAIN s : s[j] # r
  BY DEF Range
<1>3. \A j \in DOMAIN t :
          \/ j = i /\ t[j] = r
          \/ j < i /\ j \in DOMAIN s /\ t[j] = s[j] /\ t[j] # r
          \/ j > i /\ j - 1 \in DOMAIN s /\ t[j] = s[j - 1] /\ t[j] # r
  BY <1>1, <1>2
<1>4. ASSUME NEW a \in DOMAIN t, NEW b \in DOMAIN t, t[a] = t[b]
      PROVE  a = b
  <2>1. a \in Nat /\ b \in Nat
    BY <1>1
  <2> QED BY <1>1, <1>3, <1>4, <2>1 DEF IsInjective
<1> QED BY <1>4 DEF IsInjective, t

LEMMA RemovedBehind ==
    ASSUME NEW s \in Seq(Records), NEW i \in 1..Len(s), NEW n \in Nat
    PROVE  Behind(RemoveAt(s, i), n) \subseteq Behind(s, n)
<1> DEFINE t == RemoveAt(s, i)
<1>1. /\ Len(s) \in Nat /\ DOMAIN s = 1..Len(s) /\ i \in Nat
      /\ DOMAIN t = 1..(Len(s) - 1)
      /\ \A j \in 1..(Len(s) - 1) : t[j] = IF j < i THEN s[j] ELSE s[j + 1]
  BY Removed, LenProperties
<1> HIDE DEF t
<1>2. SUFFICES ASSUME NEW j \in DOMAIN t, j > n
               PROVE  \E k \in DOMAIN s : k > n /\ s[k] = t[j]
  BY DEF Behind, t
<1>3. CASE j < i
  BY <1>1, <1>2, <1>3
<1>4. CASE j >= i
  <2>1. j + 1 \in DOMAIN s /\ j + 1 > n /\ t[j] = s[j + 1]
    BY <1>1, <1>2, <1>4
  <2> QED BY <2>1
<1> QED BY <1>1, <1>3, <1>4

LEMMA RemovedInjective ==
    ASSUME NEW s \in Seq(Records), NEW i \in 1..Len(s), IsInjective(s)
    PROVE  IsInjective(RemoveAt(s, i))
<1> DEFINE t == RemoveAt(s, i)
<1>1. /\ Len(s) \in Nat /\ DOMAIN s = 1..Len(s) /\ i \in Nat
      /\ DOMAIN t = 1..(Len(s) - 1)
      /\ \A j \in 1..(Len(s) - 1) : t[j] = IF j < i THEN s[j] ELSE s[j + 1]
  BY Removed, LenProperties
<1> HIDE DEF t
<1>2. ASSUME NEW a \in DOMAIN t, NEW b \in DOMAIN t, t[a] = t[b]
      PROVE  a = b
  <2>1. a \in Nat /\ b \in Nat /\ a \in DOMAIN s /\ b \in DOMAIN s
        /\ a + 1 \in DOMAIN s /\ b + 1 \in DOMAIN s
    BY <1>1
  <2> QED BY <1>1, <1>2, <2>1 DEF IsInjective
<1> QED BY <1>2 DEF IsInjective, t

\* A listing notes a change of its zone's records to new, unless what is still to
\* come loses nothing by it, and gains nothing.
Notes(c, z, new) ==
    /\ ~Reads(c, z) => scan'[c] = scan[c]
    /\ Reads(c, z) =>
          /\ scan'[c].zone = z /\ scan'[c].status = "on"
          /\ scan'[c].offset = scan[c].offset
          /\ scan'[c].listed = scan[c].listed /\ scan'[c].twice = scan[c].twice
          /\ ~scan'[c].shrunk =>
                /\ ~scan[c].shrunk /\ scan'[c].stayed = scan[c].stayed
                /\ Behind(order[z], scan[c].offset) \subseteq Behind(new, scan[c].offset)
          /\ ~scan'[c].grown =>
                /\ ~scan[c].grown
                /\ Behind(new, scan[c].offset) \subseteq Behind(order[z], scan[c].offset)

LEMMA ChangeKeeps ==
    ASSUME PagingInv, NEW z \in ZoneIds, NEW new \in Seq(Records), IsInjective(new),
           order' = [order EXCEPT ![z] = new],
           scan' \in [Callers -> Scan],
           \A c \in Callers : Notes(c, z, new)
    PROVE  PagingInv'
<1>1. order'[z] = new /\ \A y \in ZoneIds \ {z} : order'[y] = order[y]
  BY DEF PagingInv, PagingTypeOK
<1>2. PagingTypeOK'
  <2>1. order' \in [ZoneIds -> Seq(Records)]
    BY DEF PagingInv, PagingTypeOK
  <2>2. \A y \in ZoneIds : IsInjective(order'[y])
    BY <1>1 DEF PagingInv, PagingTypeOK
  <2> QED BY <2>1, <2>2 DEF PagingTypeOK
<1>3. ASSUME NEW c \in Callers PROVE ListingOK(c)'
  <2>1. ListingOK(c) /\ scan[c] \in Scan /\ scan[c].zone \in ZoneIds
    BY DEF PagingInv, PagingTypeOK, Scan
  <2>2. CASE Reads(c, z)
    <3>1. scan[c].status = "on" /\ scan[c].zone = z
      BY <2>2 DEF Reads
    <3>2. Notes(c, z, new)
      OBVIOUS
    <3> QED BY <1>1, <2>1, <2>2, <3>1, <3>2 DEF ListingOK, Notes
  <2>3. CASE ~Reads(c, z)
    <3>1. scan'[c] = scan[c]
      BY <2>3 DEF Notes
    <3>2. scan[c].status = "on" => order'[scan[c].zone] = order[scan[c].zone]
      BY <1>1, <2>1, <2>3 DEF Reads
    <3> QED BY <2>1, <3>1, <3>2 DEF ListingOK
  <2> QED BY <2>2, <2>3
<1> QED BY <1>2, <1>3 DEF PagingInv

LEMMA CreateRecordKeeps ==
    ASSUME PagingInv, NEW z \in ZoneIds, NEW r \in Records,
           NEW i \in 1..(Len(order[z]) + 1), CreateRecord(z, i, r)
    PROVE  PagingInv'
<1> DEFINE new == InsertAt(order[z], i, r)
<1>1. order[z] \in Seq(Records) /\ IsInjective(order[z]) /\ r \notin Range(order[z])
  BY DEF PagingInv, PagingTypeOK, CreateRecord
<1>2. new \in Seq(Records) /\ IsInjective(new)
  BY <1>1, Inserted, InsertedInjective
<1>3. \A n \in Nat : Behind(order[z], n) \subseteq Behind(new, n)
  BY <1>1, InsertedBehind
<1>4. order' = [order EXCEPT ![z] = new]
  BY DEF CreateRecord
<1> HIDE DEF new
<1>5. ASSUME NEW c \in Callers
      PROVE  /\ scan'[c] \in Scan
             /\ ~Reads(c, z) => scan'[c] = scan[c]
             /\ Reads(c, z) =>
                   /\ scan'[c].zone = z /\ scan'[c].status = "on"
                   /\ scan'[c].offset = scan[c].offset /\ scan[c].offset \in Nat
                   /\ scan'[c].listed = scan[c].listed /\ scan'[c].twice = scan[c].twice
                   /\ scan'[c].shrunk = scan[c].shrunk /\ scan'[c].stayed = scan[c].stayed
                   /\ scan'[c].grown
  <2>1. scan[c] \in Scan
    BY DEF PagingInv, PagingTypeOK
  <2>2. scan'[c] = IF Reads(c, z) THEN [scan[c] EXCEPT !.grown = TRUE] ELSE scan[c]
    BY DEF CreateRecord
  <2> QED BY <2>1, <2>2 DEF Scan, Reads
<1>6. scan' \in [Callers -> Scan]
  BY <1>5 DEF CreateRecord
<1>7. \A c \in Callers : Notes(c, z, new)
  BY <1>3, <1>5 DEF Notes
<1> QED BY <1>2, <1>4, <1>6, <1>7, ChangeKeeps

LEMMA DeleteRecordKeeps ==
    ASSUME PagingInv, NEW z \in ZoneIds, NEW i \in DOMAIN order[z], DeleteRecord(z, i)
    PROVE  PagingInv'
<1> DEFINE new == RemoveAt(order[z], i)
<1>1. order[z] \in Seq(Records) /\ IsInjective(order[z]) /\ i \in 1..Len(order[z])
  BY LenProperties DEF PagingInv, PagingTypeOK
<1>2. new \in Seq(Records) /\ IsInjective(new)
  BY <1>1, Removed, RemovedInjective
<1>3. \A n \in Nat : Behind(new, n) \subseteq Behind(order[z], n)
  BY <1>1, RemovedBehind
<1>4. order' = [order EXCEPT ![z] = new]
  BY DEF DeleteRecord
<1> HIDE DEF new
<1>5. ASSUME NEW c \in Callers
      PROVE  /\ scan'[c] \in Scan
             /\ ~Reads(c, z) => scan'[c] = scan[c]
             /\ Reads(c, z) =>
                   /\ scan'[c].zone = z /\ scan'[c].status = "on"
                   /\ scan'[c].offset = scan[c].offset /\ scan[c].offset \in Nat
                   /\ scan'[c].listed = scan[c].listed /\ scan'[c].twice = scan[c].twice
                   /\ scan'[c].grown = scan[c].grown
                   /\ scan'[c].shrunk
  <2>1. scan[c] \in Scan
    BY DEF PagingInv, PagingTypeOK
  <2>2. scan'[c] = IF Reads(c, z)
                  THEN [scan[c] EXCEPT !.shrunk = TRUE, !.stayed = @ \ {order[z][i]}]
                  ELSE scan[c]
    BY DEF DeleteRecord
  <2>3. scan[c].stayed \ {order[z][i]} \in SUBSET Records
    BY <2>1 DEF Scan
  <2>4. CASE Reads(c, z)
    <3> DEFINE stayed == scan[c].stayed \ {order[z][i]}
    <3>1. scan'[c] = [scan[c] EXCEPT !.shrunk = TRUE, !.stayed = stayed]
      BY <2>2, <2>4
    <3>2. stayed \in SUBSET Records
      BY <2>3
    <3> HIDE DEF stayed
    <3> QED BY <2>1, <2>4, <3>1, <3>2 DEF Scan, Reads
  <2> QED BY <2>1, <2>2, <2>4
<1>6. scan' \in [Callers -> Scan]
  BY <1>5 DEF DeleteRecord
<1>7. \A c \in Callers : Notes(c, z, new)
  BY <1>3, <1>5 DEF Notes
<1> QED BY <1>2, <1>4, <1>6, <1>7, ChangeKeeps

LEMMA DropRecordsKeeps ==
    ASSUME PagingInv, NEW z \in ZoneIds, DropRecords(z)
    PROVE  PagingInv'
<1>1. << >> \in Seq(Records) /\ IsInjective(<< >>) /\ \A n \in Nat : Behind(<< >>, n) = {}
  BY DEF IsInjective, Behind
<1>2. order' = [order EXCEPT ![z] = << >>]
  BY DEF DropRecords
<1>3. ASSUME NEW c \in Callers
      PROVE  /\ scan'[c] \in Scan
             /\ ~Reads(c, z) => scan'[c] = scan[c]
             /\ Reads(c, z) =>
                   /\ scan'[c].zone = z /\ scan'[c].status = "on"
                   /\ scan'[c].offset = scan[c].offset /\ scan[c].offset \in Nat
                   /\ scan'[c].listed = scan[c].listed /\ scan'[c].twice = scan[c].twice
                   /\ scan'[c].grown = scan[c].grown
                   /\ scan'[c].shrunk
  <2>1. scan[c] \in Scan
    BY DEF PagingInv, PagingTypeOK
  <2>2. scan'[c] = IF Reads(c, z)
                  THEN [scan[c] EXCEPT !.shrunk = TRUE, !.stayed = {}] ELSE scan[c]
    BY DEF DropRecords
  <2> QED BY <2>1, <2>2 DEF Scan, Reads
<1>4. scan' \in [Callers -> Scan]
  BY <1>3 DEF DropRecords
<1>5. \A c \in Callers : Notes(c, z, << >>)
  BY <1>1, <1>3 DEF Notes
<1> QED BY <1>1, <1>2, <1>4, <1>5, ChangeKeeps

-----------------------------------------------------------------------------

\* Listings of any number of zones by any number of calls keep the invariant,
\* whatever is created and deleted meanwhile.
THEOREM PagingInvariant == PagingSpec => []PagingInv
<1>1. ASSUME PagingInv, [PagingNext]_pagingVars PROVE PagingInv'
  <2>1. CASE UNCHANGED pagingVars
    BY <1>1, <2>1 DEF pagingVars, PagingInv, PagingTypeOK, ListingOK
  <2>2. CASE PagingNext
    <3>1. ASSUME NEW c \in Callers, NEW z \in ZoneIds, BeginListing(c, z) PROVE PagingInv'
      BY <1>1, <3>1, BeginListingKeeps
    <3>2. ASSUME NEW c \in Callers, NEW counted \in BOOLEAN, FetchPage(c, counted)
          PROVE  PagingInv'
      BY <1>1, <3>2, FetchPageKeeps
    <3>3. ASSUME NEW c \in Callers, EndListing(c) PROVE PagingInv'
      BY <1>1, <3>3, EndListingKeeps
    <3>4. ASSUME NEW z \in ZoneIds, NEW i \in 1..(Len(order[z]) + 1), NEW r \in Records,
                 CreateRecord(z, i, r)
          PROVE  PagingInv'
      BY <1>1, <3>4, CreateRecordKeeps
    <3>5. ASSUME NEW z \in ZoneIds, NEW i \in DOMAIN order[z], DeleteRecord(z, i)
          PROVE  PagingInv'
      BY <1>1, <3>5, DeleteRecordKeeps
    <3>6. ASSUME NEW z \in ZoneIds, DropRecords(z) PROVE PagingInv'
      BY <1>1, <3>6, DropRecordsKeeps
    <3> QED BY <2>2, <3>1, <3>2, <3>3, <3>4, <3>5, <3>6 DEF PagingNext
  <2> QED BY <1>1, <2>1, <2>2
<1> QED BY <1>1, PagingInitially, PTL DEF PagingSpec

\* No listing that is done lacks a record that was there all the time, unless some
\* other was deleted meanwhile (MissedOnlyIfDeleted, of ListRecords in dns.go).
THEOREM NothingHiddenByCreation == PagingSpec => []MissedOnlyIfDeleted
<1>1. PagingInv => MissedOnlyIfDeleted
  BY DEF PagingInv, ListingOK, MissedOnlyIfDeleted
<1> QED BY <1>1, PagingInvariant, PTL

\* No listing holds a record twice, unless some other was created meanwhile
\* (TwiceOnlyIfCreated, of ListRecords in dns.go).
THEOREM NothingDoubledByDeletion == PagingSpec => []TwiceOnlyIfCreated
<1>1. PagingInv => TwiceOnlyIfCreated
  BY DEF PagingInv, ListingOK, TwiceOnlyIfCreated
<1> QED BY <1>1, PagingInvariant, PTL

-----------------------------------------------------------------------------
(* Calls *)

\* Where a call has passed the check for Initialize.
Working == {"resourceDriver", "other", "GetZone", "CreateZone", "DeleteZone",
            "applyRecords", "writeRecords", "readOutput"}

\* A call is where it is for a reason: it works on records only with a zone's id,
\* assigns only what Validate has passed, and uses a driver only after it has found
\* them all.
PlaceOK(c) ==
    /\ pc[c] \in {"applyRecords", "writeRecords", "readOutput"} => zid[c] \in ZoneIds
    /\ pc[c] \in Fields => req[c].config \in Configs
    /\ pc[c] \in Working => Initialized
    /\ Nil \notin used[c]

CallersOK ==
    /\ DOMAIN pc = Callers /\ DOMAIN req = Callers
    /\ DOMAIN zid = Callers /\ DOMAIN used = Callers

ServerInv ==
    /\ CallersOK
    /\ held \subseteq ZoneIds /\ fresh \subseteq Records
    /\ \A c \in Callers : PlaceOK(c)

\* A step of c leaves the places of the others alone.
Alone(c) ==
    \A d \in Callers \ {c} :
        /\ pc'[d] = pc[d] /\ req'[d] = req[d]
        /\ zid'[d] = zid[d] /\ used'[d] = used[d]

LEMMA ServerInitially == Init => ServerInv /\ PagingInit
BY ServerAssumption DEF Init, ServerInv, CallersOK, PlaceOK, Fields, Working, PagingInit

\* Whatever c does, the invariant holds of the others unless a driver is lost.
LEMMA OthersKept ==
    ASSUME ServerInv, NEW c \in Callers, Alone(c), CallersOK', PlaceOK(c)',
           held' \subseteq ZoneIds, fresh' \subseteq Records, Initialized => Initialized'
    PROVE  ServerInv'
<1>1. ASSUME NEW d \in Callers \ {c} PROVE PlaceOK(d)'
  BY <1>1 DEF ServerInv, PlaceOK, Alone
<1> QED BY <1>1 DEF ServerInv

\* Initialized does not change with any other variable.
LEMMA FieldsKept == ASSUME UNCHANGED fieldVars PROVE Initialized' = Initialized
BY DEF fieldVars, Initialized

-----------------------------------------------------------------------------
(* Requests *)

LEMMA StartKeeps ==
    ASSUME ServerInv, NEW c \in Callers, NEW r, Start(c, r)
    PROVE  ServerInv' /\ UNCHANGED pagingVars
<1>1. /\ pc[c] = "ready" /\ req' = [req EXCEPT ![c] = r] /\ UNCHANGED <<serviceVars, zid>>
      /\ UNCHANGED fieldVars
  BY DEF Start, Initialize, Plan, EnumerateAll, StartCall, Arrive
<1>2. UNCHANGED <<pagingVars, held, fresh>>
  BY <1>1 DEF serviceVars, zoneVars
<1>3. /\ CallersOK' /\ Alone(c) /\ PlaceOK(c)'
  <2>1. CASE Initialize(c, r)
    <3>1. /\ UNCHANGED used
          /\ \/ r.config \in Configs /\ pc' = [pc EXCEPT ![c] = "dnsDriver"]
             \/ pc' = [pc EXCEPT ![c] = "return"]
      BY <2>1 DEF Initialize, Goto
    <3> QED BY <1>1, <3>1 DEF ServerInv, CallersOK, Alone, PlaceOK, Fields, Working
  <2>2. CASE Plan(c, r)
    <3>1. /\ pc' = [pc EXCEPT ![c] = "return"]
          /\ used' = [used EXCEPT ![c] =
                IF Initialized THEN {dnsDriver, domainDriver, redirectDriver} ELSE {}]
      BY <2>2 DEF Plan, Goto
    <3> QED BY <1>1, <3>1
            DEF ServerInv, CallersOK, Alone, PlaceOK, Fields, Working, Initialized
  <2>3. CASE EnumerateAll(c, r)
    <3>1. \/ pc' = [pc EXCEPT ![c] = "return"] /\ used' = used
          \/ /\ zones # Nil
             /\ pc' = [pc EXCEPT ![c] = "ListZones"]
             /\ used' = [used EXCEPT ![c] = {zones}]
      BY <2>3 DEF EnumerateAll, Goto
    <3> QED BY <1>1, <3>1 DEF ServerInv, CallersOK, Alone, PlaceOK, Fields, Working
  <2>4. CASE StartCall(c, r)
    <3>1. /\ UNCHANGED used
          /\ \/ Initialized /\ pc' = [pc EXCEPT ![c] = "resourceDriver"]
             \/ pc' = [pc EXCEPT ![c] = "return"]
      BY <2>4 DEF StartCall, Goto
    <3>2. Initialized' = Initialized
      BY <1>1, FieldsKept
    <3> QED BY <1>1, <3>1, <3>2 DEF ServerInv, CallersOK, Alone, PlaceOK, Fields, Working
  <2> QED BY <2>1, <2>2, <2>3, <2>4 DEF Start
<1>4. Initialized' = Initialized
  BY <1>1, FieldsKept
<1> QED BY <1>2, <1>3, <1>4, OthersKept DEF ServerInv

\* Initialize assigns configs only, never Nil.
LEMMA AssignKeeps ==
    ASSUME ServerInv, NEW c \in Callers,
           SetDNS(c) \/ SetDomain(c) \/ SetRedirect(c) \/ SetZones(c)
    PROVE  ServerInv' /\ UNCHANGED pagingVars
<1>1. /\ pc[c] \in Fields /\ UNCHANGED <<serviceVars, req, zid, used>>
      /\ \E next \in Fields \cup {"return"} : pc' = [pc EXCEPT ![c] = next]
  BY DEF SetDNS, SetDomain, SetRedirect, SetZones, Assign, Goto, Fields
<1>2. req[c].config \in Configs
  BY <1>1 DEF ServerInv, PlaceOK
<1>3. UNCHANGED <<pagingVars, held, fresh>>
  BY <1>1 DEF serviceVars, zoneVars
<1>4. Initialized => Initialized'
  BY <1>2, ServerAssumption DEF SetDNS, SetDomain, SetRedirect, SetZones, Initialized
<1>5. CallersOK' /\ Alone(c) /\ PlaceOK(c)'
  BY <1>1, <1>2 DEF ServerInv, CallersOK, Alone, PlaceOK, Fields, Working
<1> QED BY <1>3, <1>4, <1>5, OthersKept DEF ServerInv

-----------------------------------------------------------------------------
(* Operations *)

LEMMA FinishGoes ==
    ASSUME NEW c, NEW ok, Finish(c, ok)
    PROVE  \E next \in {"return", "resourceDriver"} : pc' = [pc EXCEPT ![c] = next]
BY DEF Finish, Goto

\* A working call that goes on working, or returns.
LEMMA WorkKeeps ==
    ASSUME ServerInv, NEW c \in Callers, pc[c] \in Working, UNCHANGED <<fieldVars, req>>,
           NEW next \in Working \cup {"return"}, pc' = [pc EXCEPT ![c] = next],
           DOMAIN zid' = Callers, \A d \in Callers \ {c} : zid'[d] = zid[d],
           next \in {"applyRecords", "writeRecords", "readOutput"} => zid'[c] \in ZoneIds,
           DOMAIN used' = Callers, \A d \in Callers \ {c} : used'[d] = used[d],
           Nil \notin used'[c],
           held' \subseteq ZoneIds, fresh' \subseteq Records
    PROVE  ServerInv'
<1>1. Initialized /\ Initialized' = Initialized
  BY FieldsKept DEF ServerInv, PlaceOK
<1>2. CallersOK' /\ Alone(c) /\ PlaceOK(c)'
  BY <1>1 DEF ServerInv, CallersOK, Alone, PlaceOK, Working, Fields
<1> QED BY <1>1, <1>2, OthersKept

LEMMA ResourceDriverKeeps ==
    ASSUME ServerInv, NEW c \in Callers, resourceDriver(c)
    PROVE  ServerInv' /\ UNCHANGED pagingVars
<1> DEFINE to == {"return", "resourceDriver", "other", "GetZone", "DeleteZone"}
<1>1. /\ pc[c] = "resourceDriver"
      /\ UNCHANGED <<fieldVars, req, pagingVars, held, fresh>>
  BY DEF resourceDriver, serviceVars, zoneVars
<1>2. \E next \in to : pc' = [pc EXCEPT ![c] = next]
  BY FinishGoes DEF resourceDriver, Goto
<1>3. /\ DOMAIN zid' = Callers
      /\ \A d \in Callers \ {c} : zid'[d] = zid[d]
  BY DEF resourceDriver, ServerInv, CallersOK
<1>4. {dnsDriver, domainDriver, redirectDriver} \cap {Nil} = {} /\ Nil \notin used[c]
  BY <1>1 DEF ServerInv, PlaceOK, Working, Initialized
<1>5. /\ DOMAIN used' = Callers
      /\ \A d \in Callers \ {c} : used'[d] = used[d]
      /\ Nil \notin used'[c]
  <2>1. CASE Ref(c).type \notin Types
    BY <1>4, <2>1 DEF resourceDriver, ServerInv, CallersOK
  <2>2. CASE Ref(c).type \in Types
    <3>1. PICK field : used' = [used EXCEPT ![c] = @ \cup {field}] /\ field # Nil
      BY <1>4, <2>2 DEF resourceDriver, Types
    <3> QED BY <1>4, <2>2, <3>1 DEF ServerInv, CallersOK
  <2> QED BY <2>1, <2>2
<1> QED BY <1>1, <1>2, <1>3, <1>5, WorkKeeps DEF Working, ServerInv

\* What the operations that look for zones and make them do to listings.
LEMMA LookupKeeps ==
    ASSUME ServerInv, NEW c \in Callers,
           OtherDriver(c) \/ FindZone(c) \/ MissZone(c) \/ MakeZone(c)
    PROVE  ServerInv' /\ [PagingNext]_pagingVars
<1>1. /\ pc[c] \in Working /\ UNCHANGED <<fieldVars, req, used>>
      /\ held' \subseteq ZoneIds /\ fresh' = fresh
  BY DEF OtherDriver, FindZone, MissZone, MakeZone, Working, historyVars, serviceVars,
         zoneVars, ServerInv, Creatable
<1>2. \E next \in Working \cup {"return"} :
          /\ pc' = [pc EXCEPT ![c] = next]
          /\ \/ zid' = zid /\ next \notin {"applyRecords", "writeRecords", "readOutput"}
             \/ \E z \in ZoneIds : zid' = [zid EXCEPT ![c] = z]
  <2>1. CASE OtherDriver(c)
    BY <2>1, FinishGoes DEF OtherDriver, Working
  <2>2. CASE FindZone(c)
    <3>1. PICK z \in lookup(c) : zid' = [zid EXCEPT ![c] = z]
      BY <2>2 DEF FindZone
    <3>2. z \in ZoneIds
      BY <3>1 DEF lookup, GetZone, ServerInv
    <3>3. \E next \in Working \cup {"return"} : pc' = [pc EXCEPT ![c] = next]
      BY <2>2, FinishGoes DEF FindZone, Goto, Working
    <3> QED BY <3>1, <3>2, <3>3
  <2>3. CASE MissZone(c)
    BY <2>3, FinishGoes DEF MissZone, Goto, Working
  <2>4. CASE MakeZone(c)
    BY <2>4, FinishGoes DEF MakeZone, Goto, Working, Creatable, serviceVars
  <2> QED BY <2>1, <2>2, <2>3, <2>4
<1>3. ServerInv'
  <2>1. PICK next \in Working \cup {"return"} :
            /\ pc' = [pc EXCEPT ![c] = next]
            /\ \/ zid' = zid /\ next \notin {"applyRecords", "writeRecords", "readOutput"}
               \/ \E z \in ZoneIds : zid' = [zid EXCEPT ![c] = z]
    BY <1>2
  <2>2. /\ DOMAIN zid' = Callers /\ \A d \in Callers \ {c} : zid'[d] = zid[d]
        /\ next \in {"applyRecords", "writeRecords", "readOutput"} => zid'[c] \in ZoneIds
    BY <2>1 DEF ServerInv, CallersOK
  <2>3. /\ DOMAIN used' = Callers /\ \A d \in Callers \ {c} : used'[d] = used[d]
        /\ Nil \notin used'[c]
    BY <1>1 DEF ServerInv, CallersOK, PlaceOK
  <2>4. fresh' \subseteq Records
    BY <1>1 DEF ServerInv
  <2> QED BY <1>1, <2>1, <2>2, <2>3, <2>4, WorkKeeps
<1>4. [PagingNext]_pagingVars
  <2>1. CASE OtherDriver(c) \/ MissZone(c)
    BY <2>1 DEF OtherDriver, MissZone, serviceVars
  <2>2. CASE FindZone(c)
    <3>1. \/ UNCHANGED pagingVars
          \/ \E z \in lookup(c) : BeginListing(c, z)
      BY <2>2 DEF FindZone
    <3> QED BY <3>1 DEF PagingNext, lookup, GetZone, ServerInv
  <2>3. CASE MakeZone(c)
    <3>1. \/ UNCHANGED pagingVars
          \/ \E z \in ZoneIds : BeginListing(c, z)
      BY <2>3 DEF MakeZone, serviceVars, Creatable
    <3> QED BY <3>1 DEF PagingNext
  <2> QED BY <2>1, <2>2, <2>3
<1> QED BY <1>3, <1>4

LEMMA RemoveZoneKeeps ==
    ASSUME ServerInv, NEW c \in Callers, RemoveZone(c)
    PROVE  ServerInv' /\ [PagingNext]_pagingVars
<1>1. /\ pc[c] \in Working /\ UNCHANGED <<fieldVars, req, zid, used>>
      /\ held' \subseteq ZoneIds /\ fresh' = fresh
  BY DEF RemoveZone, DeleteZone, Working, zoneVars, ServerInv
<1>2. \E next \in {"return", "resourceDriver"} : pc' = [pc EXCEPT ![c] = next]
  BY FinishGoes DEF RemoveZone
<1>3. ServerInv'
  BY <1>1, <1>2, WorkKeeps DEF ServerInv, CallersOK, PlaceOK, Working
<1>4. [PagingNext]_pagingVars
  BY DEF RemoveZone, DeleteZone, PagingNext, ServerInv
<1> QED BY <1>3, <1>4

LEMMA RecordsKeep ==
    ASSUME ServerInv, NEW c \in Callers,
           ReadPage(c) \/ WriteRecord(c) \/ MissRecord(c) \/ EndWrites(c)
    PROVE  ServerInv' /\ [PagingNext]_pagingVars
<1>1. /\ pc[c] \in {"applyRecords", "writeRecords", "readOutput"}
      /\ UNCHANGED <<fieldVars, req, zid, used, held>>
      /\ fresh' \subseteq Records
  BY DEF ReadPage, WriteRecord, MissRecord, EndWrites, zoneVars, serviceVars, historyVars,
         ServerInv
<1>2. zid[c] \in ZoneIds
  BY <1>1 DEF ServerInv, PlaceOK
<1>3. \/ pc' = pc
      \/ \E next \in {"writeRecords", "readOutput", "return", "resourceDriver"} :
             pc' = [pc EXCEPT ![c] = next]
  BY FinishGoes DEF ReadPage, WriteRecord, MissRecord, EndWrites, Goto
<1>4. ServerInv'
  <2>1. CASE pc' = pc
    <3>1. Initialized' = Initialized
      BY <1>1, FieldsKept
    <3> QED BY <1>1, <2>1, <3>1 DEF ServerInv, CallersOK, PlaceOK
  <2>2. CASE pc' # pc
    BY <1>1, <1>2, <1>3, <2>2, WorkKeeps DEF ServerInv, CallersOK, PlaceOK, Working
  <2> QED BY <2>1, <2>2
<1>5. [PagingNext]_pagingVars
  <2>1. CASE ReadPage(c)
    BY <2>1 DEF ReadPage, PagingNext
  <2>2. CASE WriteRecord(c)
    BY <1>2, <2>2 DEF WriteRecord, PagingNext, ServerInv
  <2>3. CASE MissRecord(c)
    BY <2>3 DEF MissRecord, serviceVars
  <2>4. CASE EndWrites(c)
    BY <1>2, <2>4 DEF EndWrites, PagingNext
  <2> QED BY <2>1, <2>2, <2>3, <2>4
<1> QED BY <1>4, <1>5

\* The end of a call, and of an enumeration.
LEMMA ReturnKeeps ==
    ASSUME ServerInv, NEW c \in Callers, ListZones(c) \/ Return(c)
    PROVE  ServerInv' /\ [PagingNext]_pagingVars
<1>1. /\ UNCHANGED <<fieldVars, held, fresh>>
      /\ \E next \in {"return", "ready"} : pc' = [pc EXCEPT ![c] = next]
  BY DEF ListZones, Return, Goto, serviceVars, zoneVars
<1>2. \/ UNCHANGED <<req, zid, used>>
      \/ /\ \E r : req' = [req EXCEPT ![c] = r]
         /\ zid' = [zid EXCEPT ![c] = NoId]
         /\ used' = [used EXCEPT ![c] = {}]
  BY DEF ListZones, Return, historyVars
<1>3. CallersOK' /\ Alone(c) /\ PlaceOK(c)'
  BY <1>1, <1>2 DEF ServerInv, CallersOK, Alone, PlaceOK, Fields, Working
<1>4. Initialized' = Initialized
  BY <1>1, FieldsKept
<1>5. [PagingNext]_pagingVars
  BY DEF ListZones, Return, PagingNext, serviceVars
<1> QED BY <1>1, <1>3, <1>4, <1>5, OthersKept DEF ServerInv

-----------------------------------------------------------------------------
(* Failures and the dashboard *)

LEMMA FailKeeps ==
    ASSUME ServerInv, NEW c \in Callers, Fail(c)
    PROVE  ServerInv' /\ [PagingNext]_pagingVars
<1>1. /\ pc[c] \in Working \cup {"ListZones"}
      /\ UNCHANGED <<fieldVars, req, zid, used, fresh>>
  BY DEF Fail, Working, historyVars
<1>2. held' \subseteq ZoneIds /\ [PagingNext]_pagingVars
  <2>1. \/ UNCHANGED <<pagingVars, held>>
        \/ UNCHANGED pagingVars /\ \E z \in ZoneIds : held' = held \cup {z}
        \/ zid[c] \in held /\ DeleteZone(zid[c])
    BY DEF Fail, zoneVars, Creatable
  <2> QED BY <2>1 DEF DeleteZone, PagingNext, ServerInv
<1>3. \E next \in {"return", "resourceDriver", "CreateZone"} :
          /\ pc' = [pc EXCEPT ![c] = next]
          /\ pc[c] = "ListZones" => next = "return"
  BY FinishGoes DEF Fail, Goto
<1>4. Initialized' = Initialized
  BY <1>1, FieldsKept
<1>5. CallersOK' /\ Alone(c) /\ PlaceOK(c)'
  BY <1>1, <1>3, <1>4 DEF ServerInv, CallersOK, Alone, PlaceOK, Fields, Working
<1> QED BY <1>1, <1>2, <1>4, <1>5, OthersKept DEF ServerInv

LEMMA DashboardKeeps ==
    ASSUME ServerInv, Dashboard
    PROVE  ServerInv' /\ [PagingNext]_pagingVars
<1>1. /\ UNCHANGED <<fieldVars, pc, req, zid, used>>
      /\ held' \subseteq ZoneIds /\ fresh' \subseteq Records
  BY DEF Dashboard, DeleteZone, zoneVars, historyVars, ServerInv
<1>2. ServerInv'
  <2>1. Initialized' = Initialized
    BY <1>1, FieldsKept
  <2> QED BY <1>1, <2>1 DEF ServerInv, CallersOK, PlaceOK
<1>3. [PagingNext]_pagingVars
  BY DEF Dashboard, DeleteZone, PagingNext, ServerInv
<1> QED BY <1>2, <1>3

-----------------------------------------------------------------------------

LEMMA NextKeeps ==
    ASSUME ServerInv, [Next]_vars
    PROVE  ServerInv' /\ [PagingNext]_pagingVars
<1>1. CASE UNCHANGED vars
  BY <1>1 DEF vars, zoneVars, fieldVars, historyVars, ServerInv, CallersOK, PlaceOK, Initialized
<1>2. ASSUME NEW c \in Callers, NEW r, Start(c, r)
      PROVE  ServerInv' /\ [PagingNext]_pagingVars
  BY <1>2, StartKeeps
<1>3. ASSUME NEW c \in Callers, Step(c)
      PROVE  ServerInv' /\ [PagingNext]_pagingVars
  BY <1>3, AssignKeeps, ResourceDriverKeeps, LookupKeeps, RemoveZoneKeeps, RecordsKeep,
     ReturnKeeps DEF Step
<1>4. ASSUME NEW c \in Callers, Fail(c)
      PROVE  ServerInv' /\ [PagingNext]_pagingVars
  BY <1>4, FailKeeps
<1>5. CASE Dashboard
  BY <1>5, DashboardKeeps
<1> QED BY <1>1, <1>2, <1>3, <1>4, <1>5 DEF Next

THEOREM ServerInvariant == Spec => []ServerInv
<1>1. ServerInv /\ [Next]_vars => ServerInv'
  BY NextKeeps
<1> QED BY <1>1, ServerInitially, PTL DEF Spec

\* No handler uses a driver or a lister that is not there, whatever Initialize does
\* meanwhile (NoNilDriver).
THEOREM DriversAreThere == Spec => []NoNilDriver
<1>1. ServerInv => NoNilDriver
  BY DEF ServerInv, PlaceOK, NoNilDriver
<1> QED BY <1>1, ServerInvariant, PTL

\* The server lists records as ListPaging says: each step of a handler, of the
\* dashboard or of a failing call is one of its steps or leaves it alone.
THEOREM ServerImplementsPaging == Spec => PagingSpec
<1>1. ServerInv /\ [Next]_vars => [PagingNext]_pagingVars
  BY NextKeeps
<1> QED BY <1>1, ServerInitially, ServerInvariant, PTL DEF Spec, PagingSpec

\* So what holds of listings holds of the server's.
THEOREM ServerListings == Spec => [](MissedOnlyIfDeleted /\ TwiceOnlyIfCreated)
BY ServerImplementsPaging, NothingHiddenByCreation, NothingDoubledByDeletion, PTL

-----------------------------------------------------------------------------
(* The zones that are written and deleted *)

\* A call has the zone it asked for: looked up, made or given by id.
ZoneOK(c) ==
    /\ pc[c] \in {"applyRecords", "writeRecords"} =>
          \/ ZoneName[zid[c]] = req[c].spec.domain
          \/ Op(c) = "Create" /\ req[c].spec.id = zid[c]
    /\ pc[c] = "GetZone" /\ Op(c) = "Delete" => Ref(c).id = NoId
    /\ pc[c] = "DeleteZone" =>
          \/ zid[c] = Ref(c).id
          \/ Ref(c).id = NoId /\ ZoneName[zid[c]] = Ref(c).name
    /\ pc[c] = "CreateZone" => Op(c) = "Create"

ZonesInv ==
    /\ DOMAIN pc = Callers /\ DOMAIN req = Callers
    /\ DOMAIN zid = Callers /\ DOMAIN todo = Callers
    /\ \A c \in Callers : ZoneOK(c)

\* A step of c, for the invariant.
ZoneStep(c) ==
    /\ DOMAIN pc' = Callers /\ DOMAIN req' = Callers
    /\ DOMAIN zid' = Callers /\ DOMAIN todo' = Callers
    /\ \A d \in Callers \ {c} :
          /\ pc'[d] = pc[d] /\ req'[d] = req[d]
          /\ zid'[d] = zid[d] /\ todo'[d] = todo[d]

LEMMA ZoneOthersKept ==
    ASSUME ZonesInv, NEW c \in Callers, ZoneStep(c), ZoneOK(c)'
    PROVE  ZonesInv'
<1>1. ASSUME NEW d \in Callers \ {c} PROVE ZoneOK(d)'
  BY <1>1 DEF ZonesInv, ZoneStep, ZoneOK, Op, Ref
<1> QED BY <1>1 DEF ZonesInv, ZoneStep

\* Where the call has no zone yet, or needs none any more.
LEMMA NoZoneNeeded ==
    ASSUME NEW c \in Callers,
           pc'[c] \notin {"applyRecords", "writeRecords", "GetZone", "DeleteZone", "CreateZone"}
    PROVE  ZoneOK(c)'
BY DEF ZoneOK

LEMMA FinishNeedsNone ==
    ASSUME ZonesInv, NEW c \in Callers, NEW ok, Finish(c, ok), UNCHANGED <<req, zid>>
    PROVE  ZonesInv'
<1>1. ZoneStep(c)
  BY DEF Finish, Goto, ZonesInv, ZoneStep
<1>2. pc'[c] \in {"return", "resourceDriver"}
  BY DEF Finish, Goto, ZonesInv
<1> QED BY <1>1, <1>2, NoZoneNeeded, ZoneOthersKept

LEMMA ZonesStartKeeps ==
    ASSUME ZonesInv, NEW c \in Callers, NEW r, Start(c, r)
    PROVE  ZonesInv'
<1>1. \E next \in Fields \cup {"return", "ListZones", "resourceDriver"} :
          pc' = [pc EXCEPT ![c] = next]
  BY DEF Start, Initialize, Plan, EnumerateAll, StartCall, Goto, Fields
<1>2. req' = [req EXCEPT ![c] = r] /\ todo' = [todo EXCEPT ![c] = r.refs] /\ zid' = zid
  BY DEF Start, Initialize, Plan, EnumerateAll, StartCall, Arrive
<1>3. ZoneStep(c)
  BY <1>1, <1>2 DEF ZonesInv, ZoneStep
<1>4. ZoneOK(c)'
  BY <1>1, NoZoneNeeded DEF ZonesInv, Fields
<1> QED BY <1>3, <1>4, ZoneOthersKept

LEMMA ZonesAssignKeeps ==
    ASSUME ZonesInv, NEW c \in Callers,
           SetDNS(c) \/ SetDomain(c) \/ SetRedirect(c) \/ SetZones(c)
    PROVE  ZonesInv'
<1>1. \E next \in Fields \cup {"return"} : pc' = [pc EXCEPT ![c] = next]
  BY DEF SetDNS, SetDomain, SetRedirect, SetZones, Assign, Goto, Fields
<1>2. UNCHANGED <<req, todo, zid>>
  BY DEF SetDNS, SetDomain, SetRedirect, SetZones, Assign
<1>3. ZoneStep(c) /\ ZoneOK(c)'
  BY <1>1, <1>2, NoZoneNeeded DEF ZonesInv, ZoneStep, Fields
<1> QED BY <1>3, ZoneOthersKept

\* A Delete without an id looks for the zone by the name, and one with an id does
\* not look.
LEMMA ZonesResourceDriverKeeps ==
    ASSUME ZonesInv, NEW c \in Callers, resourceDriver(c)
    PROVE  ZonesInv'
<1> DEFINE byId == /\ Ref(c).type \in {"", "infra.dns"}
                   /\ Op(c) = "Delete" /\ Ref(c).id # NoId
<1>1. /\ UNCHANGED req
      /\ \/ (\E ok \in BOOLEAN : Finish(c, ok))
            /\ \E z : zid' = zid \/ zid' = [zid EXCEPT ![c] = z]
         \/ /\ UNCHANGED todo
            /\ zid' = [zid EXCEPT ![c] = IF byId THEN Ref(c).id ELSE @]
            /\ \/ pc' = [pc EXCEPT ![c] = "DeleteZone"] /\ byId
               \/ pc' = [pc EXCEPT ![c] = "GetZone"] /\ ~byId
                  /\ Ref(c).type \in {"", "infra.dns"}
               \/ pc' = [pc EXCEPT ![c] = "other"]
  BY DEF resourceDriver, Stay, Goto
<1>2. CASE \E ok \in BOOLEAN : Finish(c, ok)
  <2>1. ZoneStep(c)
    BY <1>1, <1>2 DEF Finish, Goto, ZonesInv, ZoneStep
  <2>2. pc'[c] \in {"return", "resourceDriver"}
    BY <1>2 DEF Finish, Goto, ZonesInv
  <2> QED BY <2>1, <2>2, NoZoneNeeded, ZoneOthersKept
<1>3. CASE ~\E ok \in BOOLEAN : Finish(c, ok)
  <2>1. ZoneStep(c)
    BY <1>1, <1>3 DEF ZonesInv, ZoneStep
  <2>2. Op(c)' = Op(c) /\ Ref(c)' = Ref(c)
    BY <1>1, <1>3 DEF Op, Ref
  <2>3. ZoneOK(c)'
    BY <1>1, <1>3, <2>2 DEF ZonesInv, ZoneOK
  <2> QED BY <2>1, <2>3, ZoneOthersKept
<1> QED BY <1>2, <1>3

\* The zone that is found is the one looked for, and an Update does not go on with
\* that of another domain.
LEMMA ZonesFindKeeps ==
    ASSUME ZonesInv, NEW c \in Callers, FindZone(c)
    PROVE  ZonesInv'
<1>1. pc[c] = "GetZone" /\ UNCHANGED req
  BY DEF FindZone
<1>2. PICK z \in lookup(c) :
          /\ zid' = [zid EXCEPT ![c] = z]
          /\ \/ \E ok \in BOOLEAN : Finish(c, ok)
             \/ Op(c) = "Delete" /\ pc' = [pc EXCEPT ![c] = "DeleteZone"] /\ UNCHANGED todo
             \/ /\ ~AnotherDomain(c, z) /\ Op(c) \in {"Create", "Update"}
                /\ pc' = [pc EXCEPT ![c] = "applyRecords"] /\ UNCHANGED todo
             \/ pc' = [pc EXCEPT ![c] = "readOutput"] /\ UNCHANGED todo
  BY DEF FindZone, Goto, Stay
<1>3. CASE \E ok \in BOOLEAN : Finish(c, ok)
  <2>1. ZoneStep(c)
    BY <1>1, <1>2, <1>3 DEF Finish, Goto, ZonesInv, ZoneStep
  <2>2. pc'[c] \in {"return", "resourceDriver"}
    BY <1>3 DEF Finish, Goto, ZonesInv
  <2> QED BY <2>1, <2>2, NoZoneNeeded, ZoneOthersKept
<1>4. CASE ~\E ok \in BOOLEAN : Finish(c, ok)
  <2>1. ZoneStep(c)
    BY <1>1, <1>2, <1>4 DEF ZonesInv, ZoneStep
  <2>2. Op(c)' = Op(c) /\ Ref(c)' = Ref(c) /\ zid'[c] = z
    BY <1>1, <1>2, <1>4 DEF Op, Ref, ZonesInv
  <2>3. ZoneOK(c)
    BY DEF ZonesInv
  <2>4. CASE Op(c) = "Delete"
    <3>1. Ref(c).id = NoId /\ ZoneName[z] = Ref(c).name
      BY <1>1, <1>2, <2>3, <2>4 DEF ZoneOK, lookup, Wanted, GetZone, By
    <3>2. pc'[c] \in {"DeleteZone", "readOutput"}
      BY <1>2, <1>4, <2>4 DEF ZonesInv
    <3> QED BY <2>1, <2>2, <3>1, <3>2, ZoneOthersKept DEF ZoneOK
  <2>5. CASE Op(c) = "Create"
    <3>1. \/ ZoneName[z] = req[c].spec.domain
          \/ req[c].spec.id = z
      BY <1>2, <2>5 DEF lookup, Wanted, GetZone, By
    <3>2. pc'[c] \in {"applyRecords", "readOutput"}
      BY <1>2, <1>4, <2>5 DEF ZonesInv
    <3> QED BY <1>1, <2>1, <2>2, <2>5, <3>1, <3>2, ZoneOthersKept DEF ZoneOK
  <2>6. CASE Op(c) \notin {"Create", "Delete"}
    <3>1. pc'[c] = "applyRecords" => ZoneName[z] = req[c].spec.domain
      BY <1>2, <1>4, <2>6 DEF AnotherDomain, ZonesInv
    <3>2. pc'[c] \in {"applyRecords", "readOutput"}
      BY <1>2, <1>4, <2>6 DEF ZonesInv
    <3> QED BY <1>1, <2>1, <2>2, <3>1, <3>2, ZoneOthersKept DEF ZoneOK
  <2> QED BY <2>4, <2>5, <2>6
<1> QED BY <1>3, <1>4

LEMMA ZonesMakeKeeps ==
    ASSUME ZonesInv, NEW c \in Callers, MissZone(c) \/ MakeZone(c)
    PROVE  ZonesInv'
<1>1. UNCHANGED req
  BY DEF MissZone, MakeZone
<1>2. CASE \E ok \in BOOLEAN : Finish(c, ok) /\ UNCHANGED zid
  BY <1>1, <1>2, FinishNeedsNone
<1>3. CASE /\ Op(c) = "Create" /\ UNCHANGED <<zid, todo>>
           /\ pc' = [pc EXCEPT ![c] = "CreateZone"]
  <2>1. ZoneStep(c) /\ Op(c)' = Op(c)
    BY <1>1, <1>3 DEF ZonesInv, ZoneStep, Op
  <2> QED BY <1>3, <2>1, ZoneOthersKept DEF ZonesInv, ZoneOK
<1>4. CASE /\ UNCHANGED todo
           /\ pc' = [pc EXCEPT ![c] = "applyRecords"]
           /\ \E z : ZoneName[z] = req[c].spec.domain /\ zid' = [zid EXCEPT ![c] = z]
  <2>1. ZoneStep(c)
    BY <1>1, <1>4 DEF ZonesInv, ZoneStep
  <2>2. ZoneOK(c)'
    BY <1>1, <1>4 DEF ZonesInv, ZoneOK
  <2> QED BY <2>1, <2>2, ZoneOthersKept
<1>5. CASE MissZone(c)
  <2>1. (Op(c) = "HealthCheck") \in BOOLEAN
    OBVIOUS
  <2> QED BY <1>2, <1>3, <1>5, <2>1 DEF MissZone, Goto, Stay
<1>6. CASE MakeZone(c)
  <2>1. \/ Finish(c, FALSE) /\ UNCHANGED zid
        \/ \E z \in Creatable(Account(c), req[c].spec.domain) :
               zid' = [zid EXCEPT ![c] = z] /\ Goto(c, "applyRecords") /\ Stay
    BY <1>6 DEF MakeZone
  <2> QED BY <1>2, <1>4, <2>1 DEF Creatable, Goto, Stay
<1> QED BY <1>5, <1>6

LEMMA ZonesRecordsKeep ==
    ASSUME ZonesInv, NEW c \in Callers,
           \/ OtherDriver(c) \/ RemoveZone(c)
           \/ ReadPage(c) \/ WriteRecord(c) \/ MissRecord(c) \/ EndWrites(c)
    PROVE  ZonesInv'
<1>1. UNCHANGED <<req, zid>>
  BY DEF OtherDriver, RemoveZone, ReadPage, WriteRecord, MissRecord, EndWrites, historyVars
<1>2. \/ \E ok \in BOOLEAN : Finish(c, ok)
      \/ /\ UNCHANGED todo
         /\ \/ UNCHANGED pc
            \/ pc' = [pc EXCEPT ![c] = "readOutput"]
            \/ pc[c] = "applyRecords" /\ pc' = [pc EXCEPT ![c] = "writeRecords"]
  BY DEF OtherDriver, RemoveZone, ReadPage, WriteRecord, MissRecord, EndWrites, Goto, Stay
<1>3. CASE \E ok \in BOOLEAN : Finish(c, ok)
  BY <1>1, <1>3, FinishNeedsNone
<1>4. CASE ~\E ok \in BOOLEAN : Finish(c, ok)
  <2>1. ZoneStep(c) /\ Op(c)' = Op(c) /\ Ref(c)' = Ref(c)
    BY <1>1, <1>2, <1>4 DEF ZonesInv, ZoneStep, Op, Ref
  <2>2. ZoneOK(c)'
    BY <1>1, <1>2, <1>4, <2>1 DEF ZonesInv, ZoneOK
  <2> QED BY <2>1, <2>2, ZoneOthersKept
<1> QED BY <1>3, <1>4

LEMMA ZonesEndKeeps ==
    ASSUME ZonesInv, NEW c \in Callers, ListZones(c) \/ Return(c)
    PROVE  ZonesInv'
<1>1. \E next \in {"return", "ready"} : pc' = [pc EXCEPT ![c] = next]
  BY DEF ListZones, Return, Goto
<1>2. \/ UNCHANGED <<req, zid, todo>>
      \/ /\ \E r : req' = [req EXCEPT ![c] = r]
         /\ zid' = [zid EXCEPT ![c] = NoId]
         /\ todo' = [todo EXCEPT ![c] = <<>>]
  BY DEF ListZones, Return
<1>3. ZoneStep(c) /\ ZoneOK(c)'
  BY <1>1, <1>2, NoZoneNeeded DEF ZonesInv, ZoneStep
<1> QED BY <1>3, ZoneOthersKept

LEMMA ZonesFailKeeps ==
    ASSUME ZonesInv, NEW c \in Callers, Fail(c)
    PROVE  ZonesInv'
<1>1. UNCHANGED <<req, zid>>
  BY DEF Fail
<1>2. \/ \E ok \in BOOLEAN : Finish(c, ok)
      \/ /\ UNCHANGED todo
         /\ \/ pc' = [pc EXCEPT ![c] = "return"]
            \/ Op(c) = "Create" /\ pc' = [pc EXCEPT ![c] = "CreateZone"]
  <2>1. (pc[c] = "GetZone" /\ Op(c) = "HealthCheck") \in BOOLEAN
    OBVIOUS
  <2> QED BY <2>1 DEF Fail, Goto, Stay
<1>3. CASE \E ok \in BOOLEAN : Finish(c, ok)
  BY <1>1, <1>3, FinishNeedsNone
<1>4. CASE ~\E ok \in BOOLEAN : Finish(c, ok)
  <2>1. ZoneStep(c) /\ Op(c)' = Op(c)
    BY <1>1, <1>2, <1>4 DEF ZonesInv, ZoneStep, Op
  <2>2. ZoneOK(c)'
    BY <1>1, <1>2, <1>4, <2>1 DEF ZonesInv, ZoneOK
  <2> QED BY <2>1, <2>2, ZoneOthersKept
<1> QED BY <1>3, <1>4

LEMMA ZonesInvariant == Spec => []ZonesInv
<1>1. Init => ZonesInv
  BY DEF Init, ZonesInv, ZoneOK
<1>2. ASSUME ZonesInv, [Next]_vars PROVE ZonesInv'
  <2>1. CASE UNCHANGED vars
    BY <1>2, <2>1 DEF vars, ZonesInv, ZoneOK, Op, Ref
  <2>2. ASSUME NEW c \in Callers, NEW r, Start(c, r) PROVE ZonesInv'
    BY <1>2, <2>2, ZonesStartKeeps
  <2>3. ASSUME NEW c \in Callers, Step(c) PROVE ZonesInv'
    BY <1>2, <2>3, ZonesAssignKeeps, ZonesResourceDriverKeeps, ZonesFindKeeps,
       ZonesMakeKeeps, ZonesRecordsKeep, ZonesEndKeeps DEF Step
  <2>4. ASSUME NEW c \in Callers, Fail(c) PROVE ZonesInv'
    BY <1>2, <2>4, ZonesFailKeeps
  <2>5. CASE Dashboard
    BY <1>2, <2>5 DEF Dashboard, ZonesInv, ZoneOK, Op, Ref
  <2> QED BY <1>2, <2>1, <2>2, <2>3, <2>4, <2>5 DEF Next
<1> QED BY <1>1, <1>2, PTL DEF Spec

\* No call of any request writes to a zone of a domain that its config does not
\* have, but the one a Create gives by id, and none deletes a zone that the ref
\* does not name (WritesNamedZone).
THEOREM RightZone == Spec => []WritesNamedZone
<1>1. ZonesInv => WritesNamedZone
  BY DEF ZonesInv, ZoneOK, WritesNamedZone
<1> QED BY <1>1, ZonesInvariant, PTL

=============================================================================
