----------------------------- MODULE ListPaging -----------------------------
(***************************************************************************)
(* sdkClient.ListRecords of internal/drivers/dns.go: the records of a zone *)
(* are fetched page by page, by number, while others create and delete     *)
(* records of the zone.  A page is what the service has at that place when *)
(* it is asked for.  Nothing is said about where a new record is placed.   *)
(***************************************************************************)
EXTENDS Naturals, Sequences, SequencesExt

CONSTANTS Callers,  \* calls that may list
          ZoneIds,
          Records,  \* ids of records
          PageSize  \* dnsRecordListPageSize

ASSUME PageAssumption == PageSize \in Nat \ {0} /\ ZoneIds # {}

VARIABLES order,  \* the records of each zone, in the order of the service
          scan    \* the listing of each call

pagingVars == <<order, scan>>

\* The listing of a call: the zone, how many records the pages so far stand for,
\* the records they held and those that were in two of them; and, as history, the
\* records that have been there all the time and what others did meanwhile.
Scan == [zone   : ZoneIds,
         status : {"off", "on", "done"},
         offset : Nat,
         listed : SUBSET Records,
         twice  : SUBSET Records,
         stayed : SUBSET Records,
         shrunk : BOOLEAN,
         grown  : BOOLEAN]

Listing(z) ==
    [zone |-> z, status |-> "on", offset |-> 0, listed |-> {}, twice |-> {},
     stayed |-> Range(order[z]), shrunk |-> FALSE, grown |-> FALSE]

\* A call that lists nothing.
NoListing ==
    [zone |-> CHOOSE z \in ZoneIds : TRUE, status |-> "off", offset |-> 0,
     listed |-> {}, twice |-> {}, stayed |-> {}, shrunk |-> FALSE, grown |-> FALSE]

Reads(c, z) == scan[c].status = "on" /\ scan[c].zone = z

\* Variant: pages are counted from 0, which the service answers with the first.
PageFromZero(c) ==
    LET all == order[scan[c].zone]
    IN  {all[i] : i \in {j \in DOMAIN all : /\ scan[c].offset < j + PageSize
                                            /\ j <= PageSize \/ j <= scan[c].offset}}

\* The records of the next page.
Page(c) ==
    LET all == order[scan[c].zone]
    IN  {all[i] : i \in {j \in DOMAIN all : /\ scan[c].offset < j
                                            /\ j <= scan[c].offset + PageSize}}

\* Variant: the last page is left out.
LastPageEarly(c, counted) ==
    IF counted THEN scan[c].offset + 2 * PageSize >= Len(order[scan[c].zone])
    ELSE Page(c) = {}

\* The page's number has reached the total of pages that came with it, or, if none
\* came with it, the page is empty.
LastPage(c, counted) ==
    IF counted THEN scan[c].offset + PageSize >= Len(order[scan[c].zone])
    ELSE Page(c) = {}

BeginListing(c, z) ==
    /\ scan' = [scan EXCEPT ![c] = Listing(z)]
    /\ UNCHANGED order

FetchPage(c, counted) ==
    /\ scan[c].status = "on"
    /\ scan' = [scan EXCEPT
          ![c].status = IF LastPage(c, counted) THEN "done" ELSE "on",
          ![c].offset = @ + PageSize,
          ![c].listed = @ \cup Page(c),
          ![c].twice  = @ \cup (scan[c].listed \cap Page(c))]
    /\ UNCHANGED order

\* A page that cannot be had ends the listing with an error, and a call that is done
\* with a listing forgets it.
EndListing(c) ==
    /\ scan' = [scan EXCEPT ![c] = NoListing]
    /\ UNCHANGED order

CreateRecord(z, i, r) ==
    /\ r \notin Range(order[z])
    /\ order' = [order EXCEPT ![z] = InsertAt(@, i, r)]
    /\ scan' = [c \in Callers |->
                   IF Reads(c, z) THEN [scan[c] EXCEPT !.grown = TRUE] ELSE scan[c]]

DeleteRecord(z, i) ==
    /\ order' = [order EXCEPT ![z] = RemoveAt(@, i)]
    /\ scan' = [c \in Callers |->
                   IF Reads(c, z)
                   THEN [scan[c] EXCEPT !.shrunk = TRUE,
                                        !.stayed = @ \ {order[z][i]}]
                   ELSE scan[c]]

\* The records go with their zone.
DropRecords(z) ==
    /\ order' = [order EXCEPT ![z] = <<>>]
    /\ scan' = [c \in Callers |->
                   IF Reads(c, z)
                   THEN [scan[c] EXCEPT !.shrunk = TRUE, !.stayed = {}]
                   ELSE scan[c]]

PagingInit ==
    /\ order \in [ZoneIds -> Seq(Records)]
    /\ \A z \in ZoneIds : IsInjective(order[z])
    /\ scan = [c \in Callers |-> NoListing]

PagingNext ==
    \/ \E c \in Callers :
          \/ \E z \in ZoneIds : BeginListing(c, z)
          \/ \E counted \in BOOLEAN : FetchPage(c, counted)
          \/ EndListing(c)
    \/ \E z \in ZoneIds :
          \/ \E i \in 1..(Len(order[z]) + 1), r \in Records : CreateRecord(z, i, r)
          \/ \E i \in DOMAIN order[z] : DeleteRecord(z, i)
          \/ DropRecords(z)

PagingSpec == PagingInit /\ [][PagingNext]_pagingVars

-----------------------------------------------------------------------------

PagingTypeOK ==
    /\ order \in [ZoneIds -> Seq(Records)]
    /\ \A z \in ZoneIds : IsInjective(order[z])
    /\ scan \in [Callers -> Scan]

\* A listing lacks a record that was in the zone from first to last only if some
\* other record was deleted meanwhile, which moved it to a page that had been
\* fetched: records that others create never hide one (ListRecords of dns.go,
\* whose pages are asked for by number).
MissedOnlyIfDeleted ==
    \A c \in Callers :
        scan[c].status = "done" /\ ~scan[c].shrunk => scan[c].stayed \subseteq scan[c].listed

\* A listing holds a record twice only if some other record was created
\* meanwhile, which moved it to a page still to come: deletions never make two
\* of one (ListRecords of dns.go; of a marker that is listed twice, applyRecords
\* takes one for the declared one and deletes the other, which is the same).
TwiceOnlyIfCreated ==
    \A c \in Callers : scan[c].twice # {} => scan[c].grown

=============================================================================
