------------------------ MODULE ServerOutcomeProofs ------------------------
(***************************************************************************)
(* More proofs about IaCServer: the values it works with, the drivers a    *)
(* call uses, what a Destroy answers and what can be done with zones that  *)
(* were enumerated or imported.                                            *)
(***************************************************************************)
EXTENDS ServerProofs, FiniteSetTheorems

-----------------------------------------------------------------------------
(* Types *)

\* Where a call may be.
Places == {"ready", "return", "ListZones"} \cup Working \cup Fields

\* TypeOK of a call, with the refs it has yet to come to.
CallTyped(c) ==
    /\ req[c] \in Requests \cup Learnt
    /\ todo[c] \in Seq(ResourceRef)
    /\ pc[c] \in Places
    /\ pc[c] \in Working => todo[c] # <<>>
    /\ zid[c] \in ProviderIDs
    /\ pc[c] \in {"applyRecords", "readOutput", "writeRecords"} => scan[c].zone = zid[c]
    /\ pc[c] \in {"applyRecords", "readOutput"} => scan[c].status = "on"

TypesInv ==
    /\ DOMAIN pc = Callers /\ DOMAIN req = Callers
    /\ DOMAIN zid = Callers /\ DOMAIN todo = Callers
    /\ gone \subseteq ZoneIds /\ held \cap gone = {}
    /\ {dnsDriver, domainDriver, redirectDriver, zones} \subseteq Configs \cup {Nil}
    /\ imported \subseteq [ref : ResourceRef, spec : ZoneSpec]
    /\ enumerated \subseteq Names
    /\ \A c \in Callers : CallTyped(c)

\* What is known of every state before.
Base == ServerInv /\ ZonesInv /\ PagingInv

LEMMA BaseInvariant == Spec => []Base
<1>1. ServerInv /\ ZonesInv /\ PagingInv => Base
  BY DEF Base
<1> QED BY <1>1, ServerInvariant, ZonesInvariant, ServerImplementsPaging, PagingInvariant, PTL

\* A step of c leaves the calls of others alone, and where they are in a listing.
TypesStep(c) ==
    /\ DOMAIN pc' = Callers /\ DOMAIN req' = Callers
    /\ DOMAIN zid' = Callers /\ DOMAIN todo' = Callers
    /\ \A d \in Callers \ {c} :
          /\ pc'[d] = pc[d] /\ req'[d] = req[d]
          /\ zid'[d] = zid[d] /\ todo'[d] = todo[d]
          /\ scan'[d].zone = scan[d].zone /\ scan'[d].status = scan[d].status

\* The service, the fields and what was learnt, after a step.
SharedTyped ==
    /\ gone \subseteq ZoneIds /\ held \cap gone = {}
    /\ {dnsDriver, domainDriver, redirectDriver, zones} \subseteq Configs \cup {Nil}
    /\ imported \subseteq [ref : ResourceRef, spec : ZoneSpec]
    /\ enumerated \subseteq Names

\* What is asked for of what was learnt is asked for well.
LEMMA LearntTyped ==
    ASSUME SharedTyped, NEW r \in Requests \cup Learnt
    PROVE  /\ r.refs \in Seq(ResourceRef)
           /\ r.op \notin {"Initialize", "Plan", "EnumerateAll"} => r.refs # <<>>
<1>1. CASE r \in Requests
  BY <1>1, ServerAssumption DEF Request
<1>2. CASE r \in Learnt
  <2>1. \/ \E n \in enumerated :
              r.refs = <<[type |-> "infra.dns", name |-> n, id |-> n]>>
        \/ \E state \in imported : r.refs = <<state.ref>>
    BY <1>2 DEF Learnt, Ask
  <2>2. ASSUME NEW n \in enumerated
        PROVE  [type |-> "infra.dns", name |-> n, id |-> n] \in ResourceRef
    BY DEF SharedTyped, ResourceRef, Types, ProviderIDs
  <2>3. \A state \in imported : state.ref \in ResourceRef
    BY DEF SharedTyped
  <2>4. PICK ref \in ResourceRef : r.refs = <<ref>>
    BY <2>1, <2>2, <2>3
  <2> QED BY <2>4
<1> QED BY <1>1, <1>2

LEMMA LearntGrows ==
    ASSUME imported \subseteq imported', enumerated \subseteq enumerated'
    PROVE  Learnt \subseteq Learnt'
BY DEF Learnt, Ask

LEMMA TypesOthersKept ==
    ASSUME TypesInv, NEW c \in Callers, TypesStep(c), SharedTyped', CallTyped(c)',
           imported \subseteq imported', enumerated \subseteq enumerated'
    PROVE  TypesInv'
<1>1. ASSUME NEW d \in Callers \ {c} PROVE CallTyped(d)'
  BY <1>1, LearntGrows DEF TypesInv, TypesStep, CallTyped
<1> QED BY <1>1 DEF TypesInv, TypesStep, SharedTyped

\* What changes a zone does not move a listing of it.
LEMMA ServiceScans ==
    ASSUME PagingTypeOK, NEW z,
           \/ \E i, r : CreateRecord(z, i, r)
           \/ \E i : DeleteRecord(z, i)
           \/ DropRecords(z)
    PROVE  \A d \in Callers : scan'[d].zone = scan[d].zone /\ scan'[d].status = scan[d].status
<1>1. scan \in [Callers -> Scan]
  BY DEF PagingTypeOK
<1>2. ASSUME NEW i, NEW r, CreateRecord(z, i, r), NEW d \in Callers
      PROVE  scan'[d].zone = scan[d].zone /\ scan'[d].status = scan[d].status
  BY <1>1, <1>2 DEF CreateRecord, Scan
<1>3. ASSUME NEW i, DeleteRecord(z, i), NEW d \in Callers
      PROVE  scan'[d].zone = scan[d].zone /\ scan'[d].status = scan[d].status
  <2> DEFINE rest == [scan[d] EXCEPT !.shrunk = TRUE, !.stayed = @ \ {order[z][i]}]
  <2>1. scan'[d] = IF Reads(d, z) THEN rest ELSE scan[d]
    BY <1>3 DEF DeleteRecord
  <2>2. rest.zone = scan[d].zone /\ rest.status = scan[d].status
    BY <1>1 DEF Scan
  <2> QED BY <2>1, <2>2
<1>4. ASSUME DropRecords(z), NEW d \in Callers
      PROVE  scan'[d].zone = scan[d].zone /\ scan'[d].status = scan[d].status
  <2> DEFINE rest == [scan[d] EXCEPT !.shrunk = TRUE, !.stayed = {}]
  <2>1. scan'[d] = IF Reads(d, z) THEN rest ELSE scan[d]
    BY <1>4 DEF DropRecords
  <2>2. rest.zone = scan[d].zone /\ rest.status = scan[d].status
    BY <1>1 DEF Scan
  <2> QED BY <2>1, <2>2
<1> QED BY <1>2, <1>3, <1>4

\* A listing moves on by steps of its call only.
LEMMA OwnScans ==
    ASSUME PagingTypeOK, NEW c \in Callers,
           \/ \E z : BeginListing(c, z)
           \/ \E counted : FetchPage(c, counted)
           \/ EndListing(c)
    PROVE  \A d \in Callers \ {c} :
              scan'[d].zone = scan[d].zone /\ scan'[d].status = scan[d].status
BY DEF PagingTypeOK, BeginListing, FetchPage, EndListing

\* The ref a call works on.
LEMMA RefTyped ==
    ASSUME TypesInv, NEW c \in Callers, pc[c] \in Working
    PROVE  /\ todo[c] \in Seq(ResourceRef) /\ todo[c] # <<>>
           /\ Ref(c) \in ResourceRef
<1>1. todo[c] \in Seq(ResourceRef) /\ todo[c] # <<>>
  BY DEF TypesInv, CallTyped
<1> QED BY <1>1, HeadTailProperties DEF Ref

\* An operation that ends takes one ref off, and goes on only if there is one more.
LEMMA FinishTyped ==
    ASSUME TypesInv, NEW c \in Callers, NEW ok, Finish(c, ok), pc[c] \in Working,
           req' = req
    PROVE  /\ todo'[c] = Tail(todo[c]) /\ todo'[c] \in Seq(ResourceRef)
           /\ pc'[c] \in {"return", "resourceDriver"}
           /\ pc'[c] = "resourceDriver" => todo'[c] # <<>>
           /\ DOMAIN pc' = Callers /\ DOMAIN todo' = Callers
           /\ \A d \in Callers \ {c} : pc'[d] = pc[d] /\ todo'[d] = todo[d]
<1>1. todo[c] \in Seq(ResourceRef) /\ todo[c] # <<>>
  BY DEF TypesInv, CallTyped
<1>2. Tail(todo[c]) \in Seq(ResourceRef)
  BY <1>1, HeadTailProperties
<1> QED BY <1>2 DEF Finish, Goto, TypesInv

\* Steps that leave zones, fields and what was learnt alone.
LEMMA SharedKept ==
    ASSUME TypesInv, UNCHANGED <<zoneVars, fieldVars, learntVars>>
    PROVE  SharedTyped' /\ imported \subseteq imported' /\ enumerated \subseteq enumerated'
BY DEF TypesInv, SharedTyped, zoneVars, fieldVars, learntVars

\* Making a zone and deleting one.
LEMMA ZonesTyped ==
    ASSUME TypesInv, ServerInv, UNCHANGED <<fieldVars, learntVars>>,
           \/ UNCHANGED zoneVars
           \/ \E account, domain : \E z \in Creatable(account, domain) :
                  held' = held \cup {z} /\ gone' = gone
           \/ \E z \in held : held' = held \ {z} /\ gone' = gone \cup {z}
    PROVE  SharedTyped' /\ imported \subseteq imported' /\ enumerated \subseteq enumerated'
<1>1. \A account, domain : \A z \in Creatable(account, domain) : z \notin gone
  BY DEF Creatable
<1> QED BY <1>1 DEF TypesInv, ServerInv, SharedTyped, zoneVars, fieldVars, learntVars

LEMMA FinishKeepsTypes ==
    ASSUME TypesInv, SharedTyped', imported \subseteq imported',
           enumerated \subseteq enumerated',
           NEW c \in Callers, NEW ok, Finish(c, ok), pc[c] \in Working, req' = req,
           \/ zid' = zid
           \/ \E z \in ProviderIDs : zid' = [zid EXCEPT ![c] = z],
           \A d \in Callers \ {c} :
              scan'[d].zone = scan[d].zone /\ scan'[d].status = scan[d].status
    PROVE  TypesInv'
<1>1. TypesStep(c)
  BY FinishTyped DEF TypesStep, TypesInv
<1>2. /\ todo'[c] \in Seq(ResourceRef) /\ pc'[c] \in {"return", "resourceDriver"}
      /\ pc'[c] = "resourceDriver" => todo'[c] # <<>>
  BY FinishTyped
<1>3. zid'[c] \in ProviderIDs
  BY DEF TypesInv, CallTyped
<1>4. req'[c] \in Requests \cup Learnt'
  BY LearntGrows DEF TypesInv, CallTyped
<1>5. CallTyped(c)'
  BY <1>2, <1>3, <1>4 DEF CallTyped, Places, Working
<1> QED BY <1>1, <1>5, TypesOthersKept

LEMMA MoveKeepsTypes ==
    ASSUME TypesInv, SharedTyped', imported \subseteq imported',
           enumerated \subseteq enumerated',
           NEW c \in Callers, pc[c] \in Working, UNCHANGED <<req, todo>>,
           NEW next \in Working \cup {"return"}, pc' = [pc EXCEPT ![c] = next],
           \/ zid' = zid
           \/ \E z \in ProviderIDs : zid' = [zid EXCEPT ![c] = z],
           next \in {"applyRecords", "readOutput", "writeRecords"} =>
              scan'[c].zone = zid'[c],
           next \in {"applyRecords", "readOutput"} => scan'[c].status = "on",
           \A d \in Callers \ {c} :
              scan'[d].zone = scan[d].zone /\ scan'[d].status = scan[d].status
    PROVE  TypesInv'
<1>1. TypesStep(c)
  BY DEF TypesStep, TypesInv
<1>2. pc'[c] = next /\ next \in Places /\ next \notin {"ready", "ListZones"} \cup Fields
  BY DEF TypesInv, Places, Working, Fields
<1>3. todo'[c] \in Seq(ResourceRef) /\ todo'[c] # <<>> /\ zid'[c] \in ProviderIDs
  BY DEF TypesInv, CallTyped
<1>4. req'[c] \in Requests \cup Learnt'
  BY LearntGrows DEF TypesInv, CallTyped
<1>5. CallTyped(c)'
  BY <1>2, <1>3, <1>4 DEF CallTyped
<1> QED BY <1>1, <1>5, TypesOthersKept

LEMMA StartTypes ==
    ASSUME TypesInv, NEW c \in Callers, NEW r \in Requests \cup Learnt, Start(c, r)
    PROVE  TypesInv'
<1>1. /\ req' = [req EXCEPT ![c] = r] /\ todo' = [todo EXCEPT ![c] = r.refs]
      /\ UNCHANGED <<serviceVars, fieldVars, zid, learntVars>>
  BY DEF Start, Initialize, Plan, EnumerateAll, StartCall, Arrive
<1>2. UNCHANGED <<scan, zoneVars>>
  BY <1>1 DEF serviceVars, pagingVars
<1>3. SharedTyped /\ SharedTyped' /\ imported \subseteq imported' /\ enumerated \subseteq enumerated'
  BY <1>1, <1>2, SharedKept DEF TypesInv, SharedTyped
<1>4. PICK next \in {"dnsDriver", "return", "ListZones", "resourceDriver"} :
         /\ pc' = [pc EXCEPT ![c] = next]
         /\ next = "resourceDriver" => r.op \notin {"Initialize", "Plan", "EnumerateAll"}
  BY DEF Start, Initialize, Plan, EnumerateAll, StartCall, Goto
<1>5. r.refs \in Seq(ResourceRef) /\ (next = "resourceDriver" => r.refs # <<>>)
  BY <1>3, <1>4, LearntTyped
<1>6. TypesStep(c)
  BY <1>1, <1>2, <1>4 DEF TypesStep, TypesInv
<1>7. /\ pc'[c] = next /\ req'[c] = r /\ todo'[c] = r.refs /\ zid'[c] \in ProviderIDs
      /\ r \in Requests \cup Learnt'
  BY <1>1, <1>3, <1>4, LearntGrows DEF TypesInv, CallTyped
<1>8. CallTyped(c)'
  BY <1>5, <1>7 DEF CallTyped, Places, Working, Fields
<1> QED BY <1>3, <1>6, <1>8, TypesOthersKept

LEMMA AssignTypes ==
    ASSUME TypesInv, ServerInv, NEW c \in Callers,
           SetDNS(c) \/ SetDomain(c) \/ SetRedirect(c) \/ SetZones(c)
    PROVE  TypesInv'
<1>1. /\ UNCHANGED <<serviceVars, req, zid, todo, learntVars>> /\ pc[c] \in Fields
      /\ \E next \in Fields \cup {"return"} : pc' = [pc EXCEPT ![c] = next]
  BY DEF SetDNS, SetDomain, SetRedirect, SetZones, Assign, Goto, Fields
<1>2. UNCHANGED <<scan, zoneVars, imported, enumerated>>
  BY <1>1 DEF serviceVars, pagingVars, learntVars
<1>3. req[c].config \in Configs
  BY <1>1 DEF ServerInv, PlaceOK
<1>4. SharedTyped'
  BY <1>2, <1>3 DEF SetDNS, SetDomain, SetRedirect, SetZones, TypesInv, SharedTyped, zoneVars
<1>5. TypesStep(c)
  BY <1>1, <1>2 DEF TypesStep, TypesInv
<1>6. CallTyped(c)'
  BY <1>1, <1>2, LearntGrows DEF TypesInv, CallTyped, Places, Working, Fields
<1> QED BY <1>2, <1>4, <1>5, <1>6, TypesOthersKept

LEMMA ResourceDriverTypes ==
    ASSUME TypesInv, NEW c \in Callers, resourceDriver(c)
    PROVE  TypesInv'
<1> DEFINE byId == /\ Ref(c).type \in {"", "infra.dns"}
                   /\ Op(c) = "Delete" /\ Ref(c).id # NoId
<1>1. /\ UNCHANGED <<req, serviceVars, fieldVars, learntVars>>
      /\ pc[c] = "resourceDriver"
      /\ \/ zid' = zid
         \/ zid' = [zid EXCEPT ![c] = IF byId THEN Ref(c).id ELSE @]
      /\ \/ \E ok \in BOOLEAN : Finish(c, ok)
         \/ /\ UNCHANGED todo
            /\ \E next \in {"DeleteZone", "GetZone", "other"} : pc' = [pc EXCEPT ![c] = next]
  BY DEF resourceDriver, Stay, Goto
<1>2. UNCHANGED <<scan, zoneVars>>
  BY <1>1 DEF serviceVars, pagingVars
<1>3. Ref(c).id \in ProviderIDs /\ zid[c] \in ProviderIDs
  <2>1. Ref(c) \in ResourceRef
    BY <1>1, RefTyped DEF Working
  <2> QED BY <2>1 DEF TypesInv, CallTyped, ResourceRef
<1>4. \/ zid' = zid
      \/ \E z \in ProviderIDs : zid' = [zid EXCEPT ![c] = z]
  BY <1>1, <1>3
<1>5. SharedTyped' /\ imported \subseteq imported' /\ enumerated \subseteq enumerated'
  BY <1>1, <1>2, SharedKept
<1> QED BY <1>1, <1>2, <1>4, <1>5, FinishKeepsTypes, MoveKeepsTypes DEF Working

\* The operations on zones: a listing begins with the zone that is found or made.
LEMMA LookupTypes ==
    ASSUME TypesInv, Base, NEW c \in Callers,
           OtherDriver(c) \/ FindZone(c) \/ MissZone(c) \/ MakeZone(c) \/ RemoveZone(c)
    PROVE  TypesInv'
<1> DEFINE quiet == \A d \in Callers \ {c} :
                      scan'[d].zone = scan[d].zone /\ scan'[d].status = scan[d].status
           begun(z) == /\ zid' = [zid EXCEPT ![c] = z]
                       /\ scan'[c].zone = z /\ scan'[c].status = "on"
<1>0. PagingTypeOK /\ held \subseteq ZoneIds /\ ZoneIds \subseteq ProviderIDs
  BY DEF Base, PagingInv, ServerInv, ProviderIDs
<1>1. \A z : BeginListing(c, z) =>
         quiet /\ scan'[c].zone = z /\ scan'[c].status = "on"
  BY <1>0, OwnScans DEF BeginListing, Listing, PagingTypeOK
<1>2. /\ UNCHANGED <<req, fieldVars, learntVars>> /\ pc[c] \in Working
      /\ SharedTyped' /\ imported \subseteq imported' /\ enumerated \subseteq enumerated'
  <2>1. UNCHANGED <<req, fieldVars, learntVars>> /\ pc[c] \in Working
    BY DEF OtherDriver, FindZone, MissZone, MakeZone, RemoveZone, Working
  <2>2. \/ UNCHANGED zoneVars
        \/ \E account, domain : \E z \in Creatable(account, domain) :
               held' = held \cup {z} /\ gone' = gone
        \/ \E z \in held : held' = held \ {z} /\ gone' = gone \cup {z}
    BY DEF OtherDriver, FindZone, MissZone, MakeZone, RemoveZone, DeleteZone, serviceVars
  <2> QED BY <2>1, <2>2, ZonesTyped DEF Base
<1>3. ASSUME quiet, NEW ok, Finish(c, ok),
             \/ zid' = zid
             \/ \E z \in ProviderIDs : zid' = [zid EXCEPT ![c] = z]
      PROVE  TypesInv'
  BY <1>2, <1>3, FinishKeepsTypes
<1>4. ASSUME quiet, NEW next \in {"CreateZone", "DeleteZone"},
             pc' = [pc EXCEPT ![c] = next], UNCHANGED todo,
             \/ zid' = zid
             \/ \E z \in ProviderIDs : zid' = [zid EXCEPT ![c] = z]
      PROVE  TypesInv'
  BY <1>2, <1>4, MoveKeepsTypes DEF Working
<1>5. ASSUME NEW z \in ProviderIDs, BeginListing(c, z), UNCHANGED todo,
             zid' = [zid EXCEPT ![c] = z],
             NEW next \in {"applyRecords", "readOutput"}, pc' = [pc EXCEPT ![c] = next]
      PROVE  TypesInv'
  <2>1. zid'[c] = z
    BY <1>5 DEF TypesInv
  <2>2. quiet /\ scan'[c].zone = z /\ scan'[c].status = "on"
    BY <1>1, <1>5
  <2> QED BY <1>2, <1>5, <2>1, <2>2, MoveKeepsTypes DEF Working
<1>6. CASE OtherDriver(c)
  <2>1. quiet /\ zid' = zid
    BY <1>6 DEF OtherDriver, serviceVars, pagingVars
  <2> QED BY <1>3, <1>6, <2>1 DEF OtherDriver
<1>7. CASE FindZone(c)
  <2>1. PICK z \in lookup(c) :
          /\ zid' = [zid EXCEPT ![c] = z]
          /\ \/ (\E ok \in BOOLEAN : Finish(c, ok)) /\ UNCHANGED pagingVars
             \/ UNCHANGED todo /\ pc' = [pc EXCEPT ![c] = "DeleteZone"] /\ UNCHANGED pagingVars
             \/ /\ UNCHANGED todo /\ BeginListing(c, z)
                /\ \E next \in {"applyRecords", "readOutput"} : pc' = [pc EXCEPT ![c] = next]
    BY <1>7 DEF FindZone, Goto, Stay
  <2>2. z \in ProviderIDs
    BY <1>0 DEF lookup, GetZone
  <2>3. UNCHANGED pagingVars => quiet
    BY DEF pagingVars
  <2> QED BY <1>3, <1>4, <1>5, <2>1, <2>2, <2>3
<1>8. CASE MissZone(c)
  <2>1. quiet /\ zid' = zid
    BY <1>8 DEF MissZone, serviceVars, pagingVars
  <2>2. \/ \E ok \in BOOLEAN : Finish(c, ok)
        \/ UNCHANGED todo /\ pc' = [pc EXCEPT ![c] = "CreateZone"]
    BY <1>8 DEF MissZone, Goto, Stay
  <2> QED BY <1>3, <1>4, <2>1, <2>2
<1>9. CASE MakeZone(c)
  <2>1. \/ Finish(c, FALSE) /\ UNCHANGED <<zid, serviceVars>>
        \/ \E z \in Creatable(Account(c), req[c].spec.domain) :
              /\ zid' = [zid EXCEPT ![c] = z] /\ BeginListing(c, z)
              /\ pc' = [pc EXCEPT ![c] = "applyRecords"] /\ UNCHANGED todo
    BY <1>9 DEF MakeZone, Goto, Stay
  <2>2. \A z \in Creatable(Account(c), req[c].spec.domain) : z \in ProviderIDs
    BY <1>0 DEF Creatable
  <2>3. UNCHANGED serviceVars => quiet
    BY DEF serviceVars, pagingVars
  <2> QED BY <1>3, <1>5, <2>1, <2>2, <2>3
<1>10. CASE RemoveZone(c)
  <2>1. quiet /\ zid' = zid
    <3>1. DropRecords(zid[c]) \/ UNCHANGED pagingVars
      BY <1>10 DEF RemoveZone, DeleteZone
    <3>2. zid' = zid
      BY <1>10 DEF RemoveZone
    <3> QED BY <1>0, <3>1, <3>2, ServiceScans DEF pagingVars
  <2>2. \E ok \in BOOLEAN : Finish(c, ok)
    BY <1>10 DEF RemoveZone
  <2> QED BY <1>3, <2>1, <2>2
<1> QED BY <1>6, <1>7, <1>8, <1>9, <1>10

\* The operations on records.
LEMMA RecordsTypes ==
    ASSUME TypesInv, Base, Base', NEW c \in Callers,
           ReadPage(c) \/ WriteRecord(c) \/ MissRecord(c) \/ EndWrites(c)
    PROVE  TypesInv'
<1> DEFINE quiet == \A d \in Callers \ {c} :
                      scan'[d].zone = scan[d].zone /\ scan'[d].status = scan[d].status
<1>0. PagingTypeOK
  BY DEF Base, PagingInv
<1>1. /\ UNCHANGED <<req, zid, zoneVars, fieldVars, enumerated>>
      /\ pc[c] \in {"applyRecords", "writeRecords", "readOutput"}
  BY DEF ReadPage, WriteRecord, MissRecord, EndWrites, zoneVars, serviceVars, historyVars,
         learntVars
<1>2. scan[c].zone = zid[c] /\ zid[c] \in ProviderIDs /\ pc[c] \in Working
  BY <1>1 DEF TypesInv, CallTyped, Working
<1>3. CASE ReadPage(c)
  <2>1. CASE zid[c] \notin held
    <3>1. EndListing(c) /\ Finish(c, FALSE) /\ UNCHANGED imported
      BY <1>3, <2>1 DEF ReadPage
    <3>2. SharedTyped' /\ imported \subseteq imported' /\ enumerated \subseteq enumerated'
      BY <1>1, <3>1, SharedKept DEF learntVars
    <3> QED BY <1>0, <1>1, <1>2, <3>1, <3>2, OwnScans, FinishKeepsTypes
  <2>2. CASE zid[c] \in held
    <3>1. PICK counted \in BOOLEAN :
             /\ FetchPage(c, counted)
             /\ IF ~LastPage(c, counted) THEN UNCHANGED <<pc, imported>> /\ Stay
                ELSE IF pc[c] = "applyRecords"
                     THEN Goto(c, "writeRecords") /\ Stay /\ UNCHANGED imported
                ELSE /\ Finish(c, TRUE)
                     /\ imported' = IF req[c].op = "Import"
                                    THEN imported \cup {ImportedState(c)} ELSE imported
      BY <1>3, <2>2 DEF ReadPage
    <3>2. quiet /\ scan'[c].zone = zid[c]
      <4>1. scan'[c].zone = scan[c].zone
        BY <1>0, <3>1 DEF FetchPage, PagingTypeOK, Scan
      <4> QED BY <1>0, <1>2, <3>1, <4>1, OwnScans
    <3>3. ~LastPage(c, counted) => scan'[c].status = "on"
      BY <1>0, <3>1 DEF FetchPage, PagingTypeOK, Scan
    <3>4. SharedTyped' /\ imported \subseteq imported' /\ enumerated \subseteq enumerated'
      <4>1. ImportedState(c) \in [ref : ResourceRef, spec : ZoneSpec]
        <5>1. Ref(c).name \in Names \cup Labels \cup ZoneIds
          BY <1>2, RefTyped DEF ResourceRef
        <5>2. zid[c] \in ZoneIds
          BY <1>1 DEF Base, ServerInv, PlaceOK
        <5>3. ImportedRef(c) \in ResourceRef
          BY <5>1, <5>2 DEF ImportedRef, ResourceRef, Types, ProviderIDs
        <5>4. importedAppliedConfig(c) \in ZoneSpec
          BY <5>2, ZonesAssumption DEF importedAppliedConfig, ZoneSpec
        <5> QED BY <5>3, <5>4 DEF ImportedState
      <4>2. imported' = imported \/ imported' = imported \cup {ImportedState(c)}
        BY <3>1
      <4> HIDE DEF ImportedState
      <4> QED BY <1>1, <4>1, <4>2 DEF SharedTyped, TypesInv, zoneVars, fieldVars
    <3>5. CASE ~LastPage(c, counted)
      <4>1. UNCHANGED <<pc, imported, todo>>
        BY <3>1, <3>5 DEF Stay
      <4>2. TypesStep(c)
        BY <1>1, <3>2, <4>1 DEF TypesStep, TypesInv
      <4>3. CallTyped(c)'
        BY <1>1, <1>2, <3>2, <3>3, <3>4, <3>5, <4>1, LearntGrows DEF TypesInv, CallTyped
      <4> QED BY <3>4, <4>2, <4>3, TypesOthersKept
    <3>6. CASE LastPage(c, counted) /\ pc[c] = "applyRecords"
      <4>1. pc' = [pc EXCEPT ![c] = "writeRecords"] /\ UNCHANGED <<todo, imported>>
        BY <3>1, <3>6 DEF Goto, Stay
      <4> QED BY <1>1, <1>2, <3>2, <3>4, <4>1, MoveKeepsTypes DEF Working
    <3>7. CASE LastPage(c, counted) /\ pc[c] # "applyRecords"
      BY <1>1, <1>2, <3>1, <3>2, <3>4, <3>7, FinishKeepsTypes
    <3> QED BY <3>5, <3>6, <3>7
  <2> QED BY <2>1, <2>2
<1>4. CASE WriteRecord(c)
  <2>1. UNCHANGED <<pc, todo, learntVars>>
    BY <1>4 DEF WriteRecord
  <2>2. \A d \in Callers : scan'[d].zone = scan[d].zone /\ scan'[d].status = scan[d].status
    <3>1. \/ \E i, r : CreateRecord(zid[c], i, r)
          \/ \E i : DeleteRecord(zid[c], i)
      BY <1>4 DEF WriteRecord
    <3> QED BY <1>0, <3>1, ServiceScans
  <2>3. SharedTyped' /\ imported \subseteq imported' /\ enumerated \subseteq enumerated'
    BY <1>1, <2>1, SharedKept
  <2>4. TypesStep(c)
    BY <1>1, <2>1, <2>2 DEF TypesStep, TypesInv
  <2>5. CallTyped(c)'
    BY <1>1, <2>1, <2>2, <2>3, LearntGrows DEF TypesInv, CallTyped
  <2> QED BY <2>3, <2>4, <2>5, TypesOthersKept
<1>5. CASE MissRecord(c)
  <2>1. Finish(c, FALSE) /\ UNCHANGED <<scan, learntVars>>
    BY <1>5 DEF MissRecord, serviceVars, pagingVars
  <2>2. SharedTyped' /\ imported \subseteq imported' /\ enumerated \subseteq enumerated'
    BY <1>1, <2>1, SharedKept
  <2> QED BY <1>1, <1>2, <2>1, <2>2, FinishKeepsTypes
<1>6. CASE EndWrites(c)
  <2>1. /\ BeginListing(c, zid[c]) /\ UNCHANGED <<todo, learntVars>>
        /\ pc' = [pc EXCEPT ![c] = "readOutput"]
    BY <1>6 DEF EndWrites, Goto, Stay
  <2>2. quiet /\ scan'[c].zone = zid[c] /\ scan'[c].status = "on"
    BY <1>0, <2>1, OwnScans DEF BeginListing, Listing, PagingTypeOK
  <2>3. SharedTyped' /\ imported \subseteq imported' /\ enumerated \subseteq enumerated'
    BY <1>1, <2>1, SharedKept
  <2> QED BY <1>1, <1>2, <2>1, <2>2, <2>3, MoveKeepsTypes DEF Working
<1> QED BY <1>3, <1>4, <1>5, <1>6

LEMMA EndTypes ==
    ASSUME TypesInv, Base, NEW c \in Callers, ListZones(c) \/ Return(c)
    PROVE  TypesInv'
<1>1. /\ UNCHANGED <<zoneVars, fieldVars, imported>> /\ enumerated \subseteq enumerated'
      /\ enumerated' \subseteq enumerated \cup {ZoneName[z] : z \in held}
  BY DEF ListZones, Return, serviceVars, learntVars
<1>2. SharedTyped'
  <2>1. \A z \in held : ZoneName[z] \in Names
    BY ZonesAssumption DEF Base, ServerInv
  <2> QED BY <1>1, <2>1 DEF TypesInv, SharedTyped, zoneVars, fieldVars
<1>3. \A d \in Callers \ {c} : scan'[d].zone = scan[d].zone /\ scan'[d].status = scan[d].status
  <2>1. PagingTypeOK
    BY DEF Base, PagingInv
  <2>2. UNCHANGED scan \/ EndListing(c)
    BY DEF ListZones, Return, serviceVars, pagingVars
  <2> QED BY <2>1, <2>2, OwnScans
<1>4. CASE ListZones(c)
  <2>1. UNCHANGED <<req, todo, zid>> /\ pc' = [pc EXCEPT ![c] = "return"]
    BY <1>4 DEF ListZones, Goto
  <2>2. TypesStep(c) /\ pc'[c] = "return"
    BY <1>3, <2>1 DEF TypesStep, TypesInv
  <2>3. CallTyped(c)'
    BY <1>1, <2>1, <2>2, LearntGrows DEF TypesInv, CallTyped, Places, Working
  <2> QED BY <1>1, <1>2, <2>2, <2>3, TypesOthersKept
<1>5. CASE Return(c)
  <2>1. /\ pc' = [pc EXCEPT ![c] = "ready"]
        /\ req' = [req EXCEPT ![c] = NoRequest]
        /\ todo' = [todo EXCEPT ![c] = <<>>]
        /\ zid' = [zid EXCEPT ![c] = NoId]
    BY <1>5 DEF Return, Goto
  <2>2. /\ TypesStep(c) /\ pc'[c] = "ready" /\ req'[c] = NoRequest /\ todo'[c] = <<>>
        /\ zid'[c] = NoId
    BY <1>3, <2>1 DEF TypesStep, TypesInv
  <2>3. NoRequest \in Requests
    BY ServerAssumption DEF NoRequest
  <2>4. CallTyped(c)'
    BY <2>2, <2>3 DEF CallTyped, Places, Working, ProviderIDs
  <2> QED BY <1>1, <1>2, <2>2, <2>4, TypesOthersKept
<1> QED BY <1>4, <1>5

LEMMA FailTypes ==
    ASSUME TypesInv, Base, NEW c \in Callers, Fail(c)
    PROVE  TypesInv'
<1>1. UNCHANGED <<req, zid, fieldVars, learntVars>> /\ pc[c] \in Working \cup {"ListZones"}
  BY DEF Fail, Working
<1>2. \/ UNCHANGED <<pagingVars, zoneVars>>
      \/ /\ \E z \in Creatable(Account(c), req[c].spec.domain) : held' = held \cup {z}
         /\ UNCHANGED <<gone, pagingVars>>
      \/ zid[c] \in held /\ DeleteZone(zid[c])
  BY DEF Fail
<1>3. SharedTyped' /\ imported \subseteq imported' /\ enumerated \subseteq enumerated'
  BY <1>1, <1>2, ZonesTyped DEF Base, DeleteZone
<1>4. \A d \in Callers \ {c} : scan'[d].zone = scan[d].zone /\ scan'[d].status = scan[d].status
  <2>1. UNCHANGED pagingVars \/ DropRecords(zid[c])
    BY <1>2 DEF DeleteZone
  <2>2. PagingTypeOK
    BY DEF Base, PagingInv
  <2> QED BY <2>1, <2>2, ServiceScans DEF pagingVars
<1>5. CASE pc[c] = "ListZones"
  <2>1. UNCHANGED todo /\ pc' = [pc EXCEPT ![c] = "return"]
    BY <1>5 DEF Fail, Goto, Stay
  <2>2. TypesStep(c) /\ pc'[c] = "return"
    BY <1>1, <1>4, <2>1 DEF TypesStep, TypesInv
  <2>3. CallTyped(c)'
    BY <1>1, <1>3, <2>1, <2>2, LearntGrows DEF TypesInv, CallTyped, Places, Working
  <2> QED BY <1>3, <2>2, <2>3, TypesOthersKept
<1>6. CASE pc[c] # "ListZones"
  <2>1. \/ \E ok : Finish(c, ok)
        \/ UNCHANGED todo /\ pc' = [pc EXCEPT ![c] = "CreateZone"]
    BY <1>6 DEF Fail, Goto, Stay
  <2> QED BY <1>1, <1>3, <1>4, <1>6, <2>1, FinishKeepsTypes, MoveKeepsTypes DEF Working
<1> QED BY <1>5, <1>6

LEMMA DashboardTypes ==
    ASSUME TypesInv, Base, Dashboard
    PROVE  TypesInv'
<1>1. UNCHANGED <<pc, req, todo, zid, fieldVars, learntVars>>
  BY DEF Dashboard
<1>2. PICK z \in held :
         /\ \/ \E i, r : CreateRecord(z, i, r)
            \/ \E i : DeleteRecord(z, i)
            \/ DropRecords(z)
         /\ UNCHANGED zoneVars \/ (held' = held \ {z} /\ gone' = gone \cup {z})
  BY DEF Dashboard, DeleteZone
<1>3. SharedTyped' /\ imported \subseteq imported' /\ enumerated \subseteq enumerated'
  BY <1>1, <1>2, ZonesTyped DEF Base
<1>4. \A d \in Callers : scan'[d].zone = scan[d].zone /\ scan'[d].status = scan[d].status
  BY <1>2, ServiceScans DEF Base, PagingInv
<1>5. \A d \in Callers : CallTyped(d)'
  BY <1>1, <1>3, <1>4, LearntGrows DEF TypesInv, CallTyped
<1> QED BY <1>1, <1>3, <1>5 DEF TypesInv, SharedTyped

LEMMA TypesInitially == Init => TypesInv
<1> SUFFICES ASSUME Init PROVE TypesInv
  OBVIOUS
<1>1. NoRequest \in Requests
  BY ServerAssumption DEF NoRequest
<1>2. <<>> \in Seq(ResourceRef)
  OBVIOUS
<1> QED BY <1>1, <1>2 DEF Init, TypesInv, CallTyped, Places, Working, ProviderIDs

LEMMA TypesNext == TypesInv /\ Base /\ Base' /\ [Next]_vars => TypesInv'
<1> SUFFICES ASSUME TypesInv, Base, Base', [Next]_vars PROVE TypesInv'
  OBVIOUS
<1>1. CASE UNCHANGED vars
  <2>1. UNCHANGED <<pc, req, todo, zid, scan, zoneVars, fieldVars, learntVars>>
    BY <1>1 DEF vars, pagingVars
  <2>2. SharedTyped' /\ imported \subseteq imported' /\ enumerated \subseteq enumerated'
    BY <2>1, SharedKept
  <2>3. \A d \in Callers : CallTyped(d)'
    BY <2>1, <2>2, LearntGrows DEF TypesInv, CallTyped
  <2> QED BY <2>1, <2>2, <2>3 DEF TypesInv, SharedTyped
<1>2. ASSUME NEW c \in Callers, Step(c) PROVE TypesInv'
  BY <1>2, AssignTypes, ResourceDriverTypes, LookupTypes, RecordsTypes, EndTypes
     DEF Step, Base
<1> QED BY <1>1, <1>2, StartTypes, FailTypes, DashboardTypes DEF Next

LEMMA TypesInvariant == Spec => []TypesInv
BY TypesInitially, TypesNext, BaseInvariant, PTL DEF Spec

\* Every variable of the server keeps its kind; a call works on a ref that is
\* there, and on records only while it lists those of its zone.
THEOREM ServerTypeCorrect == Spec => []TypeOK
<1>1. TypesInv /\ Base => TypeOK
  BY DEF TypesInv, CallTyped, Base, PagingInv, ServerInv, TypeOK, Places, Working, Fields
<1> QED BY <1>1, TypesInvariant, BaseInvariant, PTL

-----------------------------------------------------------------------------
(* The drivers a call uses *)

\* No Initialize assigns fields.
Quiet == \A d \in Callers : pc[d] \notin Fields

\* What an Initialize has assigned is there still if it runs alone.
AssignedSoFar(c) ==
    /\ pc[c] # "dnsDriver" => dnsDriver = req[c].config
    /\ pc[c] \in {"redirectDriver", "zones"} => domainDriver = req[c].config
    /\ pc[c] = "zones" => redirectDriver = req[c].config

\* A call that no Initialize overlaps runs while none assigns fields, or is the
\* only one that does.
ConfigOK(c) ==
    /\ pc[c] \in Fields \cup {"ready"} => used[c] = {}
    /\ ~overlap[c] =>
          /\ pc[c] \in Working \cup {"ListZones"} \/ used[c] # {} => Quiet
          /\ pc[c] \in Fields =>
                AssignedSoFar(c) /\ \A d \in Callers \ {c} : pc[d] \notin Fields
          /\ current # Mixed => used[c] \subseteq {current}

FieldsAre(config) ==
    dnsDriver = config /\ domainDriver = config /\ redirectDriver = config /\ zones = config

ConfigInv ==
    /\ DOMAIN overlap = Callers
    /\ Quiet /\ current # Mixed => FieldsAre(current)
    /\ \A c \in Callers : ConfigOK(c)

\* A step of a call that is past its start and assigns nothing.
LEMMA ConfigsWork ==
    ASSUME ConfigInv, ServerInv, NEW c \in Callers,
           UNCHANGED <<fieldVars, current, overlap, req>>,
           pc[c] \in Working \cup {"ListZones"},
           pc'[c] \in Working \cup {"return"},
           \A d \in Callers \ {c} : pc'[d] = pc[d] /\ used'[d] = used[d],
           used'[c] \subseteq used[c] \cup {dnsDriver, domainDriver, redirectDriver}
    PROVE  ConfigInv'
<1>1. pc'[c] \notin Fields \cup {"ready"} /\ pc[c] \notin Fields
  BY DEF Working, Fields
<1>2. Quiet' = Quiet
  BY <1>1 DEF Quiet
<1>3. FieldsAre(current)' = FieldsAre(current)
  BY DEF FieldsAre, fieldVars
<1>4. ASSUME NEW d \in Callers \ {c} PROVE ConfigOK(d)'
  <2>1. AssignedSoFar(d)' = AssignedSoFar(d)
    BY <1>4 DEF AssignedSoFar, fieldVars
  <2>2. ConfigOK(d) /\ pc'[d] = pc[d] /\ used'[d] = used[d]
    BY <1>4 DEF ConfigInv
  <2> QED BY <1>1, <1>2, <2>1, <2>2 DEF ConfigOK
<1>5. ConfigOK(c)'
  <2>1. CASE overlap[c]
    BY <1>1, <2>1 DEF ConfigOK
  <2>2. CASE ~overlap[c]
    <3>1. Quiet /\ (current # Mixed => used[c] \subseteq {current})
      BY <2>2 DEF ConfigInv, ConfigOK
    <3>2. current # Mixed => used'[c] \subseteq {current}
      BY <3>1 DEF ConfigInv, FieldsAre
    <3> QED BY <1>1, <1>2, <3>1, <3>2 DEF ConfigOK
  <2> QED BY <2>1, <2>2
<1> QED BY <1>2, <1>3, <1>4, <1>5 DEF ConfigInv

\* A handler but Initialize starts: it is overlapped if an Initialize is running.
LEMMA ConfigsStart ==
    ASSUME ConfigInv, ServerInv, NEW c \in Callers, pc[c] = "ready",
           UNCHANGED <<fieldVars, current>>, NEW next, pc' = [pc EXCEPT ![c] = next],
           next \in {"return", "ListZones", "resourceDriver"}, NoteOverlap(c),
           \A d \in Callers \ {c} : req'[d] = req[d],
           \/ used' = used
           \/ \E s \in SUBSET {dnsDriver, domainDriver, redirectDriver, zones} :
                 used' = [used EXCEPT ![c] = s]
    PROVE  ConfigInv'
<1>1. /\ pc'[c] = next /\ next \notin Fields \cup {"ready"} /\ pc[c] \notin Fields
      /\ \A d \in Callers \ {c} : pc'[d] = pc[d] /\ used'[d] = used[d]
      /\ used'[c] \subseteq {dnsDriver, domainDriver, redirectDriver, zones}
  <2>1. used[c] = {}
    BY DEF ConfigInv, ConfigOK
  <2>2. next \notin Fields \cup {"ready"} /\ pc[c] \notin Fields
    BY DEF Fields
  <2> QED BY <2>1, <2>2 DEF ServerInv, CallersOK
<1>2. Quiet' = Quiet
  BY <1>1 DEF Quiet
<1>3. FieldsAre(current)' = FieldsAre(current)
  BY DEF FieldsAre, fieldVars
<1>4. /\ DOMAIN overlap' = Callers
      /\ \A d \in Callers \ {c} : overlap'[d] = overlap[d]
      /\ ~overlap'[c] => Quiet
  BY DEF NoteOverlap, ConfigInv, Initializing, Quiet
<1>5. ASSUME NEW d \in Callers \ {c} PROVE ConfigOK(d)'
  <2>1. AssignedSoFar(d)' = AssignedSoFar(d)
    BY <1>1, <1>5 DEF AssignedSoFar, fieldVars
  <2>2. ConfigOK(d) /\ pc'[d] = pc[d] /\ used'[d] = used[d] /\ overlap'[d] = overlap[d]
    BY <1>1, <1>4, <1>5 DEF ConfigInv
  <2> QED BY <1>1, <1>2, <2>1, <2>2 DEF ConfigOK
<1>6. ConfigOK(c)'
  <2>1. CASE overlap'[c]
    BY <1>1, <2>1 DEF ConfigOK
  <2>2. CASE ~overlap'[c]
    <3>1. Quiet /\ (current # Mixed => used'[c] \subseteq {current})
      BY <1>1, <1>4, <2>2 DEF ConfigInv, FieldsAre
    <3> QED BY <1>1, <1>2, <3>1 DEF ConfigOK
  <2> QED BY <2>1, <2>2
<1> QED BY <1>2, <1>3, <1>4, <1>5, <1>6 DEF ConfigInv

\* An Initialize starts: whatever runs now is overlapped from here on.
LEMMA ConfigsInitialize ==
    ASSUME ConfigInv, ServerInv, NEW c \in Callers, NEW r, Initialize(c, r)
    PROVE  ConfigInv'
<1>1. /\ pc[c] = "ready" /\ UNCHANGED <<fieldVars, current, used>>
      /\ req' = [req EXCEPT ![c] = r]
  BY DEF Initialize, Arrive
<1>2. used'[c] = {}
  BY <1>1 DEF ConfigInv, ConfigOK
<1>3. FieldsAre(current)' = FieldsAre(current)
  BY <1>1 DEF FieldsAre, fieldVars
<1>4. CASE r.config \in Configs
  <2>1. /\ pc' = [pc EXCEPT ![c] = "dnsDriver"]
        /\ overlap' = [d \in Callers |-> d # c \/ \E e \in Callers : Initializing(e)]
    BY <1>4 DEF Initialize, Goto
  <2>2. pc'[c] = "dnsDriver" /\ \A d \in Callers \ {c} : pc'[d] = pc[d] /\ overlap'[d]
    BY <2>1 DEF ServerInv, CallersOK
  <2>3. ~Quiet'
    BY <2>2 DEF Quiet, Fields
  <2>4. ASSUME NEW d \in Callers \ {c} PROVE ConfigOK(d)'
    <3>1. ConfigOK(d) /\ used' = used
      BY <1>1, <2>4 DEF ConfigInv
    <3> QED BY <2>2, <3>1 DEF ConfigOK
  <2>5. ~overlap'[c] => \A d \in Callers \ {c} : pc'[d] \notin Fields
    BY <2>1, <2>2 DEF Initializing
  <2>6. ConfigOK(c)'
    BY <1>2, <2>2, <2>5 DEF ConfigOK, AssignedSoFar, Working
  <2> QED BY <2>1, <2>3, <2>4, <2>6 DEF ConfigInv
<1>5. CASE r.config \notin Configs
  <2>1. pc' = [pc EXCEPT ![c] = "return"] /\ overlap' = overlap
    BY <1>5 DEF Initialize, Goto
  <2>2. pc'[c] = "return" /\ \A d \in Callers \ {c} : pc'[d] = pc[d] /\ req'[d] = req[d]
    BY <1>1, <2>1 DEF ServerInv, CallersOK
  <2>3. Quiet' = Quiet
    BY <1>1, <2>2 DEF Quiet, Fields
  <2>4. ASSUME NEW d \in Callers \ {c} PROVE ConfigOK(d)'
    <3>1. AssignedSoFar(d)' = AssignedSoFar(d)
      BY <1>1, <2>2, <2>4 DEF AssignedSoFar, fieldVars
    <3>2. ConfigOK(d) /\ used' = used /\ pc'[c] \notin Fields
      BY <1>1, <2>2, <2>4 DEF ConfigInv, Fields
    <3> QED BY <1>1, <2>1, <2>2, <2>3, <3>1, <3>2 DEF ConfigOK
  <2>5. ConfigOK(c)'
    BY <1>2, <2>2 DEF ConfigOK, Working, Fields
  <2> QED BY <1>1, <1>3, <2>1, <2>3, <2>4, <2>5 DEF ConfigInv
<1> QED BY <1>4, <1>5

\* An Initialize assigns the next field; the last one ends it.
LEMMA ConfigsAssign ==
    ASSUME ConfigInv, ServerInv, NEW c \in Callers,
           SetDNS(c) \/ SetDomain(c) \/ SetRedirect(c) \/ SetZones(c)
    PROVE  ConfigInv'
<1>1. pc[c] \in Fields /\ UNCHANGED <<req, used, overlap>>
  BY DEF SetDNS, SetDomain, SetRedirect, SetZones, Assign, Fields
<1>2. /\ pc' = [pc EXCEPT ![c] = pc'[c]]
      /\ \A d \in Callers \ {c} : pc'[d] = pc[d]
      /\ pc'[c] \in {"domainDriver", "redirectDriver", "zones", "return"}
      /\ pc'[c] = "return" <=> SetZones(c)
      /\ ~SetZones(c) => current' = current
  BY DEF SetDNS, SetDomain, SetRedirect, SetZones, Assign, Goto, ServerInv, CallersOK
<1>3. used[c] = {} /\ ~Quiet
  BY <1>1 DEF ConfigInv, ConfigOK, Quiet
<1>4. ~overlap[c] =>
         /\ \A d \in Callers \ {c} : pc[d] \notin Fields
         /\ AssignedSoFar(c)
  BY <1>1 DEF ConfigInv, ConfigOK
<1>5. ASSUME ~overlap[c], pc'[c] # "return" PROVE AssignedSoFar(c)'
  <2>1. CASE SetDNS(c)
    <3>1. pc'[c] = "domainDriver" /\ dnsDriver' = req[c].config
      BY <2>1 DEF SetDNS, Assign, Goto, ServerInv, CallersOK
    <3> QED BY <1>1, <3>1 DEF AssignedSoFar
  <2>2. CASE SetDomain(c)
    <3>1. /\ pc[c] = "domainDriver" /\ pc'[c] = "redirectDriver"
          /\ dnsDriver' = dnsDriver /\ domainDriver' = req[c].config
      BY <2>2 DEF SetDomain, Assign, Goto, ServerInv, CallersOK
    <3> QED BY <1>1, <1>4, <1>5, <3>1 DEF AssignedSoFar
  <2>3. CASE SetRedirect(c)
    <3>1. /\ pc[c] = "redirectDriver" /\ pc'[c] = "zones"
          /\ UNCHANGED <<dnsDriver, domainDriver>> /\ redirectDriver' = req[c].config
      BY <2>3 DEF SetRedirect, Assign, Goto, ServerInv, CallersOK
    <3> QED BY <1>1, <1>4, <1>5, <3>1 DEF AssignedSoFar
  <2> QED BY <1>2, <1>5, <2>1, <2>2, <2>3
<1>6. ASSUME NEW d \in Callers \ {c} PROVE ConfigOK(d)'
  <2>1. ConfigOK(d) /\ pc'[d] = pc[d]
    BY <1>2, <1>6 DEF ConfigInv
  <2>2. CASE overlap[d]
    BY <1>1, <2>1, <2>2 DEF ConfigOK
  <2>3. CASE ~overlap[d]
    <3>1. used[d] = {} /\ pc[d] \notin Fields \cup Working \cup {"ListZones"}
      BY <1>1, <1>3, <2>1, <2>3 DEF ConfigOK
    <3> QED BY <1>1, <2>1, <3>1 DEF ConfigOK
  <2> QED BY <2>2, <2>3
<1>7. ConfigOK(c)'
  <2>1. pc'[c] \in Fields \cup {"return"} /\ pc'[c] \notin Working \cup {"ListZones", "ready"}
    BY <1>2 DEF Fields, Working
  <2> QED BY <1>1, <1>2, <1>3, <1>4, <1>5, <2>1 DEF ConfigOK, Fields
<1>8. Quiet' /\ current' # Mixed => FieldsAre(current)'
  <2>1. CASE SetZones(c)
    <3>1. /\ pc[c] = "zones" /\ zones' = req[c].config
          /\ current' = IF overlap[c] THEN Mixed ELSE req[c].config
          /\ UNCHANGED <<dnsDriver, domainDriver, redirectDriver>>
      BY <2>1 DEF SetZones, Assign
    <3> QED BY <1>4, <3>1 DEF AssignedSoFar, FieldsAre
  <2>2. CASE ~SetZones(c)
    BY <1>2, <2>2 DEF Quiet, Fields
  <2> QED BY <2>1, <2>2
<1> QED BY <1>1, <1>6, <1>7, <1>8 DEF ConfigInv

LEMMA ConfigsReturn ==
    ASSUME ConfigInv, ServerInv, NEW c \in Callers, Return(c)
    PROVE  ConfigInv'
<1>1. /\ pc[c] = "return" /\ pc' = [pc EXCEPT ![c] = "ready"]
      /\ req' = [req EXCEPT ![c] = NoRequest]
      /\ used' = [used EXCEPT ![c] = {}] /\ overlap' = [overlap EXCEPT ![c] = FALSE]
      /\ UNCHANGED <<fieldVars, current>>
  BY DEF Return, Goto
<1>2. /\ pc'[c] = "ready" /\ used'[c] = {} /\ pc'[c] \notin Fields /\ pc[c] \notin Fields
      /\ DOMAIN overlap' = Callers
      /\ \A d \in Callers \ {c} : /\ pc'[d] = pc[d] /\ used'[d] = used[d]
                                  /\ req'[d] = req[d] /\ overlap'[d] = overlap[d]
  BY <1>1 DEF ServerInv, CallersOK, ConfigInv, Fields
<1>3. Quiet' = Quiet
  BY <1>2 DEF Quiet
<1>4. FieldsAre(current)' = FieldsAre(current)
  BY <1>1 DEF FieldsAre, fieldVars
<1>5. ASSUME NEW d \in Callers \ {c} PROVE ConfigOK(d)'
  <2>1. AssignedSoFar(d)' = AssignedSoFar(d)
    BY <1>1, <1>2, <1>5 DEF AssignedSoFar, fieldVars
  <2>2. ConfigOK(d)
    BY <1>5 DEF ConfigInv
  <2> QED BY <1>1, <1>2, <1>3, <2>1, <2>2 DEF ConfigOK
<1>6. ConfigOK(c)'
  BY <1>2 DEF ConfigOK, Working
<1> QED BY <1>1, <1>2, <1>3, <1>4, <1>5, <1>6 DEF ConfigInv

\* Everything else that a handler does.
LEMMA ConfigsOperations ==
    ASSUME ConfigInv, Base, NEW c \in Callers,
           \/ resourceDriver(c) \/ OtherDriver(c)
           \/ FindZone(c) \/ MissZone(c) \/ MakeZone(c) \/ RemoveZone(c)
           \/ ReadPage(c) \/ WriteRecord(c) \/ MissRecord(c) \/ EndWrites(c)
           \/ ListZones(c) \/ Fail(c)
    PROVE  ConfigInv'
<1> DEFINE drivers == {dnsDriver, domainDriver, redirectDriver}
<1>0. ServerInv
  BY DEF Base
<1>1. /\ pc[c] \in Working \cup {"ListZones"}
      /\ UNCHANGED <<fieldVars, current, overlap, req>>
  BY DEF resourceDriver, OtherDriver, FindZone, MissZone, MakeZone, RemoveZone, ReadPage,
         WriteRecord, MissRecord, EndWrites, ListZones, Fail, historyVars, Working
<1>2. /\ pc'[c] \in Working \cup {"return"}
      /\ \A d \in Callers \ {c} : pc'[d] = pc[d]
  <2>1. \/ UNCHANGED pc /\ pc[c] \in Working
        \/ \E next \in Working \cup {"return"} : pc' = [pc EXCEPT ![c] = next]
    <3>1. \/ \E ok : Finish(c, ok)
          \/ UNCHANGED pc /\ pc[c] \in Working
          \/ \E next \in Working \cup {"return"} : Goto(c, next)
      BY DEF resourceDriver, OtherDriver, FindZone, MissZone, MakeZone, RemoveZone,
             ReadPage, WriteRecord, MissRecord, EndWrites, ListZones, Fail, Working
    <3> QED BY <3>1, FinishGoes DEF Goto, Working
  <2> QED BY <1>0, <2>1 DEF ServerInv, CallersOK
<1>3. \/ used' = used
      \/ \E field \in drivers : used' = [used EXCEPT ![c] = @ \cup {field}]
  <2>1. CASE resourceDriver(c)
    BY <2>1 DEF resourceDriver, Types
  <2> QED BY <2>1 DEF OtherDriver, FindZone, MissZone, MakeZone, RemoveZone, ReadPage,
                      WriteRecord, MissRecord, EndWrites, ListZones, Fail, historyVars
<1>4. /\ used'[c] \subseteq used[c] \cup drivers
      /\ \A d \in Callers \ {c} : used'[d] = used[d]
  BY <1>0, <1>3 DEF ServerInv, CallersOK
<1> QED BY <1>0, <1>1, <1>2, <1>4, ConfigsWork

LEMMA ConfigsNext == ConfigInv /\ Base /\ [Next]_vars => ConfigInv'
<1> SUFFICES ASSUME ConfigInv, Base, [Next]_vars PROVE ConfigInv'
  OBVIOUS
<1>0. ServerInv
  BY DEF Base
<1>1. ASSUME UNCHANGED <<fieldVars, pc, req, current, used, overlap>> PROVE ConfigInv'
  BY <1>1 DEF fieldVars, ConfigInv, Quiet, FieldsAre, ConfigOK, AssignedSoFar
<1>2. ASSUME NEW c \in Callers, NEW r, Start(c, r) PROVE ConfigInv'
  <2>1. CASE Initialize(c, r)
    BY <1>0, <2>1, ConfigsInitialize
  <2>2. CASE ~Initialize(c, r)
    <3>1. /\ pc[c] = "ready" /\ UNCHANGED <<fieldVars, current>>
          /\ req' = [req EXCEPT ![c] = r] /\ NoteOverlap(c)
      BY <1>2, <2>2 DEF Start, Plan, EnumerateAll, StartCall, Arrive
    <3>2. \E next \in {"return", "ListZones", "resourceDriver"} :
             pc' = [pc EXCEPT ![c] = next]
      BY <1>2, <2>2 DEF Start, Plan, EnumerateAll, StartCall, Goto
    <3>3. \/ used' = used
          \/ \E s \in SUBSET {dnsDriver, domainDriver, redirectDriver, zones} :
                used' = [used EXCEPT ![c] = s]
      BY <1>2, <2>2 DEF Start, Plan, EnumerateAll, StartCall
    <3>4. \A d \in Callers \ {c} : req'[d] = req[d]
      BY <1>0, <3>1 DEF ServerInv, CallersOK
    <3> QED BY <1>0, <3>1, <3>2, <3>3, <3>4, ConfigsStart
  <2> QED BY <2>1, <2>2
<1>3. ASSUME NEW c \in Callers, Step(c) \/ Fail(c) PROVE ConfigInv'
  BY <1>0, <1>3, ConfigsAssign, ConfigsReturn, ConfigsOperations DEF Step
<1>4. CASE Dashboard
  BY <1>1, <1>4 DEF Dashboard, historyVars
<1>5. CASE UNCHANGED vars
  BY <1>1, <1>5 DEF vars, historyVars
<1> QED BY <1>2, <1>3, <1>4, <1>5 DEF Next

\* However calls and Initializes run beside each other, a call that no Initialize
\* overlaps has used the drivers of one config, that of the last Initialize that
\* succeeded (OneConfigPerCall).
THEOREM OneConfig == Spec => []OneConfigPerCall
<1>1. Init => ConfigInv
  BY DEF Init, ConfigInv, ConfigOK, Quiet, FieldsAre, Fields, Working
<1>2. ConfigInv => OneConfigPerCall
  BY DEF ConfigInv, ConfigOK, OneConfigPerCall
<1> QED BY <1>1, <1>2, ConfigsNext, BaseInvariant, PTL DEF Spec

-----------------------------------------------------------------------------
(* How often a name is in a sequence *)

\* Where x is in s.
Sites(s, x) == {i \in DOMAIN s : s[i] = x}

LEMMA SitesFinite ==
    ASSUME NEW S, NEW s \in Seq(S), NEW x
    PROVE  IsFiniteSet(Sites(s, x)) /\ Count(s, x) = Cardinality(Sites(s, x)) /\ Count(s, x) \in Nat
<1>1. DOMAIN s = 1..Len(s) /\ Len(s) \in Nat
  OBVIOUS
<1>2. IsFiniteSet(1..Len(s)) /\ Sites(s, x) \subseteq 1..Len(s)
  BY <1>1, FS_Interval DEF Sites
<1>3. IsFiniteSet(Sites(s, x))
  BY <1>2, FS_Subset
<1>4. Count(s, x) = Cardinality(Sites(s, x))
  BY DEF Count, Sites
<1> QED BY <1>3, <1>4, FS_CardinalityType

LEMMA CountAppend ==
    ASSUME NEW S, NEW s \in Seq(S), NEW y \in S, NEW x
    PROVE  Count(Append(s, y), x) = Count(s, x) + (IF x = y THEN 1 ELSE 0)
<1> DEFINE longer == Append(s, y)
           next == Len(s) + 1
<1>1. /\ longer \in Seq(S) /\ DOMAIN longer = DOMAIN s \cup {next} /\ next \notin DOMAIN s
      /\ longer[next] = y /\ \A i \in DOMAIN s : longer[i] = s[i]
  OBVIOUS
<1>2. Sites(longer, x) = Sites(s, x) \cup (IF x = y THEN {next} ELSE {})
  BY <1>1 DEF Sites
<1>3. next \notin Sites(s, x)
  BY <1>1 DEF Sites
<1>4. /\ IsFiniteSet(Sites(s, x)) /\ Count(s, x) = Cardinality(Sites(s, x))
      /\ Count(s, x) \in Nat /\ Count(longer, x) = Cardinality(Sites(longer, x))
  BY <1>1, SitesFinite
<1> HIDE DEF longer, next
<1>5. CASE x = y
  <2>1. Cardinality(Sites(s, x) \cup {next}) = Cardinality(Sites(s, x)) + 1
    BY <1>3, <1>4, FS_AddElement
  <2> QED BY <1>2, <1>4, <1>5, <2>1 DEF longer
<1>6. CASE x # y
  BY <1>2, <1>4, <1>6 DEF longer
<1> QED BY <1>5, <1>6

LEMMA CountTail ==
    ASSUME NEW S, NEW s \in Seq(S), s # <<>>, NEW x
    PROVE  Count(s, x) = Count(Tail(s), x) + (IF x = Head(s) THEN 1 ELSE 0)
<1> DEFINE rest == Tail(s)
           later == Sites(s, x) \ {1}
           shift == [i \in Sites(rest, x) |-> i + 1]
<1>1. /\ rest \in Seq(S) /\ DOMAIN rest = 1..(Len(s) - 1) /\ DOMAIN s = 1..Len(s)
      /\ Len(s) \in Nat \ {0} /\ s[1] = Head(s)
      /\ \A i \in DOMAIN rest : rest[i] = s[i + 1]
  OBVIOUS
<1>2. \A i \in Sites(rest, x) : i \in Nat /\ i + 1 \in later
  BY <1>1 DEF Sites
<1>3. \A j \in later : j \in Nat /\ j - 1 \in Sites(rest, x)
  BY <1>1 DEF Sites
<1> HIDE DEF rest, later
<1>4. shift \in Bijection(Sites(rest, x), later)
  <2>1. shift \in [Sites(rest, x) -> later]
    BY <1>2
  <2>2. \A i, j \in Sites(rest, x) : shift[i] = shift[j] => i = j
    BY <1>2
  <2>3. \A j \in later : \E i \in Sites(rest, x) : shift[i] = j
    <3>1. ASSUME NEW j \in later PROVE shift[j - 1] = j /\ j - 1 \in Sites(rest, x)
      BY <1>3
    <3> QED BY <3>1
  <2> HIDE DEF shift
  <2> QED BY <2>1, <2>2, <2>3 DEF Bijection, Injection, Surjection, IsInjective
<1>5. /\ IsFiniteSet(Sites(rest, x)) /\ Count(rest, x) = Cardinality(Sites(rest, x))
      /\ Count(rest, x) \in Nat /\ Count(s, x) = Cardinality(Sites(s, x))
  BY <1>1, SitesFinite
<1>6. IsFiniteSet(later) /\ Cardinality(later) = Count(rest, x)
  <2>1. ExistsBijection(Sites(rest, x), later)
    BY <1>4 DEF ExistsBijection
  <2> QED BY <1>5, <2>1, FS_Bijection
<1>7. CASE x = Head(s)
  <2>1. Sites(s, x) = later \cup {1} /\ 1 \notin later
    BY <1>1, <1>7 DEF Sites, later
  <2> QED BY <1>5, <1>6, <1>7, <2>1, FS_AddElement DEF rest
<1>8. CASE x # Head(s)
  <2>1. Sites(s, x) = later
    BY <1>1, <1>8 DEF Sites, later
  <2> QED BY <1>5, <1>6, <1>8, <2>1 DEF rest
<1> QED BY <1>7, <1>8

LEMMA CountEmpty == ASSUME NEW x PROVE Count(<<>>, x) = 0
<1>1. {i \in DOMAIN <<>> : <<>>[i] = x} = {}
  OBVIOUS
<1> QED BY <1>1, FS_EmptySet DEF Count

CallNames == Names \cup Labels \cup ZoneIds

LEMMA NamedTyped ==
    ASSUME NEW s \in Seq(ResourceRef)
    PROVE  /\ Named(s) \in Seq(CallNames)
           /\ s # <<>> => /\ Named(s) # <<>> /\ Head(Named(s)) = Head(s).name
                          /\ Named(Tail(s)) = Tail(Named(s))
<1>1. \A ref \in ResourceRef : ref.name \in CallNames
  BY DEF ResourceRef, CallNames
<1>2. Named(s) \in Seq(CallNames) /\ Len(Named(s)) = Len(s)
  <2>1. \A i \in 1..Len(s) : s[i].name \in CallNames
    BY <1>1
  <2>2. DOMAIN s = 1..Len(s) /\ Len(s) \in Nat
    OBVIOUS
  <2>3. Named(s) \in [1..Len(s) -> CallNames]
    BY <2>1, <2>2 DEF Named
  <2> QED BY <2>2, <2>3
<1>3. ASSUME s # <<>>
      PROVE  /\ Named(s) # <<>> /\ Head(Named(s)) = Head(s).name
             /\ Named(Tail(s)) = Tail(Named(s))
  <2>1. Len(s) \in Nat \ {0} /\ Head(s) = s[1] /\ DOMAIN s = 1..Len(s)
    BY <1>3
  <2>2. Tail(s) \in Seq(ResourceRef) /\ Len(Tail(s)) = Len(s) - 1
    BY <1>3
  <2>3. \A i \in 1..(Len(s) - 1) : Tail(s)[i] = s[i + 1]
    BY <1>3
  <2>4. Named(s) # <<>> /\ Head(Named(s)) = Named(s)[1] /\ Named(s)[1] = Head(s).name
    BY <1>2, <2>1 DEF Named
  <2>5. /\ Tail(Named(s)) \in [1..(Len(s) - 1) -> CallNames]
        /\ \A i \in 1..(Len(s) - 1) : Tail(Named(s))[i] = Named(s)[i + 1]
    <3>1. ASSUME NEW t \in Seq(CallNames), t # <<>>
          PROVE  /\ Tail(t) \in Seq(CallNames) /\ Len(Tail(t)) = Len(t) - 1
                 /\ \A i \in 1..(Len(t) - 1) : Tail(t)[i] = t[i + 1]
      BY <3>1
    <3>2. \A u \in Seq(CallNames) : u \in [1..Len(u) -> CallNames]
      OBVIOUS
    <3>3. Tail(Named(s)) \in Seq(CallNames) /\ Len(Tail(Named(s))) = Len(s) - 1
      BY <1>2, <2>4, <3>1
    <3> QED BY <1>2, <2>4, <3>1, <3>2, <3>3
  <2>6. Named(Tail(s)) = [i \in 1..(Len(s) - 1) |-> Tail(s)[i].name]
    BY <2>1, <2>2 DEF Named
  <2>7. \A i \in 1..(Len(s) - 1) : Named(s)[i + 1] = Tail(s)[i].name
    BY <2>1, <2>3 DEF Named
  <2> QED BY <2>4, <2>5, <2>6, <2>7
<1> QED BY <1>2, <1>3

-----------------------------------------------------------------------------
(* What a Destroy answers *)

Answers == [destroyed : Seq(CallNames), errors : Seq(CallNames)]

\* Each ref was answered for once, or is yet to come.
Balanced(c) ==
    \A n \in CallNames :
        Count(answer[c].destroyed, n) + Count(answer[c].errors, n) + Count(Named(todo[c]), n)
            = Count(Named(req[c].refs), n)

\* What was reported was deleted, and the reverse.
Truthful(c) ==
    LET refs == req[c].refs
    IN  /\ \A n \in Range(answer[c].destroyed) :
              \E i \in DOMAIN refs : refs[i].name = n /\ Deleted(c, refs[i])
        /\ \A z \in removed[c] :
              \E i \in DOMAIN refs :
                  refs[i].name \in Range(answer[c].destroyed) /\ refs[i].id \in {z, NoId}

\* A Destroy only deletes: it comes to no place where another operation would go on.
Destroying(c) ==
    /\ pc[c] \in {"return", "resourceDriver", "other", "GetZone", "DeleteZone"}
    /\ pc[c] = "other" => Ref(c).type = "infra.http_redirect"
    /\ pc[c] \in {"GetZone", "DeleteZone"} => Ref(c).type \in {"", "infra.dns"}
    /\ \A i \in DOMAIN todo[c] : \E j \in DOMAIN req[c].refs : todo[c][i] = req[c].refs[j]

DestroyOK(c) ==
    /\ answer[c] \in Answers
    /\ pc[c] = "ready" =>
          answer[c] = NoAnswer /\ removed[c] = {} /\ req[c].op = "Initialize"
    /\ req[c].op = "Destroy" => Destroying(c) /\ Balanced(c) /\ Truthful(c)

DestroyInv ==
    /\ DOMAIN answer = Callers /\ DOMAIN removed = Callers
    /\ \A c \in Callers : DestroyOK(c)

\* A step of c leaves the answers of others alone.
AnswerStep(c) ==
    /\ DOMAIN answer' = Callers /\ DOMAIN removed' = Callers
    /\ \A d \in Callers \ {c} :
          /\ pc'[d] = pc[d] /\ req'[d] = req[d] /\ todo'[d] = todo[d]
          /\ answer'[d] = answer[d] /\ removed'[d] = removed[d]

LEMMA TruthfulSame ==
    ASSUME NEW d, req'[d] = req[d], answer'[d] = answer[d], removed'[d] = removed[d]
    PROVE  Truthful(d)' = Truthful(d)
BY DEF Truthful, Deleted

LEMMA AnswersSame ==
    ASSUME NEW d, DestroyOK(d), pc'[d] = pc[d], req'[d] = req[d], todo'[d] = todo[d],
           answer'[d] = answer[d], removed'[d] = removed[d]
    PROVE  DestroyOK(d)'
<1>1. Destroying(d)' = Destroying(d)
  BY DEF Destroying, Ref
<1>2. Balanced(d)' = Balanced(d)
  BY DEF Balanced
<1>3. Truthful(d)' = Truthful(d)
  BY TruthfulSame
<1> QED BY <1>1, <1>2, <1>3 DEF DestroyOK

LEMMA AnswersOthersKept ==
    ASSUME DestroyInv, NEW c \in Callers, AnswerStep(c), DestroyOK(c)'
    PROVE  DestroyInv'
<1>1. ASSUME NEW d \in Callers \ {c} PROVE DestroyOK(d)'
  BY <1>1, AnswersSame DEF DestroyInv, AnswerStep
<1> QED BY <1>1 DEF DestroyInv, AnswerStep

\* A call of another kind answers as it did when it began.
LEMMA AnswersNoDestroy ==
    ASSUME DestroyInv, NEW c \in Callers, req[c].op # "Destroy",
           UNCHANGED <<req, answer>>, pc'[c] # "ready"
    PROVE  DestroyOK(c)'
BY DEF DestroyInv, DestroyOK

\* A Destroy is done with a ref, and reports it as destroyed if it has deleted it.
LEMMA DestroyFinish ==
    ASSUME DestroyInv, TypesInv, NEW c \in Callers, pc[c] \in Working,
           req[c].op = "Destroy", req' = req, NEW ok \in BOOLEAN, Finish(c, ok),
           NEW ref, ref = Ref(c), ok => Deleted(c, ref)',
           removed[c] \subseteq removed'[c],
           \A z \in removed'[c] \ removed[c] : ok /\ ref.id \in {z, NoId}
    PROVE  DestroyOK(c)'
<1> DEFINE refs == req[c].refs
           old == answer[c]
           new == answer'[c]
<1>1. /\ todo[c] \in Seq(ResourceRef) /\ todo[c] # <<>>
      /\ ref \in ResourceRef /\ ref = Head(todo[c]) /\ ref.name \in CallNames
  BY RefTyped DEF Ref, ResourceRef, CallNames
<1>2. /\ old \in Answers /\ Destroying(c) /\ Balanced(c) /\ Truthful(c)
      /\ DOMAIN answer = Callers
  BY DEF DestroyInv, DestroyOK
<1>3. old.destroyed \in Seq(CallNames) /\ old.errors \in Seq(CallNames)
  BY <1>2 DEF Answers
<1>4. /\ ok => new.destroyed = Append(old.destroyed, ref.name) /\ new.errors = old.errors
      /\ ~ok => new.destroyed = old.destroyed /\ new.errors = Append(old.errors, ref.name)
      /\ new \in Answers
  <2>1. CASE ok
    <3>1. new = [old EXCEPT !.destroyed = Append(@, ref.name)]
      BY <1>2, <2>1 DEF Finish
    <3>2. Append(old.destroyed, ref.name) \in Seq(CallNames)
      BY <1>1, <1>3
    <3> QED BY <1>2, <2>1, <3>1, <3>2 DEF Answers
  <2>2. CASE ~ok
    <3>1. new = [old EXCEPT !.errors = Append(@, ref.name)]
      BY <1>2, <2>2 DEF Finish
    <3>2. Append(old.errors, ref.name) \in Seq(CallNames)
      BY <1>1, <1>3
    <3> QED BY <1>2, <2>2, <3>1, <3>2 DEF Answers
  <2> QED BY <2>1, <2>2
<1>5. todo'[c] = Tail(todo[c]) /\ pc'[c] \in {"return", "resourceDriver"}
  BY FinishTyped
<1>6. PICK j \in DOMAIN refs : refs[j] = ref
  <2>1. 1 \in DOMAIN todo[c] /\ todo[c][1] = ref
    BY <1>1
  <2> QED BY <1>2, <2>1 DEF Destroying
<1>7. Destroying(c)'
  <2>1. ASSUME NEW i \in DOMAIN todo'[c]
        PROVE  \E k \in DOMAIN refs : todo'[c][i] = refs[k]
    <3>1. i + 1 \in DOMAIN todo[c] /\ todo'[c][i] = todo[c][i + 1]
      BY <1>1, <1>5, <2>1
    <3> QED BY <1>2, <3>1 DEF Destroying
  <2> QED BY <1>5, <2>1 DEF Destroying
<1>8. Balanced(c)'
  <2>1. ASSUME NEW n \in CallNames
        PROVE  Count(new.destroyed, n) + Count(new.errors, n) + Count(Named(todo'[c]), n)
                  = Count(Named(refs), n)
    <3> DEFINE one == IF n = ref.name THEN 1 ELSE 0
               D == Count(old.destroyed, n)
               E == Count(old.errors, n)
               T == Count(Named(todo'[c]), n)
    <3>1. Named(todo[c]) \in Seq(CallNames) /\ Named(todo[c]) # <<>>
          /\ Head(Named(todo[c])) = ref.name /\ Named(todo'[c]) = Tail(Named(todo[c]))
      BY <1>1, <1>5, NamedTyped
    <3>2. Tail(Named(todo[c])) \in Seq(CallNames)
      BY <3>1
    <3>3. D \in Nat /\ E \in Nat /\ T \in Nat
      BY <1>3, <3>1, <3>2, SitesFinite
    <3>4. Count(Named(todo[c]), n) = T + one
      BY <3>1, CountTail
    <3>5. D + E + Count(Named(todo[c]), n) = Count(Named(refs), n)
      BY <1>2, <2>1 DEF Balanced
    <3>6. /\ ok => Count(new.destroyed, n) = D + one /\ Count(new.errors, n) = E
          /\ ~ok => Count(new.destroyed, n) = D /\ Count(new.errors, n) = E + one
      <4>1. /\ Count(Append(old.destroyed, ref.name), n) = D + one
            /\ Count(Append(old.errors, ref.name), n) = E + one
        BY <1>1, <1>3, CountAppend
      <4> QED BY <1>4, <4>1
    <3>7. Count(Named(todo'[c]), n) = T /\ one \in Nat /\ ok \in BOOLEAN
      OBVIOUS
    <3> HIDE DEF D, E, T, one
    <3> QED BY <3>3, <3>4, <3>5, <3>6, <3>7
  <2> QED BY <2>1 DEF Balanced
<1>9. Truthful(c)'
  <2>1. /\ Range(old.destroyed) \subseteq Range(new.destroyed)
        /\ Range(new.destroyed) \subseteq Range(old.destroyed) \cup (IF ok THEN {ref.name} ELSE {})
        /\ ok => ref.name \in Range(new.destroyed)
    <3>1. \A s \in Seq(CallNames) : \A n \in CallNames :
             Range(Append(s, n)) = Range(s) \cup {n}
      <4>1. ASSUME NEW s \in Seq(CallNames), NEW n \in CallNames
            PROVE  Range(Append(s, n)) = Range(s) \cup {n}
        <5>1. /\ DOMAIN Append(s, n) = DOMAIN s \cup {Len(s) + 1}
              /\ Append(s, n)[Len(s) + 1] = n
              /\ \A i \in DOMAIN s : Append(s, n)[i] = s[i]
          OBVIOUS
        <5> QED BY <5>1 DEF Range
      <4> QED BY <4>1
    <3> QED BY <1>1, <1>3, <1>4, <3>1
  <2>2. \A r : Deleted(c, r) => Deleted(c, r)'
    BY DEF Deleted
  <2>3. ASSUME NEW n \in Range(new.destroyed)
        PROVE  \E i \in DOMAIN refs : refs[i].name = n /\ Deleted(c, refs[i])'
    <3>1. CASE n \in Range(old.destroyed)
      BY <1>2, <2>2, <3>1 DEF Truthful
    <3>2. CASE n \notin Range(old.destroyed)
      BY <1>6, <2>1, <2>3, <3>2
    <3> QED BY <3>1, <3>2
  <2>4. ASSUME NEW z \in removed'[c]
        PROVE  \E i \in DOMAIN refs :
                  refs[i].name \in Range(new.destroyed) /\ refs[i].id \in {z, NoId}
    <3>1. CASE z \in removed[c]
      BY <1>2, <2>1, <3>1 DEF Truthful
    <3>2. CASE z \notin removed[c]
      BY <1>6, <2>1, <2>4, <3>2
    <3> QED BY <3>1, <3>2
  <2> QED BY <2>3, <2>4 DEF Truthful
<1> QED BY <1>4, <1>5, <1>7, <1>8, <1>9 DEF DestroyOK

\* An operation that ends, of a Destroy or of another call.
LEMMA FinishAnswers ==
    ASSUME DestroyInv, TypesInv, NEW c \in Callers, pc[c] \in Working,
           req' = req, NEW ok \in BOOLEAN, Finish(c, ok), NEW ref, ref = Ref(c),
           \/ /\ removed' = removed
              /\ req[c].op = "Destroy" /\ ok => ref.type = "infra.http_redirect"
           \/ \E z : /\ removed' = [removed EXCEPT ![c] = @ \cup {z}] /\ ok
                     /\ req[c].op = "Destroy" =>
                           /\ ref.type \in {"", "infra.dns"}
                           /\ ref.id = z \/ (ref.id = NoId /\ ZoneName[z] = ref.name)
    PROVE  DestroyInv'
<1>1. AnswerStep(c) /\ pc'[c] # "ready"
  BY FinishTyped DEF AnswerStep, DestroyInv, Finish
<1>2. CASE req[c].op # "Destroy"
  <2>1. UNCHANGED answer
    BY <1>2 DEF Finish
  <2> QED BY <1>1, <1>2, <2>1, AnswersNoDestroy, AnswersOthersKept
<1>3. CASE req[c].op = "Destroy"
  <2>1. CASE removed' = removed
    <3>1. ok => Deleted(c, ref)'
      <4>1. CASE ref.type = "infra.http_redirect"
        BY <4>1 DEF Deleted
      <4>2. CASE ref.type # "infra.http_redirect"
        <5>1. ASSUME ok PROVE Deleted(c, ref)'
          <6>1. PICK z : /\ removed' = [removed EXCEPT ![c] = @ \cup {z}]
                         /\ ref.type \in {"", "infra.dns"}
                         /\ ref.id = z \/ (ref.id = NoId /\ ZoneName[z] = ref.name)
            BY <1>3, <4>2, <5>1
          <6>2. z \in removed'[c]
            BY <6>1 DEF DestroyInv
          <6> QED BY <6>1, <6>2 DEF Deleted
        <5> QED BY <5>1
      <4> QED BY <4>1, <4>2
    <3>2. removed'[c] = removed[c]
      BY <2>1
    <3> QED BY <1>1, <1>3, <3>1, <3>2, DestroyFinish, AnswersOthersKept
  <2>2. CASE removed' # removed
    <3>1. PICK z : /\ removed' = [removed EXCEPT ![c] = @ \cup {z}] /\ ok
                   /\ ref.type \in {"", "infra.dns"}
                   /\ ref.id = z \/ (ref.id = NoId /\ ZoneName[z] = ref.name)
      BY <1>3, <2>2
    <3>2. removed'[c] = removed[c] \cup {z}
      BY <3>1 DEF DestroyInv
    <3>3. Deleted(c, ref)'
      BY <3>1, <3>2 DEF Deleted
    <3>4. \A x \in removed'[c] \ removed[c] : ok /\ ref.id \in {x, NoId}
      BY <3>1, <3>2
    <3> QED BY <1>1, <1>3, <3>2, <3>3, <3>4, DestroyFinish, AnswersOthersKept
  <2> QED BY <2>1, <2>2
<1> QED BY <1>2, <1>3

\* An operation that goes on; for a Destroy only to where a ref's type leads.
LEMMA MoveAnswers ==
    ASSUME DestroyInv, TypesInv, NEW c \in Callers, UNCHANGED <<req, todo, answer, removed>>,
           pc'[c] # "ready", \A d \in Callers \ {c} : pc'[d] = pc[d],
           req[c].op = "Destroy" =>
              \/ pc'[c] = "other" /\ Ref(c).type = "infra.http_redirect"
              \/ pc'[c] \in {"GetZone", "DeleteZone"} /\ Ref(c).type \in {"", "infra.dns"}
    PROVE  DestroyInv'
<1>1. AnswerStep(c)
  BY DEF AnswerStep, DestroyInv
<1>2. CASE req[c].op # "Destroy"
  BY <1>1, <1>2, AnswersNoDestroy, AnswersOthersKept
<1>3. CASE req[c].op = "Destroy"
  <2>1. answer[c] \in Answers /\ Destroying(c) /\ Balanced(c) /\ Truthful(c)
    BY <1>3 DEF DestroyInv, DestroyOK
  <2>2. Destroying(c)'
    <3>1. Ref(c)' = Ref(c)
      BY DEF Ref
    <3> QED BY <1>3, <2>1, <3>1 DEF Destroying
  <2>3. Balanced(c)' /\ Truthful(c)'
    <3>1. Balanced(c)' = Balanced(c)
      BY DEF Balanced
    <3>2. Truthful(c)' = Truthful(c)
      BY TruthfulSame
    <3> QED BY <2>1, <3>1, <3>2
  <2>4. DestroyOK(c)'
    BY <2>1, <2>2, <2>3 DEF DestroyOK
  <2> QED BY <1>1, <2>4, AnswersOthersKept
<1> QED BY <1>2, <1>3

LEMMA DestroyDeletes ==
    ASSUME NEW c, req[c].op = "Destroy" PROVE Op(c) = "Delete"
BY DEF Op

LEMMA StartAnswers ==
    ASSUME DestroyInv, TypesInv, NEW c \in Callers, NEW r \in Requests \cup Learnt,
           Start(c, r)
    PROVE  DestroyInv'
<1>1. /\ pc[c] = "ready" /\ req' = [req EXCEPT ![c] = r]
      /\ todo' = [todo EXCEPT ![c] = r.refs] /\ UNCHANGED <<answer, removed>>
  BY DEF Start, Initialize, Plan, EnumerateAll, StartCall, Arrive
<1>2. \E next \in {"dnsDriver", "return", "ListZones", "resourceDriver"} :
         /\ pc' = [pc EXCEPT ![c] = next]
         /\ r.op = "Destroy" => next \in {"return", "resourceDriver"}
  BY DEF Start, Initialize, Plan, EnumerateAll, StartCall, Goto
<1>3. /\ AnswerStep(c) /\ req'[c] = r /\ todo'[c] = r.refs /\ pc'[c] # "ready"
      /\ r.op = "Destroy" => pc'[c] \in {"return", "resourceDriver"}
  BY <1>1, <1>2 DEF TypesInv, DestroyInv, AnswerStep
<1>4. answer'[c] = NoAnswer /\ removed'[c] = {} /\ answer[c] \in Answers
  BY <1>1 DEF DestroyInv, DestroyOK
<1>5. Named(r.refs) \in Seq(CallNames)
  BY LearntTyped, NamedTyped DEF TypesInv, SharedTyped
<1>6. Balanced(c)'
  <2>1. ASSUME NEW n \in CallNames
        PROVE  Count(<<>>, n) + Count(<<>>, n) + Count(Named(r.refs), n)
                  = Count(Named(r.refs), n)
    BY <1>5, CountEmpty, SitesFinite
  <2> QED BY <1>3, <1>4, <2>1 DEF Balanced, NoAnswer
<1>7. Truthful(c)'
  BY <1>4 DEF Truthful, NoAnswer, Range
<1>8. r.op = "Destroy" => Destroying(c)'
  BY <1>3 DEF Destroying
<1>9. DestroyOK(c)'
  BY <1>1, <1>3, <1>4, <1>6, <1>7, <1>8 DEF DestroyOK
<1> QED BY <1>3, <1>9, AnswersOthersKept

LEMMA ResourceDriverAnswers ==
    ASSUME DestroyInv, TypesInv, NEW c \in Callers, resourceDriver(c)
    PROVE  DestroyInv'
<1> DEFINE type == Ref(c).type
           byId == type \in {"", "infra.dns"} /\ Op(c) = "Delete" /\ Ref(c).id # NoId
<1>1. UNCHANGED <<req, removed>> /\ pc[c] \in Working
  BY DEF resourceDriver, Working
<1>2. \/ Finish(c, FALSE)
      \/ Finish(c, Op(c) = "Diff")
      \/ /\ ~CallsNoAPI(c) /\ type \in Types /\ Stay
         /\ Goto(c, IF byId THEN "DeleteZone"
                    ELSE IF type \in {"", "infra.dns"} THEN "GetZone" ELSE "other")
  BY DEF resourceDriver
<1>3. ASSUME Finish(c, FALSE) PROVE DestroyInv'
  BY <1>1, <1>3, FinishAnswers
<1>4. ASSUME Finish(c, Op(c) = "Diff") PROVE DestroyInv'
  <2>1. (Op(c) = "Diff") \in BOOLEAN
    OBVIOUS
  <2>2. req[c].op = "Destroy" => Op(c) # "Diff"
    BY DestroyDeletes
  <2> QED BY <1>1, <1>4, <2>1, <2>2, FinishAnswers
<1>5. ASSUME ~CallsNoAPI(c), type \in Types, Stay,
             Goto(c, IF byId THEN "DeleteZone"
                     ELSE IF type \in {"", "infra.dns"} THEN "GetZone" ELSE "other")
      PROVE  DestroyInv'
  <2>1. req[c].op = "Destroy" => type # "infra.domain"
    BY <1>5, DestroyDeletes DEF CallsNoAPI
  <2>2. /\ pc'[c] = IF byId THEN "DeleteZone"
                    ELSE IF type \in {"", "infra.dns"} THEN "GetZone" ELSE "other"
        /\ \A d \in Callers \ {c} : pc'[d] = pc[d]
    BY <1>5 DEF Goto, TypesInv
  <2>3. req[c].op = "Destroy" =>
           \/ pc'[c] = "other" /\ type = "infra.http_redirect"
           \/ pc'[c] \in {"GetZone", "DeleteZone"} /\ type \in {"", "infra.dns"}
    BY <1>5, <2>1, <2>2 DEF Types
  <2>4. pc'[c] # "ready" /\ UNCHANGED <<req, todo, answer, removed>>
    BY <1>1, <1>5, <2>2 DEF Stay
  <2> QED BY <2>2, <2>3, <2>4, MoveAnswers
<1> QED BY <1>2, <1>3, <1>4, <1>5

\* The operations that look for a zone, make one or delete one.
LEMMA LookupAnswers ==
    ASSUME DestroyInv, TypesInv, Base, NEW c \in Callers,
           OtherDriver(c) \/ FindZone(c) \/ MissZone(c) \/ MakeZone(c) \/ RemoveZone(c)
    PROVE  DestroyInv'
<1>1. req' = req /\ pc[c] \in Working /\ DestroyOK(c) /\ ZoneOK(c)
  BY DEF OtherDriver, FindZone, MissZone, MakeZone, RemoveZone, Working, DestroyInv, Base,
         ZonesInv
<1>2. req[c].op = "Destroy" => Destroying(c) /\ Op(c) = "Delete"
  BY <1>1, DestroyDeletes DEF DestroyOK
<1>3. ASSUME removed' = removed, NEW ok \in BOOLEAN, Finish(c, ok),
             req[c].op = "Destroy" => ~ok \/ Ref(c).type = "infra.http_redirect"
      PROVE  DestroyInv'
  BY <1>1, <1>3, FinishAnswers
<1>4. ASSUME UNCHANGED <<todo, answer, removed>>, NEW next \in Working,
             pc' = [pc EXCEPT ![c] = next],
             req[c].op = "Destroy" => next = "DeleteZone" /\ Ref(c).type \in {"", "infra.dns"}
      PROVE  DestroyInv'
  <2>1. /\ pc'[c] = next /\ \A d \in Callers \ {c} : pc'[d] = pc[d]
        /\ next # "ready"
    BY <1>4 DEF TypesInv, Working
  <2> QED BY <1>1, <1>4, <2>1, MoveAnswers
<1>5. CASE OtherDriver(c)
  <2>1. PICK ok \in BOOLEAN : Finish(c, ok)
    BY <1>5 DEF OtherDriver
  <2>2. removed' = removed /\ pc[c] = "other"
    BY <1>5 DEF OtherDriver, historyVars
  <2> QED BY <1>2, <1>3, <2>1, <2>2 DEF Destroying
<1>6. CASE FindZone(c)
  <2>1. removed' = removed /\ pc[c] = "GetZone"
    BY <1>6 DEF FindZone, historyVars
  <2>2. \/ Op(c) = "HealthCheck" /\ Finish(c, TRUE)
        \/ Finish(c, FALSE)
        \/ Op(c) = "Delete" /\ pc' = [pc EXCEPT ![c] = "DeleteZone"] /\ Stay
        \/ /\ Op(c) # "Delete" /\ Stay
           /\ \E next \in {"applyRecords", "readOutput"} : pc' = [pc EXCEPT ![c] = next]
    BY <1>6 DEF FindZone, Goto
  <2>3. ASSUME Op(c) = "HealthCheck", Finish(c, TRUE) PROVE DestroyInv'
    BY <1>2, <1>3, <2>1, <2>3
  <2>4. ASSUME Finish(c, FALSE) PROVE DestroyInv'
    BY <1>3, <2>1, <2>4
  <2>5. ASSUME Op(c) = "Delete", pc' = [pc EXCEPT ![c] = "DeleteZone"], Stay
        PROVE  DestroyInv'
    BY <1>2, <1>4, <2>1, <2>5 DEF Stay, Working, Destroying
  <2>6. ASSUME Op(c) # "Delete", Stay, NEW next \in {"applyRecords", "readOutput"},
               pc' = [pc EXCEPT ![c] = next]
        PROVE  DestroyInv'
    BY <1>2, <1>4, <2>1, <2>6 DEF Stay, Working
  <2> QED BY <2>2, <2>3, <2>4, <2>5, <2>6
<1>7. CASE MissZone(c)
  <2>1. removed' = removed
    BY <1>7 DEF MissZone, historyVars
  <2>2. \/ Op(c) = "Create" /\ pc' = [pc EXCEPT ![c] = "CreateZone"] /\ Stay
        \/ Finish(c, Op(c) = "HealthCheck")
    BY <1>7 DEF MissZone, Goto
  <2>3. (Op(c) = "HealthCheck") \in BOOLEAN
    OBVIOUS
  <2>4. ASSUME Op(c) = "Create", pc' = [pc EXCEPT ![c] = "CreateZone"], Stay
        PROVE  DestroyInv'
    BY <1>2, <1>4, <2>1, <2>4 DEF Stay, Working
  <2>5. ASSUME Finish(c, Op(c) = "HealthCheck") PROVE DestroyInv'
    BY <1>2, <1>3, <2>1, <2>3, <2>5
  <2> QED BY <2>2, <2>4, <2>5
<1>8. CASE MakeZone(c)
  <2>1. removed' = removed /\ pc[c] = "CreateZone"
    BY <1>8 DEF MakeZone, historyVars
  <2>2. Finish(c, FALSE) \/ (pc' = [pc EXCEPT ![c] = "applyRecords"] /\ Stay)
    BY <1>8 DEF MakeZone, Goto
  <2>3. req[c].op # "Destroy"
    BY <1>1, <1>2, <2>1 DEF ZoneOK
  <2>4. ASSUME Finish(c, FALSE) PROVE DestroyInv'
    BY <1>3, <2>1, <2>4
  <2>5. ASSUME pc' = [pc EXCEPT ![c] = "applyRecords"], Stay PROVE DestroyInv'
    BY <1>4, <2>1, <2>3, <2>5 DEF Stay, Working
  <2> QED BY <2>2, <2>4, <2>5
<1>9. CASE RemoveZone(c)
  <2>1. pc[c] = "DeleteZone"
    BY <1>9 DEF RemoveZone
  <2>2. CASE zid[c] \in held
    <3>1. removed' = [removed EXCEPT ![c] = @ \cup {zid[c]}] /\ Finish(c, TRUE)
      BY <1>9, <2>2 DEF RemoveZone
    <3>2. req[c].op = "Destroy" => Ref(c).type \in {"", "infra.dns"}
      BY <1>2, <2>1 DEF Destroying
    <3>3. Ref(c).id = zid[c] \/ (Ref(c).id = NoId /\ ZoneName[zid[c]] = Ref(c).name)
      BY <1>1, <2>1 DEF ZoneOK
    <3> QED BY <1>1, <3>1, <3>2, <3>3, FinishAnswers
  <2>3. CASE zid[c] \notin held
    BY <1>3, <1>9, <2>3 DEF RemoveZone
  <2> QED BY <2>2, <2>3
<1> QED BY <1>5, <1>6, <1>7, <1>8, <1>9

\* Where a Destroy never is.
LEMMA OtherAnswers ==
    ASSUME DestroyInv, TypesInv, NEW c \in Callers,
           \/ SetDNS(c) \/ SetDomain(c) \/ SetRedirect(c) \/ SetZones(c)
           \/ ReadPage(c) \/ WriteRecord(c) \/ MissRecord(c) \/ EndWrites(c)
           \/ ListZones(c)
    PROVE  DestroyInv'
<1>1. UNCHANGED <<req, removed>>
  BY DEF SetDNS, SetDomain, SetRedirect, SetZones, Assign, ReadPage, WriteRecord,
         MissRecord, EndWrites, ListZones, historyVars
<1>2. req[c].op # "Destroy"
  <2>1. pc[c] \in Fields \cup {"applyRecords", "writeRecords", "readOutput", "ListZones"}
    BY DEF SetDNS, SetDomain, SetRedirect, SetZones, Assign, ReadPage, WriteRecord,
           MissRecord, EndWrites, ListZones, Fields
  <2> QED BY <2>1 DEF DestroyInv, DestroyOK, Destroying, Fields
<1>3. \/ \E ok \in BOOLEAN : Finish(c, ok) /\ pc[c] \in Working
      \/ /\ UNCHANGED <<todo, answer>>
         /\ \/ UNCHANGED pc /\ pc[c] # "ready"
            \/ \E next \in Fields \cup Working \cup {"return"} :
                  pc' = [pc EXCEPT ![c] = next]
  BY DEF SetDNS, SetDomain, SetRedirect, SetZones, Assign, ReadPage, WriteRecord,
         MissRecord, EndWrites, ListZones, Goto, Stay, Fields, Working
<1>4. ASSUME NEW ok \in BOOLEAN, Finish(c, ok), pc[c] \in Working PROVE DestroyInv'
  BY <1>1, <1>2, <1>4, FinishAnswers
<1>5. ASSUME UNCHANGED <<todo, answer, pc>>, pc[c] # "ready" PROVE DestroyInv'
  BY <1>1, <1>2, <1>5, MoveAnswers
<1>6. ASSUME UNCHANGED <<todo, answer>>, NEW next \in Fields \cup Working \cup {"return"},
             pc' = [pc EXCEPT ![c] = next]
      PROVE  DestroyInv'
  <2>1. pc'[c] # "ready" /\ \A d \in Callers \ {c} : pc'[d] = pc[d]
    BY <1>6 DEF TypesInv, Fields, Working
  <2> QED BY <1>1, <1>2, <1>6, <2>1, MoveAnswers
<1> QED BY <1>3, <1>4, <1>5, <1>6

LEMMA ReturnAnswers ==
    ASSUME DestroyInv, TypesInv, Base, NEW c \in Callers, Return(c)
    PROVE  DestroyInv'
<1>1. /\ pc' = [pc EXCEPT ![c] = "ready"] /\ req' = [req EXCEPT ![c] = NoRequest]
      /\ todo' = [todo EXCEPT ![c] = <<>>] /\ answer' = [answer EXCEPT ![c] = NoAnswer]
      /\ removed' = [removed EXCEPT ![c] = {}]
  BY DEF Return, Goto
<1>2. /\ AnswerStep(c) /\ req'[c] = NoRequest /\ answer'[c] = NoAnswer /\ removed'[c] = {}
  BY <1>1 DEF AnswerStep, TypesInv, DestroyInv
<1>3. NoRequest.op = "Initialize"
  BY ServerAssumption DEF NoRequest
<1>4. NoAnswer \in Answers
  BY DEF NoAnswer, Answers
<1>5. DestroyOK(c)'
  BY <1>2, <1>3, <1>4 DEF DestroyOK
<1> QED BY <1>2, <1>5, AnswersOthersKept

LEMMA FailAnswers ==
    ASSUME DestroyInv, TypesInv, NEW c \in Callers, Fail(c)
    PROVE  DestroyInv'
<1>1. UNCHANGED <<req, removed>> /\ pc[c] \in Working \cup {"ListZones"}
  BY DEF Fail, historyVars, Working
<1>2. req[c].op = "Destroy" => Op(c) = "Delete" /\ pc[c] # "ListZones"
  BY DestroyDeletes DEF DestroyInv, DestroyOK, Destroying
<1>3. \/ pc[c] = "ListZones" /\ pc' = [pc EXCEPT ![c] = "return"] /\ Stay
      \/ Finish(c, pc[c] = "GetZone" /\ Op(c) = "HealthCheck") /\ pc[c] # "ListZones"
      \/ Op(c) = "Create" /\ pc' = [pc EXCEPT ![c] = "CreateZone"] /\ Stay
  BY DEF Fail, Goto
<1>4. ASSUME Finish(c, pc[c] = "GetZone" /\ Op(c) = "HealthCheck"), pc[c] # "ListZones"
      PROVE  DestroyInv'
  <2>1. (pc[c] = "GetZone" /\ Op(c) = "HealthCheck") \in BOOLEAN
    OBVIOUS
  <2> QED BY <1>1, <1>2, <1>4, <2>1, FinishAnswers
<1>5. ASSUME Stay, req[c].op # "Destroy", NEW next \in {"return", "CreateZone"},
             pc' = [pc EXCEPT ![c] = next]
      PROVE  DestroyInv'
  <2>1. pc'[c] # "ready" /\ \A d \in Callers \ {c} : pc'[d] = pc[d]
    BY <1>5 DEF TypesInv
  <2> QED BY <1>1, <1>5, <2>1, MoveAnswers DEF Stay
<1> QED BY <1>2, <1>3, <1>4, <1>5

LEMMA DestroyNext == DestroyInv /\ TypesInv /\ Base /\ [Next]_vars => DestroyInv'
<1> SUFFICES ASSUME DestroyInv, TypesInv, Base, [Next]_vars PROVE DestroyInv'
  OBVIOUS
<1>1. ASSUME UNCHANGED <<pc, req, todo, answer, removed>> PROVE DestroyInv'
  <2>1. \A d \in Callers : DestroyOK(d)'
    BY <1>1, AnswersSame DEF DestroyInv
  <2> QED BY <1>1, <2>1 DEF DestroyInv
<1>2. ASSUME NEW c \in Callers, Step(c) PROVE DestroyInv'
  BY <1>2, ResourceDriverAnswers, LookupAnswers, OtherAnswers, ReturnAnswers DEF Step
<1>3. Dashboard \/ UNCHANGED vars => UNCHANGED <<pc, req, todo, answer, removed>>
  BY DEF Dashboard, vars, historyVars
<1> QED BY <1>1, <1>2, <1>3, StartAnswers, FailAnswers DEF Next

LEMMA DestroyInvariant == Spec => []DestroyInv
<1>1. Init => DestroyInv
  <2>1. NoRequest.op = "Initialize"
    BY ServerAssumption DEF NoRequest
  <2>2. NoAnswer \in Answers
    BY DEF NoAnswer, Answers
  <2> QED BY <2>1, <2>2 DEF Init, DestroyInv, DestroyOK
<1> QED BY <1>1, DestroyNext, TypesInvariant, BaseInvariant, PTL DEF Spec

\* Whatever fails and whatever else runs, Destroy answers for each ref once, reports
\* as destroyed what it has deleted, and nothing else (DestroyAccounts).
THEOREM DestroyAnswers == Spec => []DestroyAccounts
<1>1. ASSUME DestroyInv, NEW c \in Callers, Destroyed(c)
      PROVE  /\ Truthful(c)
             /\ \A n \in CallNames :
                   Count(answer[c].destroyed, n) + Count(answer[c].errors, n)
                      = Count(Named(req[c].refs), n)
  <2>1. answer[c] \in Answers /\ Balanced(c) /\ Truthful(c) /\ todo[c] = <<>>
    BY <1>1 DEF DestroyInv, DestroyOK, Destroyed
  <2>2. Named(<<>>) = <<>>
    BY DEF Named
  <2>3. ASSUME NEW n \in CallNames
        PROVE  Count(answer[c].destroyed, n) + Count(answer[c].errors, n)
                  = Count(Named(req[c].refs), n)
    <3>1. Count(answer[c].destroyed, n) \in Nat /\ Count(answer[c].errors, n) \in Nat
      BY <2>1, SitesFinite DEF Answers
    <3>2. Count(Named(todo[c]), n) = 0
      BY <2>1, <2>2, CountEmpty
    <3>3. Count(answer[c].destroyed, n) + Count(answer[c].errors, n)
             + Count(Named(todo[c]), n) = Count(Named(req[c].refs), n)
      BY <2>1 DEF Balanced
    <3> QED BY <3>1, <3>2, <3>3
  <2> QED BY <2>1, <2>3
<1>2. DestroyInv => DestroyAccounts
  BY <1>1 DEF DestroyAccounts, Truthful, CallNames
<1> QED BY <1>2, DestroyInvariant, PTL

-----------------------------------------------------------------------------
(* What can be done with zones that were enumerated or imported *)

\* An import stands for a zone that was there, with the config of its domain.
ImportOK(state) ==
    /\ state.ref.type = "infra.dns"
    /\ state.ref.id \in held \cup gone
    /\ state.spec.domain = ZoneName[state.ref.id]

LearntInv ==
    /\ upsets \in Nat
    /\ \A state \in imported : ImportOK(state)
    /\ \A c \in Callers : pc[c] = "DeleteZone" => Op(c) = "Delete"

\* A zone that was is held or gone.
LEMMA ZonesStay ==
    ASSUME [Next]_vars
    PROVE  held \cup gone \subseteq held' \cup gone'
<1>1. ASSUME UNCHANGED zoneVars PROVE held \cup gone \subseteq held' \cup gone'
  BY <1>1 DEF zoneVars
<1>2. ASSUME NEW z, DeleteZone(z) PROVE held \cup gone \subseteq held' \cup gone'
  BY <1>2 DEF DeleteZone
<1>3. ASSUME NEW c \in Callers, NEW r, Start(c, r) PROVE UNCHANGED zoneVars
  BY <1>3 DEF Start, Initialize, Plan, EnumerateAll, StartCall, Arrive, serviceVars, zoneVars
<1>4. ASSUME NEW c \in Callers, Step(c) PROVE held \cup gone \subseteq held' \cup gone'
  <2>1. CASE MakeZone(c)
    BY <2>1 DEF MakeZone, serviceVars, zoneVars
  <2>2. CASE RemoveZone(c)
    BY <1>1, <1>2, <2>2 DEF RemoveZone
  <2>3. CASE ~(MakeZone(c) \/ RemoveZone(c))
    <3>1. UNCHANGED zoneVars
      BY <1>4, <2>3 DEF Step, SetDNS, SetDomain, SetRedirect, SetZones, Assign,
         resourceDriver, OtherDriver, FindZone, MissZone, ReadPage, WriteRecord, MissRecord,
         EndWrites, ListZones, Return, serviceVars, zoneVars
    <3> QED BY <1>1, <3>1
  <2> QED BY <2>1, <2>2, <2>3
<1>5. ASSUME NEW c \in Callers, Fail(c) PROVE held \cup gone \subseteq held' \cup gone'
  BY <1>5 DEF Fail, DeleteZone, zoneVars
<1>6. CASE Dashboard
  BY <1>1, <1>2, <1>6 DEF Dashboard
<1>7. CASE UNCHANGED vars
  BY <1>1, <1>7 DEF vars
<1> QED BY <1>1, <1>3, <1>4, <1>5, <1>6, <1>7 DEF Next

\* What is imported is the zone whose records were listed last.
LEMMA ImportsGrow ==
    ASSUME LearntInv, TypesInv, Base, [Next]_vars
    PROVE  \A state \in imported' : ImportOK(state)'
<1>1. ASSUME NEW state \in imported PROVE ImportOK(state)'
  BY <1>1, ZonesStay DEF LearntInv, ImportOK
<1>2. \/ imported' = imported
      \/ \E c \in Callers : /\ zid[c] \in held /\ held' = held
                            /\ imported' = imported \cup {ImportedState(c)}
  <2>1. ASSUME NEW c \in Callers, NEW r, Start(c, r) PROVE imported' = imported
    BY <2>1 DEF Start, Initialize, Plan, EnumerateAll, StartCall, Arrive, learntVars
  <2>2. ASSUME NEW c \in Callers, Step(c), ~ReadPage(c) PROVE imported' = imported
    BY <2>2 DEF Step, SetDNS, SetDomain, SetRedirect, SetZones, Assign, resourceDriver,
       OtherDriver, FindZone, MissZone, MakeZone, RemoveZone, WriteRecord, MissRecord,
       EndWrites, ListZones, Return, learntVars
  <2>3. ASSUME NEW c \in Callers, ReadPage(c)
        PROVE  \/ imported' = imported
               \/ /\ zid[c] \in held /\ held' = held
                  /\ imported' = imported \cup {ImportedState(c)}
    BY <2>3 DEF ReadPage, zoneVars
  <2>4. ASSUME NEW c \in Callers, Fail(c) PROVE imported' = imported
    BY <2>4 DEF Fail, learntVars
  <2>5. Dashboard \/ UNCHANGED vars => imported' = imported
    BY DEF Dashboard, vars, learntVars
  <2> QED BY <2>1, <2>2, <2>3, <2>4, <2>5 DEF Next
<1>3. ASSUME NEW c \in Callers, zid[c] \in held, held' = held,
             NEW state, state = ImportedState(c)
      PROVE  ImportOK(state)'
  <2>1. /\ state.ref.type = "infra.dns" /\ state.ref.id = zid[c]
        /\ state.spec.domain = ZoneName[zid[c]]
    BY <1>3 DEF ImportedState, ImportedRef, importedAppliedConfig
  <2> QED BY <1>3, <2>1 DEF ImportOK
<1>4. ASSUME NEW state \in imported', state \notin imported PROVE ImportOK(state)'
  BY <1>2, <1>3, <1>4
<1> QED BY <1>1, <1>4

LEMMA LearntNext ==
    ASSUME LearntInv, TypesInv, Base, [Next]_vars
    PROVE  LearntInv'
<1>1. upsets' \in Nat
  <2>1. ASSUME NEW c \in Callers, NEW r, Start(c, r) PROVE upsets' = upsets
    BY <2>1 DEF Start, Initialize, Plan, EnumerateAll, StartCall, Arrive
  <2>2. ASSUME NEW c \in Callers, Step(c) PROVE upsets' = upsets
    BY <2>2 DEF Step, SetDNS, SetDomain, SetRedirect, SetZones, Assign, resourceDriver,
       OtherDriver, FindZone, MissZone, MakeZone, RemoveZone, ReadPage, WriteRecord,
       MissRecord, EndWrites, ListZones, Return, boundVars
  <2>3. ASSUME NEW c \in Callers, Fail(c) PROVE upsets' = upsets + 1
    BY <2>3 DEF Fail
  <2>4. (Dashboard => upsets' = upsets + 1) /\ (UNCHANGED vars => upsets' = upsets)
    BY DEF Dashboard, vars, boundVars
  <2> QED BY <2>1, <2>2, <2>3, <2>4 DEF Next, LearntInv
<1>2. ASSUME NEW d \in Callers, pc'[d] = "DeleteZone" PROVE Op(d)' = "Delete"
  <2>1. ASSUME pc'[d] = pc[d], req'[d] = req[d] PROVE Op(d)' = "Delete"
    <3>1. Op(d)' = Op(d)
      BY <2>1 DEF Op
    <3> QED BY <1>2, <2>1, <3>1 DEF LearntInv
  <2>2. ASSUME Op(d) = "Delete", req'[d] = req[d] PROVE Op(d)' = "Delete"
    BY <2>2 DEF Op
  <2>3. ASSUME NEW c \in Callers, NEW r, Start(c, r) PROVE Op(d)' = "Delete"
    <3>1. /\ req' = [req EXCEPT ![c] = r]
          /\ \E next \in {"dnsDriver", "return", "ListZones", "resourceDriver"} :
                pc' = [pc EXCEPT ![c] = next]
      BY <2>3 DEF Start, Initialize, Plan, EnumerateAll, StartCall, Arrive, Goto
    <3> QED BY <1>2, <2>1, <3>1 DEF TypesInv
  <2>4. ASSUME NEW c \in Callers, Step(c) \/ Fail(c) PROVE Op(d)' = "Delete"
    <3>1. ASSUME NEW next, pc' = [pc EXCEPT ![c] = next], next # "DeleteZone", req' = req
          PROVE  Op(d)' = "Delete"
      BY <1>2, <2>1, <3>1 DEF TypesInv
    <3>2. ASSUME NEW ok, Finish(c, ok), req' = req PROVE Op(d)' = "Delete"
      BY <3>1, <3>2, FinishGoes
    <3>3. CASE resourceDriver(c) \/ FindZone(c)
      <4>1. /\ req' = req
            /\ \/ \E ok : Finish(c, ok)
               \/ Op(c) = "Delete" /\ pc' = [pc EXCEPT ![c] = "DeleteZone"]
               \/ \E next \in {"GetZone", "other", "applyRecords", "readOutput"} :
                     pc' = [pc EXCEPT ![c] = next]
        BY <3>3 DEF resourceDriver, FindZone, Goto
      <4>2. ASSUME Op(c) = "Delete", pc' = [pc EXCEPT ![c] = "DeleteZone"], req' = req
            PROVE  Op(d)' = "Delete"
        BY <2>1, <2>2, <4>2 DEF TypesInv
      <4> QED BY <3>1, <3>2, <4>1, <4>2
    <3>4. CASE Return(c)
      BY <1>2, <2>1, <3>4 DEF Return, Goto, TypesInv
    <3>5. CASE \/ SetDNS(c) \/ SetDomain(c) \/ SetRedirect(c) \/ SetZones(c)
               \/ OtherDriver(c) \/ MissZone(c) \/ MakeZone(c) \/ RemoveZone(c)
               \/ ReadPage(c) \/ WriteRecord(c) \/ MissRecord(c) \/ EndWrites(c)
               \/ ListZones(c) \/ Fail(c)
      <4>1. /\ req' = req
            /\ \/ \E ok : Finish(c, ok)
               \/ UNCHANGED pc
               \/ \E next : pc' = [pc EXCEPT ![c] = next] /\ next # "DeleteZone"
        BY <3>5 DEF SetDNS, SetDomain, SetRedirect, SetZones, Assign, OtherDriver, MissZone,
           MakeZone, RemoveZone, ReadPage, WriteRecord, MissRecord, EndWrites, ListZones,
           Fail, Goto
      <4> QED BY <2>1, <3>1, <3>2, <4>1
    <3> QED BY <2>4, <3>3, <3>4, <3>5 DEF Step
  <2>5. Dashboard \/ UNCHANGED vars => UNCHANGED <<pc, req>>
    BY DEF Dashboard, vars
  <2> QED BY <2>1, <2>3, <2>4, <2>5 DEF Next
<1> QED BY <1>1, <1>2, ImportsGrow DEF LearntInv

LEMMA LearntInvariant == Spec => []LearntInv
<1>1. Init => LearntInv
  BY DEF Init, LearntInv
<1> QED BY <1>1, LearntNext, TypesInvariant, BaseInvariant, PTL DEF Spec

\* Who gives up a zone: not one whose API call failed.
LEMMA GivesUpHow ==
    ASSUME TypesInv, LearntInv, [Next]_vars, NEW c \in Callers,
           pc[c] \in {"GetZone", "DeleteZone"}, GivesUp(c)
    PROVE  FindZone(c) \/ MissZone(c) \/ RemoveZone(c)
<1>1. pc'[c] = "return" /\ upsets' = upsets /\ pc'[c] # pc[c] /\ upsets \in Nat
  BY DEF GivesUp, LearntInv
<1>2. ~(Dashboard \/ UNCHANGED vars)
  BY <1>1 DEF Dashboard, vars, boundVars
<1>3. ASSUME NEW d \in Callers, NEW r, Start(d, r) PROVE FALSE
  <2>1. pc[d] = "ready" /\ \E next : pc' = [pc EXCEPT ![d] = next]
    BY <1>3 DEF Start, Initialize, Plan, EnumerateAll, StartCall, Arrive, Goto
  <2> QED BY <1>1, <2>1 DEF TypesInv
<1>4. ASSUME NEW d \in Callers, Fail(d) PROVE FALSE
  BY <1>1, <1>4 DEF Fail
<1>5. ASSUME NEW d \in Callers \ {c}, Step(d) PROVE FALSE
  <2>1. UNCHANGED pc \/ \E next : pc' = [pc EXCEPT ![d] = next]
    BY <1>5, FinishGoes DEF Step, SetDNS, SetDomain, SetRedirect, SetZones, Assign,
       resourceDriver, OtherDriver, FindZone, MissZone, MakeZone, RemoveZone, ReadPage,
       WriteRecord, MissRecord, EndWrites, ListZones, Return, Goto
  <2> QED BY <1>1, <2>1 DEF TypesInv
<1>6. Step(c)
  BY <1>2, <1>3, <1>4, <1>5 DEF Next
<1> QED BY <1>6 DEF Step, SetDNS, SetDomain, SetRedirect, SetZones, Assign, resourceDriver,
     OtherDriver, MakeZone, ReadPage, WriteRecord, MissRecord, EndWrites, ListZones, Return

\* An import that gives up has not found a zone of the name that was enumerated.
LEMMA EnumeratedStep ==
    ASSUME TypesInv, LearntInv, [Next]_vars
    PROVE  \A c \in Callers :
              req[c].op = "Import" /\ pc[c] = "GetZone" /\ GivesUp(c)
              /\ Ref(c).type \in {"", "infra.dns"} /\ Ref(c).id \in Names
                 => ~\E z \in held : ZoneName[z] = Ref(c).id
<1> SUFFICES ASSUME NEW c \in Callers, req[c].op = "Import", pc[c] = "GetZone", GivesUp(c),
                    Ref(c).id \in Names
             PROVE  ~\E z \in held : ZoneName[z] = Ref(c).id
  OBVIOUS
<1>1. Op(c) = "Read"
  BY DEF Op
<1>2. lookup(c) = {z \in held : ZoneName[z] = Ref(c).id}
  BY <1>1 DEF lookup, Wanted, domainAndZoneIDFromRef, GetZone, By
<1>3. ~FindZone(c)
  <2>1. FindZone(c) => pc' = [pc EXCEPT ![c] = "readOutput"]
    BY <1>1 DEF FindZone, AnotherDomain, Goto
  <2> QED BY <2>1 DEF GivesUp, TypesInv
<1>4. MissZone(c)
  BY <1>3, GivesUpHow DEF RemoveZone
<1> QED BY <1>2, <1>4 DEF MissZone

\* What names were enumerated can be imported as long as the zone is there, whatever
\* is made and deleted meanwhile (EnumeratedImportable).
THEOREM EnumeratedZones == Spec => EnumeratedImportable
BY TypesInvariant, LearntInvariant, EnumeratedStep, PTL DEF Spec, EnumeratedImportable

\* A Destroy, or an Update by the config it came with, gives up an imported ref only
\* if the zone is gone.
LEMMA ImportedStep ==
    ASSUME TypesInv, LearntInv, Base, [Next]_vars
    PROVE  \A c \in Callers :
              /\ pc[c] \in {"GetZone", "DeleteZone"} /\ req[c].op \in {"Destroy", "Update"}
              /\ GivesUp(c) /\ todo[c] # <<>>
              /\ \E state \in imported :
                    Ref(c) = state.ref /\ (req[c].op = "Update" => req[c].spec = state.spec)
              /\ req[c].op = "Destroy" => answer'[c].errors # answer[c].errors
              => Ref(c).id \in gone
<1> SUFFICES ASSUME NEW c \in Callers, pc[c] \in {"GetZone", "DeleteZone"},
                    req[c].op \in {"Destroy", "Update"}, GivesUp(c),
                    NEW state \in imported, Ref(c) = state.ref,
                    req[c].op = "Update" => req[c].spec = state.spec,
                    req[c].op = "Destroy" => answer'[c].errors # answer[c].errors
             PROVE  Ref(c).id \in gone
  OBVIOUS
<1> DEFINE z == Ref(c).id
<1>1. /\ Ref(c).type = "infra.dns" /\ z \in held \cup gone /\ z \in ZoneIds
      /\ state.spec.domain = ZoneName[z]
  BY DEF LearntInv, ImportOK, Base, ServerInv, TypesInv
<1>2. z # NoId
  BY <1>1, ZonesAssumption
<1>3. ZoneOK(c) /\ (pc[c] = "DeleteZone" => Op(c) = "Delete")
  BY DEF Base, ZonesInv, LearntInv
<1>4. CASE req[c].op = "Destroy"
  <2>1. Op(c) = "Delete"
    BY <1>4, DestroyDeletes
  <2>2. pc[c] = "DeleteZone" /\ zid[c] = z
    BY <1>2, <1>3, <2>1 DEF ZoneOK
  <2>3. RemoveZone(c)
    BY <2>2, GivesUpHow DEF FindZone, MissZone
  <2>4. zid[c] \notin held
    <3>1. ASSUME Finish(c, TRUE) PROVE answer'[c].errors = answer[c].errors
      <4>1. answer' = [answer EXCEPT ![c].destroyed = Append(@, Ref(c).name)]
        BY <1>4, <3>1 DEF Finish
      <4> QED BY <4>1
    <3> QED BY <1>4, <2>3, <3>1 DEF RemoveZone
  <2> QED BY <1>1, <2>2, <2>4
<1>5. CASE req[c].op = "Update"
  <2>1. Op(c) = "Update"
    BY <1>5 DEF Op
  <2>2. pc[c] = "GetZone"
    BY <1>3, <2>1
  <2>3. lookup(c) = {z} \cap held
    BY <1>2, <2>1 DEF lookup, Wanted, GetZone, By
  <2>4. ~FindZone(c)
    <3>1. ~AnotherDomain(c, z)
      BY <1>1, <1>5 DEF AnotherDomain
    <3>2. FindZone(c) => pc' = [pc EXCEPT ![c] = "applyRecords"]
      BY <2>1, <2>3, <3>1 DEF FindZone, Goto
    <3> QED BY <3>2 DEF GivesUp, TypesInv
  <2>5. MissZone(c)
    BY <2>2, <2>4, GivesUpHow DEF RemoveZone
  <2> QED BY <1>1, <2>3, <2>5 DEF MissZone
<1> QED BY <1>4, <1>5

\* A zone that was imported, by its name or by its id, stays within reach of what
\* the import gave, until it is deleted (ImportedReachable).
THEOREM ImportedZones == Spec => ImportedReachable
BY TypesInvariant, LearntInvariant, BaseInvariant, ImportedStep, PTL
   DEF Spec, ImportedReachable

=============================================================================
