----------------------------- MODULE DNSSafety -----------------------------
(***************************************************************************)
(* What calls of DNSDriver may and may not do to a zone.                   *)
(***************************************************************************)
EXTENDS DNSDriver

Labels == {"ready", "GetZone", "CreateZone", "DeleteZone", "ListRecords",
           "applyRecords", "deleteMarkers", "deleteUnlisted", "readOutput"}
Results == {"none", "ok", "failed", "missing", "conflict"}

ServiceOK ==
    /\ zone \in 0..zones
    /\ zones \in 1..MaxZones
    /\ nextId \in Nat \ {0}
    /\ live \subseteq LiveRecord
    /\ \A r \in live : r.id < nextId
    /\ \A r, s \in live : r.id = s.id => r = s

RequestOK(req) ==
    /\ req.id \in 0..(nextId - 1)
    /\ req.call \in {"CreateRecord", "UpdateRecord"} => req.record \in DesiredRecord

CallsOK ==
    /\ pc \in [Ops -> Labels]
    /\ kind \in [Ops -> Kinds \cup {"Read"}]
    /\ spec \in [Ops -> Specs]
    /\ zid \in [Ops -> 0..MaxZones]
    /\ pos \in [Ops -> Nat \ {0}]
    /\ taken \in [Ops -> SUBSET Nat]
    /\ deleted \in [Ops -> SUBSET Nat]
    /\ out \in [Ops -> SUBSET LiveRecord]
    /\ result \in [Ops -> Results]

ListingsOK ==
    /\ current \in [Ops -> SUBSET LiveRecord]
    /\ \A p \in Ops : \A c \in current[p] : c.id < nextId
    /\ \A p \in Ops : \A c, d \in current[p] : c.id = d.id => c = d

\* Every variable holds values of its kind, and record ids are below nextId and
\* belong to one record each.
TypeOK ==
    /\ ServiceOK
    /\ \A req \in limbo : RequestOK(req)
    /\ CallsOK
    /\ ListingsOK
    /\ disturbed \in [Ops -> BOOLEAN]
    /\ faults \in 0..MaxFaults
    /\ edits \in 0..MaxOutside

-----------------------------------------------------------------------------

\* The steps of p that change records.
Changes(p) == ChangeRecord(p) \/ AddRecord(p) \/ RemoveRecord(p)

\* A listing still tells which record an id stands for: nobody else changed the
\* zone since, or only driver calls did.
Trusted(p) == ~disturbed[p] \/ edits = 0

Present(key, records) == \E r \in records : recordKey(r) = key

\* No two records of a spec are a CNAME and an address or alias of one name.
Consistent(s) ==
    \A i, j \in DOMAIN s.records :
        i # j => ~AliasClash(s.records[i], s.records[j])

\* Without manage_unlisted a call leaves every undeclared record as it is, but
\* for stale workflow markers, and a declared one keeps its id and its key
\* (Create and Update of dns.go, README "preserved unless manage_unlisted"),
\* whatever other driver calls do at the same time.
PreservesUnlisted(p) ==
    Changes(p) /\ Trusted(p) /\ ~spec[p].manage =>
        \A r \in live : ~isWorkflowManagedMarker(r) =>
            IF recordKey(r) \in Keys(Desired(p))
            THEN \E s \in live' : s.id = r.id /\ recordKey(s) = recordKey(r)
            ELSE r \in live'

UnlistedPreserved == [][\A p \in Ops : PreservesUnlisted(p)]_vars

\* A call deletes only records of its own listing that its spec does not
\* declare, or spare copies of a workflow marker: never what another call has
\* added since (the deleting loops of applyRecords).
RemovesListed(p) ==
    RemoveRecord(p) /\ Trusted(p) /\ Consistent(spec[p]) =>
        \A r \in live \ live' :
            /\ \E c \in current[p] : c.id = r.id /\ recordKey(c) = recordKey(r)
            /\ recordKey(r) \notin Keys(Desired(p)) \/ isWorkflowManagedMarker(r)

RemovesOnlyListed == [][\A p \in Ops : RemovesListed(p)]_vars

\* No step of a call makes the last record of a declared key vanish, neither by
\* the removal of conflicts and duplicate markers nor by the final removal of
\* unlisted records (applyRecords).
DeclaredSurvives ==
    [][\A p \in Ops :
         Changes(p) /\ ~disturbed[p] /\ Consistent(spec[p]) =>
            \A k \in Keys(Desired(p)) : Present(k, live) => Present(k, live')]_vars

\* The service refuses no request of a call nobody interferes with:
\* deleteConflictingRecordsBeforeCreate has removed what a new record would
\* clash with (README "avoiding Cloudflare API rejection"), and no record is
\* deleted twice.
NeverRefused ==
    \A p \in Ops :
        ~disturbed[p] /\ Consistent(spec[p]) =>
            \A req \in CreateRequests(p) \cup UpdateRequests(p) \cup DeleteRequests(p) :
                Accepts(req)

\* A call nobody interferes with never adds a second record of a key
\* (applyRecords creates only what its listing lacks).
NoDuplicates ==
    \A p \in Ops : ~disturbed[p] =>
        \A req \in CreateRequests(p) : ~Present(recordKey(req.record), live)

\* Apply and Diff look at the same records and fields: PATCH and POST leave out
\* a priority that is not positive, except for MX, so that no update can set it,
\* and of several records of one key Apply takes the first listed, Diff the one
\* of the lowest priority, unless they are markers, of which one is left.
PriorityAgreed(p) ==
    \A i \in DOMAIN Desired(p) :
        LET d == Desired(p)[i]
            found == Candidates(current[p], recordKey(d))
        IN  /\ \/ SendsPriority(d)
               \/ d.priority = 0 /\ \A c \in found : c.priority = 0
            /\ \A c, o \in found : c = o \/ isWorkflowManagedMarker(d)

\* What Diff may find between outputs and a spec, one set of changes for each
\* order of the listing.
Diff(outputs, s) ==
    LET listed == recordsFromOutputs(outputs)
    IN  {diffRecords(listed, s.records, s.manage, first) :
            first \in sortedFirst(listed, s.records)}

\* The output of a successful Create or Update that nobody interfered with
\* shows no drift: Diff of the same spec against it is empty.
NoDriftAfterApply ==
    [][\A p \in Ops :
         /\ ReadOutput(p)
         /\ kind[p] \in {"Create", "Update"}
         /\ ~disturbed[p] /\ Consistent(spec[p]) /\ PriorityAgreed(p)
         => Diff(out'[p], spec[p]) = {{}}]_vars

\* An empty plan is a promise: a call whose listing shows no drift from its spec
\* asks for no change of a record, whatever others did to the zone since.  Of
\* several records of one key Diff looks at the one of the lowest priority only
\* (applyRecords and diffRecords, which are written apart).
EmptyPlanChangesNothing ==
    \A p \in Ops :
        /\ pc[p] \in {"applyRecords", "deleteMarkers", "deleteUnlisted"}
        /\ Diff({recordOutput(c) : c \in current[p]}, spec[p]) = {{}}
        /\ \A k \in Keys(Desired(p)) : \A c, o \in Candidates(current[p], k) :
              c = o \/ isWorkflowManagedMarker(c)
        => CreateRequests(p) \cup UpdateRequests(p) \cup DeleteRequests(p) = {}

\* Every call returns, however its API calls end (operationContext).
CallsReturn == \A p \in Ops : pc[p] # "ready" ~> pc[p] = "ready"

=============================================================================
