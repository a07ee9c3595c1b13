----------------------------- MODULE DNSDriver -----------------------------
(***************************************************************************)
(* DNSDriver of internal/drivers/dns.go: Create, Read, Update and Delete   *)
(* calls that run concurrently against one zone, one action per API call   *)
(* or per turn of a loop between two calls.                                *)
(*                                                                         *)
(* Every API call of a driver call can succeed, be refused by the service, *)
(* fail without effect, or fail at the caller (a timeout) while the        *)
(* request still takes effect later: such a request waits in limbo.  The   *)
(* dashboard, or any other tool, edits the zone between two steps.         *)
(*                                                                         *)
(* The order of a listing, and so which of several records of one key is   *)
(* existing[0], is a free choice, as is the order in which a map is read.  *)
(***************************************************************************)
EXTENDS CloudflareZone

CONSTANTS Ops,            \* the concurrent driver calls
          Kinds,          \* the operations callers use
          Specs,          \* parsed specs: what parseDNSSpec returns
          OutsideRecords, \* records the dashboard may write
          NoRecord,       \* the record of a request that has none
          MaxId,          \* no call starts once record ids are beyond this
          MaxFaults,      \* API calls that may fail
          MaxLost,        \* API calls whose request may outlive its failure
          MaxOutside      \* edits from outside

ASSUME KindsAssumption == Kinds \subseteq {"Create", "Read", "Update", "Delete"}

\* A dnsSpec: the zone id of the config or 0, whether an account id is known,
\* manage_unlisted, and the records.
DNSSpecs == [zoneId : 0..MaxZones, account : BOOLEAN, manage : BOOLEAN,
             records : Seq(DesiredRecord)]

ASSUME SpecsAssumption ==
    /\ Specs # {}
    /\ \A s \in Specs : s \in DNSSpecs /\ UniqueKeys(s.records)

ASSUME EnvironmentAssumption ==
    /\ \A r \in OutsideRecords : r \in DesiredRecord
    /\ MaxFaults \in Nat
    /\ MaxOutside \in Nat

VARIABLES limbo,     \* requests that failed at the caller, not yet applied
          pc,        \* where a call is; "ready" between two calls
          kind,      \* its operation
          spec,      \* its parsed spec (dnsSpec)
          zid,       \* the zone id it works with
          current,   \* the listing of applyRecords
          pos,       \* the desired record its loop is at
          taken,     \* ids no longer in currentByKey
          deleted,   \* deletedRecordIDs, and what the last loop is done with
          out,       \* the records of the ResourceOutput
          result,    \* how the last call ended
          disturbed, \* history: another party changed the zone since the listing
          faults,    \* API calls failed so far
          edits      \* edits from outside so far

callVars == <<kind, spec, zid, current, pos, taken, deleted, out>>
vars == <<zoneVars, limbo, pc, callVars, result, disturbed, faults, edits>>

-----------------------------------------------------------------------------
(* The local variables of applyRecords *)

Desired(p)   == spec[p].records
Applying(p)  == pc[p] = "applyRecords" /\ pos[p] <= Len(Desired(p))
Record(p)    == Desired(p)[pos[p]]

\* desiredKeys while the loop is at pos: it is filled as the loop goes.  The
\* keys of deleted markers, which the code adds too, make no difference: every
\* listed record of such a key is a marker that is itself deleted.
desiredKeys(p) ==
    {recordKey(Desired(p)[i]) : i \in {j \in DOMAIN Desired(p) : j <= pos[p]}}

\* Variant: candidates must match, not only have the key.
existingByMatch(p) == {c \in current[p] : /\ c.id \notin taken[p]
                                          /\ recordMatches(c, Record(p))}

existing(p) == {c \in current[p] : /\ c.id \notin taken[p]
                                   /\ recordKey(c) = recordKey(Record(p))}

conflicts(p) == {c \in current[p] :
                    /\ c.id \notin deleted[p]
                    /\ recordKey(c) \notin desiredKeys(p)
                    /\ cloudflareAddressAliasRecordsConflict(c, Record(p))}

cleanupManagedMarkers(p) ==
    \E i \in DOMAIN Desired(p) : isWorkflowManagedMarker(Desired(p)[i])

\* Variant: the marker that stands for the declared one is not spared.
staleMarkersAll(p) == {c \in current[p] : /\ c.id \notin deleted[p]
                                          /\ cleanupManagedMarkers(p)
                                          /\ isWorkflowManagedMarker(c)}

staleMarkers(p) == {c \in current[p] : /\ c.id \notin taken[p] \cup deleted[p]
                                       /\ cleanupManagedMarkers(p)
                                       /\ isWorkflowManagedMarker(c)}

\* Variant: what is unlisted is read from the zone, not from the listing.
unlistedNow(p) == {c \in live : /\ c.id \notin deleted[p]
                                /\ spec[p].manage
                                /\ recordKey(c) \notin desiredKeys(p)}

unlisted(p) == {c \in current[p] : /\ c.id \notin deleted[p]
                                   /\ spec[p].manage
                                   /\ recordKey(c) \notin desiredKeys(p)}

-----------------------------------------------------------------------------
(* The changing requests a call may send in its present state *)

CreateRequests(p) ==
    IF Applying(p) /\ existing(p) = {} /\ conflicts(p) = {}
    THEN {Request("CreateRecord", zid[p], 0, Record(p))} ELSE {}

UpdateRequests(p) ==
    IF Applying(p)
    THEN {Request("UpdateRecord", zid[p], c.id, Record(p)) :
             c \in {e \in existing(p) : ~recordMatches(e, Record(p))}}
    ELSE {}

\* Variant: conflicts are removed without manage_unlisted too.
DeleteRequestsUnasked(p) ==
    LET doomed ==
          CASE Applying(p) /\ existing(p) = {} -> conflicts(p)
            [] pc[p] = "deleteMarkers"  -> staleMarkers(p)
            [] pc[p] = "deleteUnlisted" -> unlisted(p)
            [] OTHER -> {}
    IN  {Request("DeleteRecord", zid[p], c.id, NoRecord) : c \in doomed}

DeleteRequests(p) ==
    LET doomed ==
          CASE Applying(p) /\ existing(p) = {} /\ spec[p].manage -> conflicts(p)
            [] pc[p] = "deleteMarkers"  -> staleMarkers(p)
            [] pc[p] = "deleteUnlisted" -> unlisted(p)
            [] OTHER -> {}
    IN  {Request("DeleteRecord", zid[p], c.id, NoRecord) : c \in doomed}

ZoneRequests(p) ==
    IF pc[p] \in {"CreateZone", "DeleteZone"}
    THEN {Request(pc[p], zid[p], 0, NoRecord)} ELSE {}

Requests(p) == CreateRequests(p) \cup UpdateRequests(p)
                   \cup DeleteRequests(p) \cup ZoneRequests(p)

-----------------------------------------------------------------------------
(* Steps all calls share *)

\* The call returns: its locals are gone.
Return(p, how, records) ==
    /\ pc' = [pc EXCEPT ![p] = "ready"]
    /\ result' = [result EXCEPT ![p] = how]
    /\ out' = [out EXCEPT ![p] = records]
    /\ zid' = [zid EXCEPT ![p] = 0]
    /\ current' = [current EXCEPT ![p] = {}]
    /\ pos' = [pos EXCEPT ![p] = 1]
    /\ taken' = [taken EXCEPT ![p] = {}]
    /\ deleted' = [deleted EXCEPT ![p] = {}]
    /\ UNCHANGED <<kind, spec>>

Goto(p, label) == pc' = [pc EXCEPT ![p] = label]

\* Everyone but p, who changed the zone, may now hold a stale listing.
Disturb(p) == disturbed' = [q \in Ops |-> disturbed[q] \/ q # p]

\* A request of p that the service carries out and answers.
Send(p, req) ==
    /\ Accepts(req)
    /\ Serve(req)
    /\ Disturb(p)
    /\ UNCHANGED <<limbo, faults, edits, result>>

-----------------------------------------------------------------------------
(* A caller *)

FirstStep(k, id) == IF k = "Delete" /\ id # 0 THEN "DeleteZone" ELSE "GetZone"

\* A caller invokes operation k for spec s and the zone id it knows, or 0.
Begin(p, k, s, id) ==
    /\ pc[p] = "ready"
    /\ nextId <= MaxId
    /\ kind' = [kind EXCEPT ![p] = k]
    /\ spec' = [spec EXCEPT ![p] = s]
    /\ zid' = [zid EXCEPT ![p] = id]
    /\ Goto(p, FirstStep(k, id))
    /\ result' = [result EXCEPT ![p] = "none"]
    /\ out' = [out EXCEPT ![p] = {}]
    /\ UNCHANGED <<zoneVars, limbo, current, pos, taken, deleted, disturbed,
                   faults, edits>>

\* Create takes the zone id of its spec, the others the ProviderID of a
\* ResourceRef; Read and Delete have no spec.
Start(p) ==
    \/ \E s \in Specs : "Create" \in Kinds /\ Begin(p, "Create", s, s.zoneId)
    \/ \E s \in Specs, id \in 0..MaxZones :
          "Update" \in Kinds /\ Begin(p, "Update", s, id)
    \/ \E k \in Kinds \cap {"Read", "Delete"}, id \in 0..MaxZones :
          Begin(p, k, spec[p], id)

-----------------------------------------------------------------------------
(* Finding, creating and deleting the zone *)

FindZone(p) ==
    /\ pc[p] = "GetZone"
    /\ GetZone(zid[p]) # 0
    /\ zid' = [zid EXCEPT ![p] = GetZone(zid[p])]
    /\ Goto(p, CASE kind[p] = "Read"   -> "readOutput"
                 [] kind[p] = "Delete" -> "DeleteZone"
                 [] OTHER -> "ListRecords")
    /\ UNCHANGED <<zoneVars, limbo, kind, spec, current, pos, taken, deleted,
                   out, result, disturbed, faults, edits>>

MissZone(p) ==
    /\ pc[p] = "GetZone"
    /\ GetZone(zid[p]) = 0
    /\ \/ /\ kind[p] = "Create" /\ spec[p].account
          /\ Goto(p, "CreateZone")
          /\ UNCHANGED <<callVars, result>>
       \/ /\ ~(kind[p] = "Create" /\ spec[p].account)
          /\ Return(p, IF kind[p] = "Read" THEN "missing" ELSE "failed", {})
    /\ UNCHANGED <<zoneVars, limbo, disturbed, faults, edits>>

MakeZone(p) ==
    /\ pc[p] = "CreateZone"
    /\ \E req \in ZoneRequests(p) : Send(p, req)
    /\ zid' = [zid EXCEPT ![p] = zone']
    /\ Goto(p, "ListRecords")
    /\ UNCHANGED <<kind, spec, current, pos, taken, deleted, out>>

RemoveZone(p) ==
    /\ pc[p] = "DeleteZone"
    /\ \E req \in ZoneRequests(p) :
          Accepts(req) /\ Serve(req) /\ Disturb(p)
    /\ Return(p, "ok", {})
    /\ UNCHANGED <<limbo, faults, edits>>

-----------------------------------------------------------------------------
(* applyRecords *)

ListRecords(p) ==
    /\ pc[p] = "ListRecords"
    /\ zone # 0 /\ zid[p] = zone
    /\ current' = [current EXCEPT ![p] = live]
    /\ disturbed' = [disturbed EXCEPT ![p] = FALSE]
    /\ Goto(p, "applyRecords")
    /\ UNCHANGED <<zoneVars, limbo, kind, spec, zid, pos, taken, deleted, out,
                   result, faults, edits>>

Advance(p) == pos' = [pos EXCEPT ![p] = @ + 1]
Take(p, c) == taken' = [taken EXCEPT ![p] = @ \cup {c.id}]

KeepRecord(p) ==
    /\ Applying(p)
    /\ \E c \in existing(p) : recordMatches(c, Record(p)) /\ Take(p, c)
    /\ Advance(p)
    /\ UNCHANGED <<zoneVars, limbo, pc, kind, spec, zid, current, deleted, out,
                   result, disturbed, faults, edits>>

ChangeRecord(p) ==
    /\ \E req \in UpdateRequests(p) :
          /\ Send(p, req)
          /\ taken' = [taken EXCEPT ![p] = @ \cup {req.id}]
    /\ Advance(p)
    /\ UNCHANGED <<pc, kind, spec, zid, current, deleted, out>>

AddRecord(p) ==
    /\ \E req \in CreateRequests(p) : Send(p, req)
    /\ Advance(p)
    /\ UNCHANGED <<pc, kind, spec, zid, current, taken, deleted, out>>

\* Without manage_unlisted a conflicting record ends the call.
RefuseConflict(p) ==
    /\ Applying(p)
    /\ existing(p) = {} /\ conflicts(p) # {} /\ ~spec[p].manage
    /\ Return(p, "conflict", {})
    /\ UNCHANGED <<zoneVars, limbo, disturbed, faults, edits>>

\* One DeleteRecord of any of the three deleting loops.
RemoveRecord(p) ==
    /\ \E req \in DeleteRequests(p) :
          /\ Send(p, req)
          /\ deleted' = [deleted EXCEPT ![p] = @ \cup {req.id}]
    /\ UNCHANGED <<pc, kind, spec, zid, current, pos, taken, out>>

\* Variant: the loop over unlisted records is skipped.
NextLoopSkipping(p) ==
    /\ \/ /\ pc[p] = "applyRecords" /\ pos[p] > Len(Desired(p))
          /\ Goto(p, "deleteMarkers")
       \/ /\ pc[p] = "deleteMarkers" /\ staleMarkers(p) = {}
          /\ Goto(p, "readOutput")
    /\ UNCHANGED <<zoneVars, limbo, callVars, result, disturbed, faults, edits>>

\* From one loop of applyRecords to the next.
NextLoop(p) ==
    /\ \/ /\ pc[p] = "applyRecords" /\ pos[p] > Len(Desired(p))
          /\ Goto(p, "deleteMarkers")
       \/ /\ pc[p] = "deleteMarkers" /\ staleMarkers(p) = {}
          /\ Goto(p, IF spec[p].manage THEN "deleteUnlisted" ELSE "readOutput")
       \/ /\ pc[p] = "deleteUnlisted" /\ unlisted(p) = {}
          /\ Goto(p, "readOutput")
    /\ UNCHANGED <<zoneVars, limbo, callVars, result, disturbed, faults, edits>>

ReadOutput(p) ==
    /\ pc[p] = "readOutput"
    /\ zone # 0 /\ zid[p] = zone
    /\ Return(p, "ok", {recordOutput(r) : r \in live})
    /\ UNCHANGED <<zoneVars, limbo, disturbed, faults, edits>>

-----------------------------------------------------------------------------
(* Calls that fail *)

\* Variant: a listing that is refused is not noticed.
RefusedRequest(p) ==
    /\ \E req \in Requests(p) : ~Accepts(req)
    /\ Return(p, "failed", {})
    /\ UNCHANGED <<zoneVars, limbo, disturbed, faults, edits>>

\* The service refuses a request, or the zone to list is gone.
Refused(p) ==
    /\ \/ \E req \in Requests(p) : ~Accepts(req)
       \/ pc[p] \in {"ListRecords", "readOutput"} /\ ~(zone # 0 /\ zid[p] = zone)
    /\ Return(p, "failed", {})
    /\ UNCHANGED <<zoneVars, limbo, disturbed, faults, edits>>

\* An API call fails and has no effect.
Fail(p) ==
    /\ faults < MaxFaults
    /\ \/ pc[p] \in {"GetZone", "ListRecords", "readOutput"}
       \/ Requests(p) # {}
    /\ faults' = faults + 1
    /\ Return(p, "failed", {})
    /\ UNCHANGED <<zoneVars, limbo, disturbed, edits>>

\* An API call fails at the caller; its request may still arrive.
Lose(p) ==
    /\ faults < MaxFaults
    /\ Cardinality(limbo) < MaxLost
    /\ \E req \in Requests(p) : limbo' = limbo \cup {req}
    /\ faults' = faults + 1
    /\ Return(p, "failed", {})
    /\ UNCHANGED <<zoneVars, disturbed, edits>>

-----------------------------------------------------------------------------
(* The environment *)

DisturbAll == disturbed' = [q \in Ops |-> TRUE]

\* A lost request arrives: it is carried out or refused.
Arrive(req) ==
    /\ req \in limbo
    /\ limbo' = limbo \ {req}
    /\ \/ Accepts(req) /\ Serve(req) /\ DisturbAll
       \/ ~Accepts(req) /\ UNCHANGED <<zoneVars, disturbed>>
    /\ UNCHANGED <<pc, callVars, result, faults, edits>>

OutsideRequests ==
    {Request("CreateRecord", zone, 0, r) : r \in OutsideRecords}
    \cup {Request("UpdateRecord", zone, l.id, r) : l \in live, r \in OutsideRecords}
    \cup {Request("DeleteRecord", zone, l.id, NoRecord) : l \in live}

\* The dashboard, or another tool, changes a record.
Outside ==
    /\ edits < MaxOutside
    /\ edits' = edits + 1
    /\ \E req \in OutsideRequests : Accepts(req) /\ Serve(req)
    /\ DisturbAll
    /\ UNCHANGED <<limbo, pc, callVars, result, faults>>

-----------------------------------------------------------------------------

\* The steps in which a running call makes an API call or moves on.
Step(p) ==
    \/ FindZone(p) \/ MissZone(p) \/ MakeZone(p) \/ RemoveZone(p)
    \/ ListRecords(p) \/ KeepRecord(p) \/ ChangeRecord(p) \/ AddRecord(p)
    \/ RefuseConflict(p) \/ RemoveRecord(p) \/ NextLoop(p) \/ ReadOutput(p)
    \/ Refused(p)

InitWith(specs) ==
    /\ CloudflareInit
    /\ limbo = {}
    /\ pc = [p \in Ops |-> "ready"]
    /\ kind = [p \in Ops |-> "Read"]
    /\ spec = specs
    /\ zid = [p \in Ops |-> 0]
    /\ current = [p \in Ops |-> {}]
    /\ pos = [p \in Ops |-> 1]
    /\ taken = [p \in Ops |-> {}]
    /\ deleted = [p \in Ops |-> {}]
    /\ out = [p \in Ops |-> {}]
    /\ result = [p \in Ops |-> "none"]
    /\ disturbed = [p \in Ops |-> TRUE]
    /\ faults = 0
    /\ edits = 0

Init == InitWith([p \in Ops |-> CHOOSE s \in Specs : TRUE])

Next ==
    \/ \E p \in Ops : Start(p) \/ Step(p) \/ Fail(p) \/ Lose(p)
    \/ \E req \in limbo : Arrive(req)
    \/ Outside

\* Callers start and the network fails as they like; a running call goes on:
\* every API call ends within the request timeout, as operationContext ends
\* the whole of it.
Spec == Init /\ [][Next]_vars /\ \A p \in Ops : WF_vars(Step(p))

=============================================================================
