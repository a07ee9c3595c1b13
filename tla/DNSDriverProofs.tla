-------------------------- MODULE DNSDriverProofs --------------------------
(***************************************************************************)
(* Proofs about DNSDriver, for any records, specs, calls and failures:     *)
(* what holds of calls in any number, and what holds of a call that nobody *)
(* interferes with.                                                        *)
(***************************************************************************)
EXTENDS DNSSafety, DNSRecordProofs

-----------------------------------------------------------------------------
(* Type correctness *)

\* The record the loop of applyRecords is at is a desired record.
LEMMA RecordTyped ==
    ASSUME CallsOK, NEW p \in Ops, Applying(p)
    PROVE  Record(p) \in DesiredRecord /\ pos[p] \in DOMAIN Desired(p)
<1>1. spec[p] \in DNSSpecs /\ pos[p] \in Nat \ {0}
  BY SpecsAssumption DEF CallsOK
<1>2. Desired(p) \in Seq(DesiredRecord)
  BY <1>1 DEF Desired, DNSSpecs
<1>3. pos[p] \in 1..Len(Desired(p))
  BY <1>1, <1>2 DEF Applying
<1> QED BY <1>2, <1>3 DEF Record

\* The requests of a call are well-formed: their record is a desired one and
\* their id is one that a listing has shown.
LEMMA RequestsTyped ==
    ASSUME TypeOK, NEW p \in Ops, NEW req \in Requests(p)
    PROVE  RequestOK(req)
<1> USE DEF RequestOK, Request, TypeOK, ServiceOK, ListingsOK
<1>0. nextId \in Nat \ {0}
  OBVIOUS
<1>1. \A c \in current[p] : c.id \in 0..(nextId - 1)
  BY DEF LiveRecord
<1>2. CASE req \in CreateRequests(p)
  <2>1. Applying(p) /\ req = Request("CreateRecord", zid[p], 0, Record(p))
    BY <1>2 DEF CreateRequests
  <2> QED BY <1>0, <2>1, RecordTyped
<1>3. CASE req \in UpdateRequests(p)
  <2>1. PICK c \in current[p] :
            Applying(p) /\ req = Request("UpdateRecord", zid[p], c.id, Record(p))
    BY <1>3 DEF UpdateRequests, existing
  <2> QED BY <1>1, <2>1, RecordTyped
<1>4. CASE req \in DeleteRequests(p)
  <2>1. PICK c \in current[p] :
            req = Request("DeleteRecord", zid[p], c.id, NoRecord)
    BY <1>4 DEF DeleteRequests, conflicts, staleMarkers, unlisted
  <2> QED BY <1>1, <2>1
<1>5. CASE req \in ZoneRequests(p)
  <2>1. /\ pc[p] \in {"CreateZone", "DeleteZone"}
        /\ req = Request(pc[p], zid[p], 0, NoRecord)
    BY <1>5 DEF ZoneRequests
  <2> QED BY <1>0, <2>1
<1> QED BY <1>2, <1>3, <1>4, <1>5 DEF Requests

LEMMA OutsideTyped ==
    ASSUME TypeOK, NEW req \in OutsideRequests
    PROVE  RequestOK(req)
<1>1. nextId \in Nat \ {0} /\ \A l \in live : l.id \in 0..(nextId - 1)
  BY DEF TypeOK, ServiceOK, LiveRecord
<1> QED BY <1>1, EnvironmentAssumption DEF OutsideRequests, RequestOK, Request

\* The service stays well-formed, and no id is ever given twice.
LEMMA ServeTyped ==
    ASSUME ServiceOK, NEW req, RequestOK(req), Accepts(req), Serve(req)
    PROVE  ServiceOK' /\ nextId' >= nextId
<1> USE DEF ServiceOK, RequestOK
<1>1. CASE req.call = "CreateZone" /\ CreateZone
  BY <1>1, ServiceAssumption DEF CreateZone, Accepts
<1>2. CASE req.call = "DeleteZone" /\ DeleteZone
  BY <1>2 DEF DeleteZone
<1>3. CASE req.call = "CreateRecord" /\ CreateRecord(req.record)
  <2> DEFINE new == newRecordBody(nextId, req.record)
  <2>1. new \in LiveRecord /\ new.id = nextId
    BY <1>3, NewRecord
  <2>2. live' = live \cup {new} /\ nextId' = nextId + 1 /\ UNCHANGED <<zone, zones>>
    BY <1>3 DEF CreateRecord
  <2>3. \A r \in live : r.id \in Nat /\ r.id < nextId
    BY DEF LiveRecord
  <2> HIDE DEF new
  <2> QED BY <2>1, <2>2, <2>3
<1>4. CASE req.call = "UpdateRecord" /\ UpdateRecord(req.id, req.record)
  <2> DEFINE edited(old) == editRecordBody(old, req.record)
  <2>1. \A old \in live : edited(old) \in LiveRecord /\ edited(old).id = old.id
    BY <1>4, EditedRecord
  <2>2. /\ live' = (live \ WithId(req.id)) \cup {edited(old) : old \in WithId(req.id)}
        /\ UNCHANGED <<zone, zones, nextId>>
    BY <1>4 DEF UpdateRecord
  <2>3. \A old \in WithId(req.id) : old \in live /\ old.id = req.id
    BY DEF WithId
  <2>4. \A r \in live \ WithId(req.id) : r.id # req.id
    BY DEF WithId
  <2> HIDE DEF edited
  <2>5. live' \subseteq LiveRecord /\ \A r \in live' : r.id < nextId
    BY <2>1, <2>2, <2>3
  <2>6. \A r, s \in live' : r.id = s.id => r = s
    BY <2>1, <2>2, <2>3, <2>4
  <2> QED BY <2>2, <2>5, <2>6
<1>5. CASE req.call = "DeleteRecord" /\ DeleteRecord(req.id)
  BY <1>5 DEF DeleteRecord
<1> QED BY <1>1, <1>2, <1>3, <1>4, <1>5 DEF Serve

\* A call that returns leaves well-formed locals behind.
LEMMA ReturnTyped ==
    ASSUME TypeOK, nextId' \in Nat, nextId' >= nextId, NEW p \in Ops,
           NEW how \in Results, NEW records \in SUBSET LiveRecord,
           Return(p, how, records)
    PROVE  CallsOK' /\ ListingsOK'
<1>1. 0 \in 0..MaxZones /\ "ready" \in Labels
  BY ServiceAssumption DEF Labels
<1>2. CallsOK'
  BY <1>1 DEF TypeOK, CallsOK, Return
<1>3. ListingsOK'
  BY DEF TypeOK, ServiceOK, ListingsOK, Return, LiveRecord
<1> QED BY <1>2, <1>3

\* A request that is served leaves all but the locals of calls well-formed.
LEMMA SendTyped ==
    ASSUME TypeOK, NEW req, RequestOK(req), Accepts(req), Serve(req)
    PROVE  /\ ServiceOK' /\ nextId' \in Nat /\ nextId' >= nextId
           /\ \A r \in limbo : RequestOK(r)'
           /\ current' = current => ListingsOK'
<1>1. ServiceOK' /\ nextId' >= nextId
  BY ServeTyped DEF TypeOK
<1>2. nextId \in Nat /\ nextId' \in Nat
  BY <1>1 DEF TypeOK, ServiceOK
<1>3. \A r \in limbo : RequestOK(r)'
  BY <1>1, <1>2 DEF TypeOK, RequestOK
<1>4. current' = current => ListingsOK'
  BY <1>1, <1>2 DEF TypeOK, ListingsOK, LiveRecord
<1> QED BY <1>1, <1>2, <1>3, <1>4

LEMMA TypeInit == Init => TypeOK
<1> SUFFICES ASSUME Init PROVE TypeOK
  OBVIOUS
<1> USE DEF Init, InitWith, CloudflareInit
<1>1. ServiceOK
  BY ServiceAssumption DEF ServiceOK, LiveRecord
<1>2. CallsOK
  BY ServiceAssumption, SpecsAssumption DEF CallsOK, Labels, Results
<1>3. ListingsOK
  BY DEF ListingsOK
<1> QED BY <1>1, <1>2, <1>3, EnvironmentAssumption DEF TypeOK

LEMMA TypeStep == TypeOK /\ [Next]_vars => TypeOK'
<1> SUFFICES ASSUME TypeOK, [Next]_vars PROVE TypeOK'
  OBVIOUS
<1> USE DEF Labels
<1>0. nextId \in Nat /\ ServiceOK /\ CallsOK /\ ListingsOK
  BY DEF TypeOK, ServiceOK
<1>s. ASSUME UNCHANGED <<zoneVars, limbo>>
      PROVE  /\ ServiceOK' /\ \A req \in limbo' : RequestOK(req)'
             /\ nextId' \in Nat /\ nextId' >= nextId
             /\ current' = current => ListingsOK'
  BY <1>s, <1>0 DEF TypeOK, ServiceOK, RequestOK, zoneVars, ListingsOK
<1>1. ASSUME NEW p \in Ops, Start(p) PROVE TypeOK'
  <2>1. PICK k \in Kinds, s \in Specs, id \in 0..MaxZones : Begin(p, k, s, id)
    BY <1>1, <1>0, SpecsAssumption DEF Start, CallsOK, DNSSpecs
  <2>2. CallsOK'
    BY <2>1, <1>0 DEF Begin, Goto, FirstStep, CallsOK, Results
  <2> QED BY <2>1, <2>2, <1>s DEF Begin, TypeOK
<1>2. ASSUME NEW p \in Ops, FindZone(p) PROVE TypeOK'
  <2>1. GetZone(zid[p]) \in 0..MaxZones
    BY <1>0, ServiceAssumption DEF GetZone, ServiceOK
  <2>2. CallsOK'
    BY <2>1, <1>2, <1>0 DEF FindZone, Goto, CallsOK
  <2> QED BY <2>2, <1>2, <1>s DEF FindZone, TypeOK
<1>3. ASSUME NEW p \in Ops, MissZone(p) PROVE TypeOK'
  <2>1. UNCHANGED <<zoneVars, limbo, disturbed, faults, edits>>
    BY <1>3 DEF MissZone
  <2>2. CASE Goto(p, "CreateZone") /\ UNCHANGED <<callVars, result>>
    <3>1. CallsOK'
      BY <2>2, <1>0 DEF Goto, CallsOK, callVars
    <3> QED BY <3>1, <2>1, <2>2, <1>s DEF TypeOK, callVars
  <2>3. CASE \E how \in {"missing", "failed"} : Return(p, how, {})
    BY <2>3, <2>1, <1>s, ReturnTyped DEF TypeOK, Results
  <2> QED BY <1>3, <2>2, <2>3 DEF MissZone
<1>4. ASSUME NEW p \in Ops, MakeZone(p) PROVE TypeOK'
  <2>1. PICK req \in ZoneRequests(p) : Send(p, req)
    BY <1>4 DEF MakeZone
  <2>2. RequestOK(req)
    BY RequestsTyped DEF Requests
  <2>3. /\ ServiceOK' /\ \A r \in limbo : RequestOK(r)'
        /\ current' = current => ListingsOK'
    BY <2>1, <2>2, SendTyped DEF Send
  <2>4. zone' \in 0..MaxZones
    BY <2>3, ServiceAssumption DEF ServiceOK
  <2>5. CallsOK'
    BY <1>4, <2>1, <2>4, <1>0 DEF MakeZone, Send, Goto, CallsOK
  <2> QED BY <1>4, <2>1, <2>3, <2>5 DEF MakeZone, Send, Disturb, TypeOK
<1>5. ASSUME NEW p \in Ops, RemoveZone(p) PROVE TypeOK'
  <2>1. PICK req \in ZoneRequests(p) : Accepts(req) /\ Serve(req) /\ Disturb(p)
    BY <1>5 DEF RemoveZone
  <2>2. RequestOK(req)
    BY RequestsTyped DEF Requests
  <2>3. /\ ServiceOK' /\ nextId' \in Nat /\ nextId' >= nextId
        /\ \A r \in limbo : RequestOK(r)'
    BY <2>1, <2>2, SendTyped
  <2>4. CallsOK' /\ ListingsOK'
    BY <1>5, <2>3, ReturnTyped DEF RemoveZone, Results
  <2> QED BY <1>5, <2>1, <2>3, <2>4 DEF RemoveZone, Disturb, TypeOK
<1>6. ASSUME NEW p \in Ops, ListRecords(p) PROVE TypeOK'
  <2>1. CallsOK'
    BY <1>6, <1>0 DEF ListRecords, Goto, CallsOK
  <2>2. ListingsOK'
    BY <1>6, <1>0 DEF ListRecords, ListingsOK, ServiceOK, zoneVars
  <2> QED BY <2>1, <2>2, <1>6, <1>s DEF ListRecords, TypeOK
<1>7. ASSUME NEW p \in Ops, KeepRecord(p) PROVE TypeOK'
  <2>1. PICK c \in existing(p) : Take(p, c)
    BY <1>7 DEF KeepRecord
  <2>2. c.id \in Nat
    BY <1>0 DEF existing, ListingsOK, LiveRecord
  <2>3. CallsOK'
    BY <2>1, <2>2, <1>7, <1>0 DEF KeepRecord, Take, Advance, CallsOK
  <2> QED BY <2>3, <1>7, <1>s DEF KeepRecord, TypeOK
<1>8. ASSUME NEW p \in Ops, ChangeRecord(p) PROVE TypeOK'
  <2>1. PICK req \in UpdateRequests(p) :
            Send(p, req) /\ taken' = [taken EXCEPT ![p] = @ \cup {req.id}]
    BY <1>8 DEF ChangeRecord
  <2>2. RequestOK(req)
    BY RequestsTyped DEF Requests
  <2>3. /\ ServiceOK' /\ \A r \in limbo : RequestOK(r)'
        /\ current' = current => ListingsOK'
    BY <2>1, <2>2, SendTyped DEF Send
  <2>4. req.id \in Nat
    BY <2>2, <1>0 DEF RequestOK
  <2>5. CallsOK'
    BY <1>8, <2>1, <2>4, <1>0 DEF ChangeRecord, Send, Advance, CallsOK
  <2> QED BY <1>8, <2>1, <2>3, <2>5 DEF ChangeRecord, Send, Disturb, TypeOK
<1>9. ASSUME NEW p \in Ops, AddRecord(p) PROVE TypeOK'
  <2>1. PICK req \in CreateRequests(p) : Send(p, req)
    BY <1>9 DEF AddRecord
  <2>2. RequestOK(req)
    BY RequestsTyped DEF Requests
  <2>3. /\ ServiceOK' /\ \A r \in limbo : RequestOK(r)'
        /\ current' = current => ListingsOK'
    BY <2>1, <2>2, SendTyped DEF Send
  <2>4. CallsOK'
    BY <1>9, <2>1, <1>0 DEF AddRecord, Send, Advance, CallsOK
  <2> QED BY <1>9, <2>1, <2>3, <2>4 DEF AddRecord, Send, Disturb, TypeOK
<1>10. ASSUME NEW p \in Ops, RefuseConflict(p) PROVE TypeOK'
  BY <1>10, <1>s, ReturnTyped DEF RefuseConflict, Results, TypeOK
<1>11. ASSUME NEW p \in Ops, RemoveRecord(p) PROVE TypeOK'
  <2>1. PICK req \in DeleteRequests(p) :
            Send(p, req) /\ deleted' = [deleted EXCEPT ![p] = @ \cup {req.id}]
    BY <1>11 DEF RemoveRecord
  <2>2. RequestOK(req)
    BY RequestsTyped DEF Requests
  <2>3. /\ ServiceOK' /\ \A r \in limbo : RequestOK(r)'
        /\ current' = current => ListingsOK'
    BY <2>1, <2>2, SendTyped DEF Send
  <2>4. req.id \in Nat
    BY <2>2, <1>0 DEF RequestOK
  <2>5. CallsOK'
    BY <1>11, <2>1, <2>4, <1>0 DEF RemoveRecord, Send, CallsOK
  <2> QED BY <1>11, <2>1, <2>3, <2>5 DEF RemoveRecord, Send, Disturb, TypeOK
<1>12. ASSUME NEW p \in Ops, NextLoop(p) PROVE TypeOK'
  <2>1. CallsOK'
    BY <1>12, <1>0 DEF NextLoop, Goto, CallsOK, callVars
  <2> QED BY <2>1, <1>12, <1>s DEF NextLoop, callVars, TypeOK
<1>13. ASSUME NEW p \in Ops, ReadOutput(p) PROVE TypeOK'
  <2>1. \A r \in live : recordOutput(r) \in LiveRecord
    BY <1>0 DEF ServiceOK, recordOutput, presentationTXTData, LiveRecord, Data
  <2> QED BY <2>1, <1>13, <1>s, ReturnTyped DEF ReadOutput, Results, TypeOK
<1>14. ASSUME NEW p \in Ops, Refused(p) PROVE TypeOK'
  BY <1>14, <1>s, ReturnTyped DEF Refused, Results, TypeOK
<1>15. ASSUME NEW p \in Ops, Fail(p) PROVE TypeOK'
  <2>1. faults' \in 0..MaxFaults
    BY <1>15, EnvironmentAssumption DEF Fail, TypeOK
  <2> QED BY <2>1, <1>15, <1>s, ReturnTyped DEF Fail, Results, TypeOK
<1>16. ASSUME NEW p \in Ops, Lose(p) PROVE TypeOK'
  <2>1. faults' \in 0..MaxFaults
    BY <1>16, EnvironmentAssumption DEF Lose, TypeOK
  <2>2. UNCHANGED <<zoneVars, disturbed, edits>> /\ Return(p, "failed", {})
    BY <1>16 DEF Lose
  <2>3. ServiceOK' /\ nextId' = nextId
    BY <2>2, <1>0 DEF ServiceOK, zoneVars
  <2>4. \A req \in limbo' : RequestOK(req)
    BY <1>16, RequestsTyped DEF Lose, TypeOK
  <2>5. \A req \in limbo' : RequestOK(req)'
    BY <2>3, <2>4 DEF RequestOK
  <2>6. CallsOK' /\ ListingsOK'
    BY <2>2, <2>3, <1>0, ReturnTyped DEF Results
  <2> QED BY <2>1, <2>2, <2>3, <2>5, <2>6 DEF TypeOK
<1>17. ASSUME NEW req \in limbo, Arrive(req) PROVE TypeOK'
  <2>1. UNCHANGED <<pc, callVars, result, faults, edits>> /\ limbo' \subseteq limbo
    BY <1>17 DEF Arrive
  <2>2. CallsOK' /\ current' = current
    BY <2>1, <1>0 DEF CallsOK, callVars
  <2>3. CASE Accepts(req) /\ Serve(req) /\ DisturbAll
    <3>1. RequestOK(req)
      BY <1>17 DEF TypeOK
    <3>2. ServiceOK' /\ (\A r \in limbo : RequestOK(r)') /\ ListingsOK'
      BY <2>2, <2>3, <3>1, SendTyped
    <3> QED BY <2>1, <2>2, <2>3, <3>2 DEF TypeOK, DisturbAll
  <2>4. CASE UNCHANGED <<zoneVars, disturbed>>
    <3>1. ServiceOK' /\ ListingsOK' /\ \A r \in limbo : RequestOK(r)'
      BY <2>2, <2>4, <1>0 DEF TypeOK, ServiceOK, ListingsOK, RequestOK, zoneVars
    <3> QED BY <2>1, <2>2, <2>4, <3>1 DEF TypeOK
  <2> QED BY <1>17, <2>3, <2>4 DEF Arrive
<1>18. ASSUME Outside PROVE TypeOK'
  <2>1. PICK req \in OutsideRequests : Accepts(req) /\ Serve(req)
    BY <1>18 DEF Outside
  <2>2. edits' \in 0..MaxOutside
    BY <1>18, EnvironmentAssumption DEF Outside, TypeOK
  <2>3. UNCHANGED <<limbo, pc, callVars, result, faults>>
    BY <1>18 DEF Outside
  <2>4. CallsOK' /\ current' = current
    BY <2>3, <1>0 DEF CallsOK, callVars
  <2>5. ServiceOK' /\ (\A r \in limbo : RequestOK(r)') /\ ListingsOK'
    BY <2>1, <2>4, OutsideTyped, SendTyped
  <2> QED BY <1>18, <2>2, <2>3, <2>4, <2>5 DEF Outside, DisturbAll, TypeOK
<1>19. CASE UNCHANGED vars
  BY <1>19, <1>0, <1>s DEF vars, callVars, TypeOK, CallsOK
<1> QED BY <1>1, <1>2, <1>3, <1>4, <1>5, <1>6, <1>7, <1>8, <1>9, <1>10, <1>11,
           <1>12, <1>13, <1>14, <1>15, <1>16, <1>17, <1>18, <1>19 DEF Next, Step

\* Every reachable state is well-formed, for any specs, calls and failures.
THEOREM TypeCorrect == Spec => []TypeOK
BY TypeInit, TypeStep, PTL DEF Spec

-----------------------------------------------------------------------------
(* A listing that is to be trusted tells the key of every record it lists: *)
(* updates by id never turn a record into one of another key.  So what the *)
(* driver decides by the keys of its listing is right about the zone.      *)

\* A request does not change the key of a record.
KeepsKeys(req) ==
    req.call = "UpdateRecord" =>
        \A r \in live : r.id = req.id => recordKey(r) = recordKey(req.record)

Tracked(p) ==
    \A c \in current[p], r \in live : c.id = r.id => recordKey(c) = recordKey(r)

Tracking ==
    /\ \A p \in Ops : Trusted(p) => Tracked(p)
    /\ edits = 0 => \A req \in limbo : KeepsKeys(req)

\* The deleting loops start after the last desired record.
LoopDone(p) ==
    pc[p] \in {"deleteMarkers", "deleteUnlisted"} => pos[p] > Len(Desired(p))

SafeInv == TypeOK /\ Tracking /\ \A p \in Ops : LoopDone(p)

\* A record of the zone after a request that keeps keys is a new one or has the
\* id and the key of a record before it.
LEMMA ServeKeepsKeys ==
    ASSUME TypeOK, NEW req, RequestOK(req), KeepsKeys(req), Serve(req)
    PROVE  \A s \in live' : \/ s.id >= nextId
                            \/ \E r \in live : r.id = s.id /\ recordKey(r) = recordKey(s)
<1>0. nextId \in Nat \ {0} /\ live \subseteq LiveRecord
  BY DEF TypeOK, ServiceOK
<1>1. CASE req.call = "CreateZone" /\ CreateZone
  BY <1>1 DEF CreateZone
<1>2. CASE req.call = "DeleteZone" /\ DeleteZone
  BY <1>2 DEF DeleteZone
<1>3. CASE req.call = "CreateRecord" /\ CreateRecord(req.record)
  <2>1. newRecordBody(nextId, req.record).id = nextId
    BY <1>0, <1>3, NewRecord DEF RequestOK
  <2> QED BY <1>0, <1>3, <2>1 DEF CreateRecord
<1>4. CASE req.call = "UpdateRecord" /\ UpdateRecord(req.id, req.record)
  <2>1. \A old \in live : /\ editRecordBody(old, req.record).id = old.id
                          /\ recordKey(editRecordBody(old, req.record)) = recordKey(req.record)
    BY <1>0, <1>4, EditedRecord DEF RequestOK
  <2> QED BY <1>4, <2>1 DEF UpdateRecord, WithId, KeepsKeys
<1>5. CASE req.call = "DeleteRecord" /\ DeleteRecord(req.id)
  BY <1>5 DEF DeleteRecord
<1> QED BY <1>1, <1>2, <1>3, <1>4, <1>5 DEF Serve

\* What was tracked before such a request is tracked after it.
LEMMA TrackedAfterServe ==
    ASSUME TypeOK, NEW req, RequestOK(req), KeepsKeys(req), Serve(req)
    PROVE  /\ \A p \in Ops : Tracked(p) /\ current'[p] \subseteq current[p] => Tracked(p)'
           /\ \A r \in limbo : KeepsKeys(r) => KeepsKeys(r)'
<1>1. \A s \in live' : \/ s.id >= nextId
                       \/ \E r \in live : r.id = s.id /\ recordKey(r) = recordKey(s)
  BY ServeKeepsKeys
<1>2. \A p \in Ops : \A c \in current[p] : c.id \in Nat /\ c.id < nextId
  BY DEF TypeOK, ListingsOK, LiveRecord
<1>3. \A r \in limbo : r.id \in Nat /\ r.id < nextId
  BY DEF TypeOK, RequestOK, ServiceOK
<1>4. nextId \in Nat
  BY DEF TypeOK, ServiceOK
<1>5. ASSUME NEW p \in Ops, Tracked(p), current'[p] \subseteq current[p]
      PROVE  Tracked(p)'
  BY <1>1, <1>2, <1>4, <1>5 DEF Tracked
<1>6. ASSUME NEW r \in limbo, KeepsKeys(r)
      PROVE  KeepsKeys(r)'
  BY <1>1, <1>3, <1>4, <1>6 DEF KeepsKeys
<1> QED BY <1>5, <1>6

\* A call that trusts its listing updates a record only to one of its key.
LEMMA RequestsKeepKeys ==
    ASSUME TypeOK, Tracking, NEW p \in Ops, Trusted(p), NEW req \in Requests(p)
    PROVE  KeepsKeys(req)
<1>1. CASE req \in UpdateRequests(p)
  <2>1. PICK c \in current[p] :
            /\ recordKey(c) = recordKey(Record(p))
            /\ req = Request("UpdateRecord", zid[p], c.id, Record(p))
    BY <1>1 DEF UpdateRequests, existing
  <2> QED BY <2>1 DEF KeepsKeys, Request, Tracking, Tracked
<1>2. CASE req \notin UpdateRequests(p)
  <2>1. req.call # "UpdateRecord"
    BY <1>2 DEF Requests, CreateRequests, DeleteRequests, ZoneRequests, Request
  <2> QED BY <2>1 DEF KeepsKeys
<1> QED BY <1>1, <1>2

\* A request of a call that the service carries out keeps what is trusted.
LEMMA TrackingAfterSend ==
    ASSUME TypeOK, Tracking, NEW p \in Ops, NEW req \in Requests(p), Serve(req),
           Disturb(p), edits' = edits, limbo' = limbo,
           \A q \in Ops : current'[q] \subseteq current[q]
    PROVE  Tracking'
<1>0. RequestOK(req) /\ disturbed \in [Ops -> BOOLEAN]
  BY RequestsTyped DEF TypeOK
<1>1. CASE Trusted(p)
  <2>1. KeepsKeys(req)
    BY <1>1, RequestsKeepKeys
  <2>2. \A q \in Ops : Trusted(q)' => Trusted(q)
    BY <1>0 DEF Trusted, Disturb
  <2> QED BY <1>0, <2>1, <2>2, TrackedAfterServe DEF Tracking
<1>2. CASE ~Trusted(p)
  <2>1. edits # 0 /\ \A q \in Ops : disturbed'[q]
    BY <1>0, <1>2 DEF Trusted, Disturb
  <2> QED BY <2>1 DEF Tracking, Trusted
<1> QED BY <1>1, <1>2

\* So does a step that leaves the zone alone.
LEMMA TrackingAfterQuiet ==
    ASSUME TypeOK, Tracking, UNCHANGED <<zoneVars, disturbed, edits>>,
           \A q \in Ops : current'[q] \subseteq current[q],
           \A req \in limbo' : req \in limbo \/ (edits = 0 => KeepsKeys(req))
    PROVE  Tracking'
<1>1. \A q \in Ops : (Trusted(q)' <=> Trusted(q)) /\ (Tracked(q) => Tracked(q)')
  BY DEF Trusted, Tracked, zoneVars
<1>2. \A req \in limbo' : KeepsKeys(req)' <=> KeepsKeys(req)
  BY DEF KeepsKeys, zoneVars
<1> QED BY <1>1, <1>2 DEF Tracking

\* The listings of the other calls stay, and that of a call that returns goes.
LEMMA ReturnListing ==
    ASSUME TypeOK, NEW p \in Ops, NEW how, NEW records, Return(p, how, records)
    PROVE  \A q \in Ops : current'[q] \subseteq current[q]
BY DEF Return, TypeOK, ListingsOK

LEMMA TrackingStep == TypeOK /\ Tracking /\ [Next]_vars => Tracking'
<1> SUFFICES ASSUME TypeOK, Tracking, [Next]_vars PROVE Tracking'
  OBVIOUS
<1>1. ASSUME NEW p \in Ops, Start(p) PROVE Tracking'
  <2>1. UNCHANGED <<zoneVars, limbo, current, disturbed, edits>>
    BY <1>1 DEF Start, Begin
  <2> QED BY <2>1, TrackingAfterQuiet
<1>2. ASSUME NEW p \in Ops,
             FindZone(p) \/ KeepRecord(p) \/ NextLoop(p)
      PROVE Tracking'
  <2>1. UNCHANGED <<zoneVars, limbo, current, disturbed, edits>>
    BY <1>2 DEF FindZone, KeepRecord, NextLoop, callVars
  <2> QED BY <2>1, TrackingAfterQuiet
<1>3. ASSUME NEW p \in Ops,
             \/ MissZone(p) \/ RefuseConflict(p) \/ ReadOutput(p)
             \/ Refused(p) \/ Fail(p)
      PROVE Tracking'
  <2>1. UNCHANGED <<zoneVars, limbo, disturbed, edits>>
    BY <1>3 DEF MissZone, RefuseConflict, ReadOutput, Refused, Fail
  <2>2. current' = current \/ \E how, records : Return(p, how, records)
    BY <1>3 DEF MissZone, RefuseConflict, ReadOutput, Refused, Fail, callVars
  <2>3. \A q \in Ops : current'[q] \subseteq current[q]
    BY <2>2, ReturnListing
  <2> QED BY <2>1, <2>3, TrackingAfterQuiet
<1>4. ASSUME NEW p \in Ops,
             MakeZone(p) \/ ChangeRecord(p) \/ AddRecord(p) \/ RemoveRecord(p)
      PROVE Tracking'
  <2>1. PICK req \in Requests(p) : Send(p, req)
    BY <1>4 DEF MakeZone, ChangeRecord, AddRecord, RemoveRecord, Requests
  <2>2. current' = current
    BY <1>4 DEF MakeZone, ChangeRecord, AddRecord, RemoveRecord
  <2> QED BY <2>1, <2>2, TrackingAfterSend DEF Send
<1>5. ASSUME NEW p \in Ops, RemoveZone(p) PROVE Tracking'
  <2>1. PICK req \in Requests(p) : Serve(req) /\ Disturb(p)
    BY <1>5 DEF RemoveZone, Requests
  <2>2. UNCHANGED <<limbo, edits>> /\ \A q \in Ops : current'[q] \subseteq current[q]
    BY <1>5, ReturnListing DEF RemoveZone
  <2> QED BY <2>1, <2>2, TrackingAfterSend
<1>6. ASSUME NEW p \in Ops, ListRecords(p) PROVE Tracking'
  <2>1. /\ UNCHANGED <<zoneVars, limbo, edits>>
        /\ current' = [current EXCEPT ![p] = live]
        /\ disturbed' = [disturbed EXCEPT ![p] = FALSE]
    BY <1>6 DEF ListRecords
  <2>2. Tracked(p)'
    BY <2>1 DEF Tracked, TypeOK, ServiceOK, ListingsOK, zoneVars
  <2>3. \A q \in Ops \ {p} : Trusted(q)' => Tracked(q)'
    BY <2>1 DEF Tracking, Trusted, Tracked, TypeOK, ListingsOK, zoneVars
  <2>4. \A req \in limbo' : KeepsKeys(req)' <=> KeepsKeys(req)
    BY <2>1 DEF KeepsKeys, zoneVars
  <2> QED BY <2>1, <2>2, <2>3, <2>4 DEF Tracking
<1>7. ASSUME NEW p \in Ops, Lose(p) PROVE Tracking'
  <2>1. PICK req \in Requests(p) : limbo' = limbo \cup {req}
    BY <1>7 DEF Lose
  <2>2. edits = 0 => KeepsKeys(req)
    BY RequestsKeepKeys DEF Trusted
  <2>3. /\ UNCHANGED <<zoneVars, disturbed, edits>>
        /\ \A q \in Ops : current'[q] \subseteq current[q]
    BY <1>7, ReturnListing DEF Lose
  <2> QED BY <2>1, <2>2, <2>3, TrackingAfterQuiet
<1>8. ASSUME NEW req \in limbo, Arrive(req) PROVE Tracking'
  <2>1. UNCHANGED <<current, edits>> /\ limbo' \subseteq limbo
    BY <1>8 DEF Arrive, callVars
  <2>2. CASE Serve(req) /\ DisturbAll
    <3>1. CASE edits = 0
      <4>1. RequestOK(req) /\ KeepsKeys(req)
        BY <3>1 DEF Tracking, TypeOK
      <4>2. \A p \in Ops : Tracked(p)
        BY <3>1 DEF Tracking, Trusted
      <4> QED BY <2>1, <2>2, <3>1, <4>1, <4>2, TrackedAfterServe DEF Tracking
    <3>2. CASE edits # 0
      BY <2>1, <2>2, <3>2 DEF Tracking, Trusted, DisturbAll
    <3> QED BY <3>1, <3>2
  <2>3. CASE UNCHANGED <<zoneVars, disturbed>>
    BY <2>1, <2>3, TrackingAfterQuiet
  <2> QED BY <1>8, <2>2, <2>3 DEF Arrive
<1>9. ASSUME Outside PROVE Tracking'
  <2>1. edits' # 0 /\ \A q \in Ops : disturbed'[q]
    BY <1>9 DEF Outside, DisturbAll, TypeOK
  <2> QED BY <2>1 DEF Tracking, Trusted
<1>10. CASE UNCHANGED vars
  BY <1>10, TrackingAfterQuiet DEF vars, callVars
<1> QED BY <1>1, <1>2, <1>3, <1>4, <1>5, <1>6, <1>7, <1>8, <1>9, <1>10
        DEF Next, Step

\* The locals of a call change only by its own steps, and what of the loop of
\* applyRecords depends on them stays in place.
LEMMA LoopDoneStep ==
    TypeOK /\ (\A p \in Ops : LoopDone(p)) /\ [Next]_vars => \A p \in Ops : LoopDone(p)'
<1> SUFFICES ASSUME TypeOK, \A p \in Ops : LoopDone(p), [Next]_vars
             PROVE  \A p \in Ops : LoopDone(p)'
  OBVIOUS
<1> USE DEF LoopDone, Desired
<1>0. CallsOK
  BY DEF TypeOK
<1>a. ASSUME NEW p \in Ops, UNCHANGED <<spec, pos>>,
             \/ UNCHANGED pc
             \/ pc' = [pc EXCEPT ![p] = pc'[p]] /\ LoopDone(p)'
      PROVE  \A q \in Ops : LoopDone(q)'
  BY <1>a, <1>0 DEF CallsOK
<1>b. ASSUME NEW p \in Ops, NEW how, NEW records, Return(p, how, records)
      PROVE  \A q \in Ops : LoopDone(q)'
  BY <1>b, <1>0 DEF CallsOK, Return
<1>1. ASSUME NEW p \in Ops, Start(p) PROVE \A q \in Ops : LoopDone(q)'
  <2>1. PICK k, s, id : Begin(p, k, s, id)
    BY <1>1 DEF Start
  <2>2. /\ pc' = [pc EXCEPT ![p] = FirstStep(k, id)]
        /\ spec' = [spec EXCEPT ![p] = s] /\ pos' = pos
        /\ FirstStep(k, id) \in {"GetZone", "DeleteZone"}
    BY <2>1 DEF Begin, Goto, FirstStep
  <2> QED BY <2>2, <1>0 DEF CallsOK
<1>2. ASSUME NEW p \in Ops, FindZone(p) PROVE \A q \in Ops : LoopDone(q)'
  <2>1. /\ UNCHANGED <<spec, pos>>
        /\ \E l \in {"readOutput", "DeleteZone", "ListRecords"} :
              pc' = [pc EXCEPT ![p] = l]
    BY <1>2 DEF FindZone, Goto
  <2> QED BY <2>1, <1>0 DEF CallsOK
<1>3. ASSUME NEW p \in Ops, MissZone(p) PROVE \A q \in Ops : LoopDone(q)'
  <2>1. CASE Goto(p, "CreateZone") /\ UNCHANGED <<callVars, result>>
    BY <2>1, <1>0 DEF Goto, callVars, CallsOK
  <2>2. CASE \E how \in {"missing", "failed"} : Return(p, how, {})
    BY <2>2, <1>b
  <2> QED BY <1>3, <2>1, <2>2 DEF MissZone
<1>4. ASSUME NEW p \in Ops, MakeZone(p) \/ ListRecords(p)
      PROVE \A q \in Ops : LoopDone(q)'
  BY <1>4, <1>0 DEF MakeZone, ListRecords, Goto, CallsOK
<1>5. ASSUME NEW p \in Ops, KeepRecord(p) \/ ChangeRecord(p) \/ AddRecord(p)
      PROVE \A q \in Ops : LoopDone(q)'
  <2>1. Applying(p)
    BY <1>5 DEF KeepRecord, ChangeRecord, AddRecord, UpdateRequests, CreateRequests
  <2>2. UNCHANGED <<pc, spec>> /\ pos' = [pos EXCEPT ![p] = @ + 1]
    BY <1>5 DEF KeepRecord, ChangeRecord, AddRecord, Advance
  <2> QED BY <2>1, <2>2, <1>0 DEF Applying, CallsOK
<1>6. ASSUME NEW p \in Ops, RemoveRecord(p) PROVE \A q \in Ops : LoopDone(q)'
  BY <1>6 DEF RemoveRecord
<1>7. ASSUME NEW p \in Ops, NextLoop(p) PROVE \A q \in Ops : LoopDone(q)'
  <2>1. UNCHANGED <<spec, pos>> /\ \E l : pc' = [pc EXCEPT ![p] = l]
    BY <1>7 DEF NextLoop, Goto, callVars
  <2>2. pc'[p] \in {"deleteMarkers", "deleteUnlisted"} => pos[p] > Len(Desired(p))
    BY <1>7, <1>0 DEF NextLoop, Goto, CallsOK
  <2> QED BY <2>1, <2>2, <1>0 DEF CallsOK
<1>8. ASSUME NEW p \in Ops,
             \/ RemoveZone(p) \/ RefuseConflict(p) \/ ReadOutput(p)
             \/ Refused(p) \/ Fail(p) \/ Lose(p)
      PROVE \A q \in Ops : LoopDone(q)'
  <2>1. \E how, records : Return(p, how, records)
    BY <1>8 DEF RemoveZone, RefuseConflict, ReadOutput, Refused, Fail, Lose
  <2> QED BY <2>1, <1>b
<1>9. ASSUME (\E req \in limbo : Arrive(req)) \/ Outside \/ UNCHANGED vars
      PROVE \A q \in Ops : LoopDone(q)'
  <2>1. UNCHANGED <<pc, spec, pos>>
    BY <1>9 DEF Arrive, Outside, vars, callVars
  <2> QED BY <2>1
<1> QED BY <1>1, <1>2, <1>3, <1>4, <1>5, <1>6, <1>7, <1>8, <1>9 DEF Next, Step

LEMMA SafeInit == Init => SafeInv
<1> SUFFICES ASSUME Init PROVE SafeInv
  OBVIOUS
<1>1. TypeOK
  BY TypeInit
<1>2. Tracking
  BY DEF Init, InitWith, Tracking, Tracked
<1>3. \A p \in Ops : LoopDone(p)
  BY DEF Init, InitWith, LoopDone
<1> QED BY <1>1, <1>2, <1>3 DEF SafeInv

THEOREM SafeInvariant == Spec => []SafeInv
<1>1. SafeInv /\ [Next]_vars => SafeInv'
  BY TypeStep, TrackingStep, LoopDoneStep DEF SafeInv
<1> QED BY SafeInit, <1>1, PTL DEF Spec

-----------------------------------------------------------------------------
(* What calls may do to records they were not asked about *)

\* A record that a request removes has the id of the request.
LEMMA Removed ==
    ASSUME TypeOK, NEW req, Serve(req), req.call = "DeleteRecord"
    PROVE  live' = live \ WithId(req.id)
BY DEF Serve, DeleteRecord

\* Keys of the loop's own record are declared keys.
LEMMA DesiredKeys ==
    ASSUME CallsOK, NEW p \in Ops
    PROVE  /\ Applying(p) => recordKey(Record(p)) \in Keys(Desired(p))
           /\ desiredKeys(p) \subseteq Keys(Desired(p))
           /\ pos[p] > Len(Desired(p)) => desiredKeys(p) = Keys(Desired(p))
<1>1. Desired(p) \in Seq(DesiredRecord) /\ pos[p] \in Nat
  BY SpecsAssumption DEF CallsOK, Desired, DNSSpecs
<1>2. Applying(p) => recordKey(Record(p)) \in Keys(Desired(p))
  BY RecordTyped DEF Record, Keys
<1>3. desiredKeys(p) \subseteq Keys(Desired(p))
  BY DEF desiredKeys, Keys
<1>4. pos[p] > Len(Desired(p)) => desiredKeys(p) = Keys(Desired(p))
  BY <1>1 DEF desiredKeys, Keys
<1> QED BY <1>2, <1>3, <1>4

LEMMA PreservesUnlistedStep ==
    ASSUME SafeInv, NEW p \in Ops
    PROVE  PreservesUnlisted(p)
<1> SUFFICES ASSUME Changes(p), Trusted(p), ~spec[p].manage,
                    NEW r \in live, ~isWorkflowManagedMarker(r)
             PROVE  IF recordKey(r) \in Keys(Desired(p))
                    THEN \E s \in live' : s.id = r.id /\ recordKey(s) = recordKey(r)
                    ELSE r \in live'
  BY DEF PreservesUnlisted
<1>0. TypeOK /\ CallsOK /\ Tracked(p) /\ live \subseteq LiveRecord
  BY DEF SafeInv, Tracking, TypeOK, ServiceOK
<1>1. CASE ChangeRecord(p)
  <2>1. PICK c \in existing(p) :
            /\ Applying(p)
            /\ Serve(Request("UpdateRecord", zid[p], c.id, Record(p)))
    BY <1>1 DEF ChangeRecord, UpdateRequests, Send
  <2>2. c \in current[p] /\ recordKey(c) = recordKey(Record(p))
    BY <2>1 DEF existing
  <2>3. live' = (live \ WithId(c.id))
                    \cup {editRecordBody(old, Record(p)) : old \in WithId(c.id)}
    BY <2>1 DEF Serve, Request, UpdateRecord
  <2>4. CASE r.id # c.id
    BY <2>3, <2>4 DEF WithId
  <2>5. CASE r.id = c.id
    <3>1. recordKey(r) = recordKey(Record(p))
      BY <2>2, <2>5, <1>0 DEF Tracked
    <3>2. recordKey(r) \in Keys(Desired(p))
      BY <3>1, <2>1, <1>0, DesiredKeys
    <3>3. editRecordBody(r, Record(p)) \in live'
      BY <2>3, <2>5 DEF WithId
    <3>4. /\ editRecordBody(r, Record(p)).id = r.id
          /\ recordKey(editRecordBody(r, Record(p))) = recordKey(Record(p))
      BY <1>0, <2>1, RecordTyped, EditedRecord
    <3> QED BY <3>1, <3>2, <3>3, <3>4
  <2> QED BY <2>4, <2>5
<1>2. CASE AddRecord(p)
  <2>1. Serve(Request("CreateRecord", zid[p], 0, Record(p)))
    BY <1>2 DEF AddRecord, CreateRequests, Send
  <2> QED BY <2>1 DEF Serve, Request, CreateRecord
<1>3. CASE RemoveRecord(p)
  <2>1. PICK c \in staleMarkers(p) :
            Serve(Request("DeleteRecord", zid[p], c.id, NoRecord))
    <3>1. unlisted(p) = {}
      BY DEF unlisted
    <3>2. PICK req \in DeleteRequests(p) : Serve(req)
      BY <1>3 DEF RemoveRecord, Send
    <3> QED BY <3>1, <3>2 DEF DeleteRequests
  <2>2. c \in current[p] /\ isWorkflowManagedMarker(c)
    BY <2>1 DEF staleMarkers
  <2>3. live' = live \ WithId(c.id)
    BY <2>1 DEF Serve, Request, DeleteRecord
  <2>4. r.id # c.id
    BY <2>2, <1>0, MarkerByKey DEF Tracked
  <2>5. r \in live'
    BY <2>3, <2>4 DEF WithId
  <2> QED BY <2>5
<1> QED BY <1>1, <1>2, <1>3 DEF Changes

\* Whatever other driver calls do, a call without manage_unlisted leaves
\* undeclared records alone and keeps the id and key of declared ones.
THEOREM UnlistedSafe == Spec => UnlistedPreserved
<1>1. SafeInv => [\A p \in Ops : PreservesUnlisted(p)]_vars
  BY PreservesUnlistedStep
<1> QED BY <1>1, SafeInvariant, PTL DEF UnlistedPreserved

\* Records that are removed as conflicts are not declared, if the declared
\* records do not conflict themselves.
LEMMA ConflictsUndeclared ==
    ASSUME CallsOK, NEW p \in Ops, Applying(p), Consistent(spec[p]),
           NEW c \in conflicts(p)
    PROVE  recordKey(c) \notin Keys(Desired(p))
<1> SUFFICES ASSUME NEW i \in DOMAIN Desired(p), recordKey(c) = recordKey(Desired(p)[i])
             PROVE  FALSE
  BY DEF Keys
<1>1. pos[p] \in DOMAIN Desired(p) /\ Desired(p) \in Seq(DesiredRecord)
  BY RecordTyped, SpecsAssumption DEF CallsOK, Desired, DNSSpecs
<1>2. i # pos[p]
  BY <1>1 DEF conflicts, desiredKeys
<1>3. AliasClash(Desired(p)[i], Record(p))
  BY DEF conflicts, cloudflareAddressAliasRecordsConflict, AliasClash, recordKey
<1> QED BY <1>1, <1>2, <1>3 DEF Consistent, Desired, Record

LEMMA RemovesListedStep ==
    ASSUME SafeInv, NEW p \in Ops
    PROVE  RemovesListed(p)
<1> SUFFICES ASSUME RemoveRecord(p), Trusted(p), Consistent(spec[p]),
                    NEW r \in live \ live'
             PROVE  /\ \E c \in current[p] : c.id = r.id /\ recordKey(c) = recordKey(r)
                    /\ \/ recordKey(r) \notin Keys(Desired(p))
                       \/ isWorkflowManagedMarker(r)
  BY DEF RemovesListed
<1>0. TypeOK /\ CallsOK /\ Tracked(p) /\ LoopDone(p)
  BY DEF SafeInv, Tracking, TypeOK
<1>1. PICK req \in DeleteRequests(p) : Serve(req)
  BY DEF RemoveRecord, Send
<1>2. PICK c \in conflicts(p) \cup staleMarkers(p) \cup unlisted(p) :
          /\ req = Request("DeleteRecord", zid[p], c.id, NoRecord)
          /\ \/ Applying(p) /\ c \in conflicts(p)
             \/ c \in staleMarkers(p)
             \/ pc[p] = "deleteUnlisted" /\ c \in unlisted(p)
  BY <1>1 DEF DeleteRequests
<1>3. c \in current[p]
  BY <1>2 DEF conflicts, staleMarkers, unlisted
<1>4. r.id = c.id
  BY <1>1, <1>2, <1>0, Removed DEF Request, WithId
<1>5. recordKey(c) = recordKey(r)
  BY <1>0, <1>3, <1>4 DEF Tracked
<1>6. recordKey(c) \notin Keys(Desired(p)) \/ isWorkflowManagedMarker(c)
  <2>1. CASE Applying(p) /\ c \in conflicts(p)
    BY <2>1, <1>0, ConflictsUndeclared
  <2>2. CASE c \in staleMarkers(p)
    BY <2>2 DEF staleMarkers
  <2>3. CASE pc[p] = "deleteUnlisted" /\ c \in unlisted(p)
    BY <2>3, <1>0, DesiredKeys DEF unlisted, LoopDone
  <2> QED BY <1>2, <2>1, <2>2, <2>3
<1> QED BY <1>3, <1>4, <1>5, <1>6, MarkerByKey

\* Whatever other driver calls do, a call deletes only what it has listed and
\* what its spec does not declare, and spare workflow markers.
THEOREM RemovalsSafe == Spec => RemovesOnlyListed
<1>1. SafeInv => [\A p \in Ops : RemovesListed(p)]_vars
  BY RemovesListedStep
<1> QED BY <1>1, SafeInvariant, PTL DEF RemovesOnlyListed

-----------------------------------------------------------------------------
(* Calls that nobody interferes with *)

Loops == {"applyRecords", "deleteMarkers", "deleteUnlisted"}

\* The loop of applyRecords is past desired records of this key.
Past(p, key) ==
    \E i \in DOMAIN Desired(p) : i < pos[p] /\ recordKey(Desired(p)[i]) = key

\* Nothing is taken or deleted before the listing; what is taken has a key the
\* loop is past, and what is deleted in the loop has none of the spec's keys.
LocalsInv(p) ==
    /\ pc[p] \notin Loops \cup {"readOutput"} =>
           taken[p] = {} /\ deleted[p] = {}
    /\ \A c \in current[p] : c.id \in taken[p] => Past(p, recordKey(c))
    /\ pc[p] = "applyRecords" /\ Consistent(spec[p]) =>
           \A c \in current[p] :
               c.id \in deleted[p] => recordKey(c) \notin Keys(Desired(p))

\* What is listed and not deleted is there, and what is there is listed and not
\* deleted or has a key the loop is past.
Exact(p) ==
    /\ zone # 0 /\ zid[p] = zone
    /\ \A c \in current[p] : c.id \notin deleted[p] => \E r \in live : r.id = c.id
    /\ \A r \in live : \/ \E c \in current[p] : c.id = r.id /\ c.id \notin deleted[p]
                       \/ Past(p, recordKey(r))

\* No records of the zone clash: the service refuses to let them.
NoClash == \A r, s \in live : r # s => ~AliasClash(r, s)

UndisturbedInv ==
    /\ SafeInv
    /\ NoClash
    /\ \A p \in Ops : LocalsInv(p) /\ (~disturbed[p] /\ pc[p] \in Loops => Exact(p))

-----------------------------------------------------------------------------
(* Clashes *)

\* Clashes depend on keys alone.
LEMMA ClashByKey ==
    ASSUME NEW r, NEW s, NEW t, recordKey(r) = recordKey(s)
    PROVE  /\ AliasClash(r, t) <=> AliasClash(s, t)
           /\ AliasClash(t, r) <=> AliasClash(t, s)
           /\ AliasClash(t, r) <=> AliasClash(r, t)
BY DEF AliasClash, recordKey

LEMMA ClashInit == Init => NoClash
BY ServiceAssumption DEF Init, InitWith, CloudflareInit, NoClash

LEMMA ClashServe ==
    ASSUME TypeOK, NoClash, NEW req, RequestOK(req), Accepts(req), Serve(req)
    PROVE  NoClash'
<1>0. live \subseteq LiveRecord /\ nextId \in Nat \ {0}
  BY DEF TypeOK, ServiceOK
<1>1. CASE req.call = "CreateZone" /\ CreateZone
  BY <1>1 DEF CreateZone, NoClash
<1>2. CASE req.call = "DeleteZone" /\ DeleteZone
  BY <1>2 DEF DeleteZone, NoClash
<1>3. CASE req.call = "CreateRecord" /\ CreateRecord(req.record)
  <2> DEFINE new == newRecordBody(nextId, req.record)
  <2>1. recordKey(new) = recordKey(req.record)
    BY <1>0, <1>3, NewRecord DEF RequestOK
  <2>2. \A r \in live : ~AliasClash(r, new) /\ ~AliasClash(new, r)
    BY <1>3, <2>1, ClashByKey DEF Accepts
  <2>3. live' = live \cup {new}
    BY <1>3 DEF CreateRecord
  <2> HIDE DEF new
  <2> QED BY <2>2, <2>3 DEF NoClash
<1>4. CASE req.call = "UpdateRecord" /\ UpdateRecord(req.id, req.record)
  <2> DEFINE edited(old) == editRecordBody(old, req.record)
  <2>1. \A old \in live : recordKey(edited(old)) = recordKey(req.record)
    BY <1>0, <1>4, EditedRecord DEF RequestOK
  <2>2. \A old \in live, r \in live \ WithId(req.id) :
            ~AliasClash(r, edited(old)) /\ ~AliasClash(edited(old), r)
    BY <1>4, <2>1, ClashByKey DEF Accepts
  <2>3. live' = (live \ WithId(req.id)) \cup {edited(old) : old \in WithId(req.id)}
    BY <1>4 DEF UpdateRecord
  <2>4. \A old, o \in WithId(req.id) : old = o /\ old \in live
    BY DEF WithId, TypeOK, ServiceOK
  <2> HIDE DEF edited
  <2> QED BY <2>2, <2>3, <2>4 DEF NoClash
<1>5. CASE req.call = "DeleteRecord" /\ DeleteRecord(req.id)
  BY <1>5 DEF DeleteRecord, NoClash
<1> QED BY <1>1, <1>2, <1>3, <1>4, <1>5 DEF Serve

LEMMA ClashStep == TypeOK /\ NoClash /\ [Next]_vars => NoClash'
<1> SUFFICES ASSUME TypeOK, NoClash, [Next]_vars PROVE NoClash'
  OBVIOUS
<1>1. CASE UNCHANGED live
  BY <1>1 DEF NoClash
<1>2. CASE \E req : RequestOK(req) /\ Accepts(req) /\ Serve(req)
  BY <1>2, ClashServe
<1>3. ASSUME NEW p \in Ops, Start(p) \/ Step(p) \/ Fail(p) \/ Lose(p)
      PROVE  UNCHANGED live \/ \E req \in Requests(p) : Accepts(req) /\ Serve(req)
  <2>1. CASE \/ MakeZone(p) \/ RemoveZone(p) \/ ChangeRecord(p) \/ AddRecord(p)
             \/ RemoveRecord(p)
    BY <2>1 DEF MakeZone, RemoveZone, ChangeRecord, AddRecord, RemoveRecord,
                Send, Requests
  <2>2. CASE \/ Start(p) \/ FindZone(p) \/ MissZone(p) \/ ListRecords(p)
             \/ KeepRecord(p) \/ RefuseConflict(p) \/ NextLoop(p)
             \/ ReadOutput(p) \/ Refused(p) \/ Fail(p) \/ Lose(p)
    BY <2>2 DEF Start, Begin, FindZone, MissZone, ListRecords, KeepRecord,
                RefuseConflict, NextLoop, ReadOutput, Refused, Fail, Lose, zoneVars
  <2> QED BY <1>3, <2>1, <2>2 DEF Step
<1>4. ASSUME NEW req \in limbo, Arrive(req)
      PROVE  UNCHANGED live \/ (RequestOK(req) /\ Accepts(req) /\ Serve(req))
  BY <1>4 DEF Arrive, TypeOK, zoneVars
<1>5. ASSUME Outside
      PROVE  \E req \in OutsideRequests : Accepts(req) /\ Serve(req)
  BY <1>5 DEF Outside
<1>6. CASE UNCHANGED vars
  BY <1>6, <1>1 DEF vars, zoneVars
<1> QED BY <1>1, <1>2, <1>3, <1>4, <1>5, <1>6, RequestsTyped, OutsideTyped DEF Next

-----------------------------------------------------------------------------
(* Steps of others *)

\* The locals of call p.
Same(p) ==
    /\ pc'[p] = pc[p] /\ kind'[p] = kind[p]
    /\ spec'[p] = spec[p] /\ zid'[p] = zid[p]
    /\ current'[p] = current[p] /\ pos'[p] = pos[p]
    /\ taken'[p] = taken[p] /\ deleted'[p] = deleted[p]

\* A step of another call leaves the locals of p alone, and marks p as disturbed
\* when it changes the zone.
LEMMA StepOfAnother ==
    ASSUME TypeOK, NEW q \in Ops, Start(q) \/ Step(q) \/ Fail(q) \/ Lose(q),
           NEW p \in Ops \ {q}
    PROVE  /\ Same(p)
           /\ disturbed'[p] \/ (disturbed'[p] = disturbed[p] /\ UNCHANGED zoneVars)
<1> USE DEF Same
<1>0. CallsOK /\ ListingsOK /\ disturbed \in [Ops -> BOOLEAN]
  BY DEF TypeOK
<1>r. ASSUME NEW how, NEW records, Return(q, how, records) PROVE Same(p)
  BY <1>r, <1>0 DEF Return, CallsOK, ListingsOK
<1>1. CASE Start(q)
  BY <1>1, <1>0 DEF Start, Begin, Goto, CallsOK, ListingsOK
<1>2. CASE FindZone(q) \/ ListRecords(q) \/ KeepRecord(q) \/ NextLoop(q)
  BY <1>2, <1>0 DEF FindZone, ListRecords, KeepRecord, NextLoop, Goto, Take,
                    Advance, callVars, CallsOK, ListingsOK
<1>3. CASE MissZone(q)
  <2>1. CASE \E how : Return(q, how, {})
    BY <1>3, <2>1, <1>r DEF MissZone
  <2>2. CASE Goto(q, "CreateZone") /\ UNCHANGED callVars
    BY <1>3, <2>2, <1>0 DEF MissZone, Goto, callVars, CallsOK, ListingsOK
  <2> QED BY <1>3, <2>1, <2>2 DEF MissZone
<1>4. CASE MakeZone(q) \/ ChangeRecord(q) \/ AddRecord(q) \/ RemoveRecord(q)
  <2>1. disturbed'[p]
    BY <1>4, <1>0 DEF MakeZone, ChangeRecord, AddRecord, RemoveRecord, Send, Disturb
  <2>2. Same(p)
    BY <1>4, <1>0 DEF MakeZone, ChangeRecord, AddRecord, RemoveRecord, Goto,
                      Advance, CallsOK, ListingsOK
  <2> QED BY <2>1, <2>2
<1>5. CASE RemoveZone(q)
  BY <1>5, <1>0, <1>r DEF RemoveZone, Disturb
<1>6. CASE RefuseConflict(q) \/ ReadOutput(q) \/ Refused(q) \/ Fail(q) \/ Lose(q)
  BY <1>6, <1>r DEF RefuseConflict, ReadOutput, Refused, Fail, Lose
<1> QED BY <1>1, <1>2, <1>3, <1>4, <1>5, <1>6 DEF Step

\* What holds of p is not touched by such a step.
LEMMA SameInv ==
    ASSUME NEW p \in Ops, LocalsInv(p), ~disturbed[p] /\ pc[p] \in Loops => Exact(p),
           Same(p),
           disturbed'[p] \/ (disturbed'[p] = disturbed[p] /\ UNCHANGED zoneVars)
    PROVE  LocalsInv(p)' /\ (~disturbed[p] /\ pc[p] \in Loops => Exact(p))'
<1>1. /\ Desired(p)' = Desired(p)
      /\ \A k : Past(p, k)' <=> Past(p, k)
  BY DEF Same, Desired, Past
<1>2. LocalsInv(p)'
  BY <1>1 DEF Same, LocalsInv
<1>3. ASSUME UNCHANGED zoneVars, Exact(p) PROVE Exact(p)'
  BY <1>1, <1>3 DEF Same, Exact, zoneVars
<1> QED BY <1>2, <1>3 DEF Same

-----------------------------------------------------------------------------
(* Steps of the call itself *)

\* Being past records only grows while the spec stays.
LEMMA PastGrows ==
    ASSUME CallsOK, NEW p \in Ops, Applying(p), spec'[p] = spec[p],
           pos'[p] = pos[p] + 1
    PROVE  \A k : Past(p, k) \/ k = recordKey(Record(p)) => Past(p, k)'
<1>1. pos[p] \in Nat /\ pos[p] \in DOMAIN Desired(p)
  BY RecordTyped DEF CallsOK
<1>2. Desired(p) \in Seq(DesiredRecord) /\ Desired(p)' = Desired(p)
  BY SpecsAssumption DEF CallsOK, Desired, DNSSpecs
<1> QED BY <1>1, <1>2 DEF Past, Record

\* The record the loop is at is not one it is past: keys are unique.
LEMMA NotPast ==
    ASSUME CallsOK, NEW p \in Ops, Applying(p)
    PROVE  ~Past(p, recordKey(Record(p)))
<1>1. pos[p] \in Nat /\ pos[p] \in DOMAIN Desired(p)
  BY RecordTyped DEF CallsOK
<1>2. UniqueKeys(Desired(p))
  BY SpecsAssumption DEF CallsOK, Desired
<1> QED BY <1>1, <1>2 DEF Past, Record, UniqueKeys

\* The locals of a call that returns or has not listed yet.
LEMMA IdleLocals ==
    ASSUME TypeOK, NEW p \in Ops, LocalsInv(p),
           pc'[p] \notin Loops,
           \/ \E how, records : Return(p, how, records)
           \/ /\ pc[p] \notin Loops \cup {"readOutput"}
              /\ UNCHANGED <<current, taken, deleted>>
    PROVE  LocalsInv(p)'
<1>0. CallsOK /\ ListingsOK
  BY DEF TypeOK
<1>1. CASE \E how, records : Return(p, how, records)
  <2>1. current'[p] = {} /\ taken'[p] = {} /\ deleted'[p] = {}
    BY <1>1, <1>0 DEF Return, CallsOK, ListingsOK
  <2> QED BY <2>1 DEF LocalsInv, Loops
<1>2. CASE /\ pc[p] \notin Loops \cup {"readOutput"}
           /\ UNCHANGED <<current, taken, deleted>>
  BY <1>2 DEF LocalsInv, Loops
<1> QED BY <1>1, <1>2

LEMMA OwnIdleStep ==
    ASSUME TypeOK, NEW p \in Ops, LocalsInv(p),
           \/ Start(p) \/ FindZone(p) \/ MissZone(p) \/ MakeZone(p) \/ RemoveZone(p)
           \/ RefuseConflict(p) \/ ReadOutput(p) \/ Refused(p) \/ Fail(p) \/ Lose(p)
    PROVE  LocalsInv(p)' /\ pc'[p] \notin Loops
<1>0. CallsOK
  BY DEF TypeOK
<1>1. CASE Start(p)
  <2>1. /\ pc[p] = "ready" /\ pc'[p] \in {"GetZone", "DeleteZone"}
        /\ UNCHANGED <<current, taken, deleted>>
    BY <1>1, <1>0 DEF Start, Begin, Goto, FirstStep, CallsOK
  <2> QED BY <2>1, IdleLocals DEF Loops
<1>2. CASE FindZone(p)
  <2>1. /\ pc[p] = "GetZone" /\ pc'[p] \in {"readOutput", "DeleteZone", "ListRecords"}
        /\ UNCHANGED <<current, taken, deleted>>
    BY <1>2, <1>0 DEF FindZone, Goto, CallsOK
  <2> QED BY <2>1, IdleLocals DEF Loops
<1>3. CASE MakeZone(p)
  <2>1. /\ pc[p] = "CreateZone" /\ pc'[p] = "ListRecords"
        /\ UNCHANGED <<current, taken, deleted>>
    BY <1>3, <1>0 DEF MakeZone, Goto, CallsOK
  <2> QED BY <2>1, IdleLocals DEF Loops
<1>4. CASE MissZone(p) /\ Goto(p, "CreateZone") /\ UNCHANGED callVars
  <2>1. /\ pc[p] = "GetZone" /\ pc'[p] = "CreateZone"
        /\ UNCHANGED <<current, taken, deleted>>
    BY <1>4, <1>0 DEF MissZone, Goto, CallsOK, callVars
  <2> QED BY <2>1, IdleLocals DEF Loops
<1>5. ASSUME NEW how, NEW records, Return(p, how, records)
      PROVE  LocalsInv(p)' /\ pc'[p] \notin Loops
  <2>1. pc'[p] = "ready"
    BY <1>5, <1>0 DEF Return, CallsOK
  <2> QED BY <2>1, <1>5, IdleLocals DEF Loops
<1> QED BY <1>1, <1>2, <1>3, <1>4, <1>5
        DEF MissZone, RemoveZone, RefuseConflict, ReadOutput, Refused, Fail, Lose

LEMMA OwnListStep ==
    ASSUME TypeOK, NEW p \in Ops, LocalsInv(p), ListRecords(p)
    PROVE  LocalsInv(p)' /\ Exact(p)'
<1>1. /\ pc[p] = "ListRecords" /\ zone # 0 /\ zid[p] = zone
      /\ current'[p] = live
      /\ UNCHANGED <<zoneVars, spec, zid, pos, taken, deleted>>
  BY DEF ListRecords, TypeOK, ListingsOK
<1>2. taken[p] = {} /\ deleted[p] = {}
  BY <1>1 DEF LocalsInv, Loops
<1>3. LocalsInv(p)'
  BY <1>1, <1>2 DEF LocalsInv
<1>4. Exact(p)'
  BY <1>1, <1>2 DEF Exact, zoneVars
<1> QED BY <1>3, <1>4

LEMMA OwnKeepStep ==
    ASSUME TypeOK, NEW p \in Ops, LocalsInv(p), KeepRecord(p)
    PROVE  LocalsInv(p)' /\ (Exact(p) => Exact(p)')
<1>0. CallsOK /\ ListingsOK
  BY DEF TypeOK
<1>1. PICK c \in existing(p) : Take(p, c)
  BY DEF KeepRecord
<1>2. /\ Applying(p)
      /\ UNCHANGED <<zoneVars, pc, spec, zid, current, deleted>>
      /\ pos'[p] = pos[p] + 1
      /\ taken'[p] = taken[p] \cup {c.id}
  BY <1>0, <1>1 DEF KeepRecord, Take, Advance, CallsOK
<1>3. \A k : Past(p, k) \/ k = recordKey(Record(p)) => Past(p, k)'
  BY <1>0, <1>2, PastGrows
<1>4. c \in current[p] /\ recordKey(c) = recordKey(Record(p))
  BY <1>1 DEF existing
<1>5. \A d \in current[p] : d.id = c.id => d = c
  BY <1>0, <1>4 DEF ListingsOK
<1>6. LocalsInv(p)'
  BY <1>2, <1>3, <1>4, <1>5 DEF LocalsInv, Desired, Applying, Loops
<1>7. Exact(p) => Exact(p)'
  BY <1>2, <1>3 DEF Exact, zoneVars
<1> QED BY <1>6, <1>7

LEMMA OwnChangeStep ==
    ASSUME TypeOK, NEW p \in Ops, LocalsInv(p), ChangeRecord(p)
    PROVE  LocalsInv(p)' /\ (Exact(p) => Exact(p)')
<1>0. CallsOK /\ ListingsOK /\ live \subseteq LiveRecord
  BY DEF TypeOK, ServiceOK
<1>r. PICK req \in UpdateRequests(p) :
          Serve(req) /\ taken' = [taken EXCEPT ![p] = @ \cup {req.id}]
  BY DEF ChangeRecord, Send
<1>c. PICK c \in existing(p) :
          Applying(p) /\ req = Request("UpdateRecord", zid[p], c.id, Record(p))
  BY <1>r DEF UpdateRequests
<1>1. /\ Applying(p)
      /\ Serve(Request("UpdateRecord", zid[p], c.id, Record(p)))
      /\ taken' = [taken EXCEPT ![p] = @ \cup {c.id}]
  BY <1>r, <1>c DEF Request
<1>2. /\ UNCHANGED <<pc, spec, zid, current, deleted>>
      /\ pos'[p] = pos[p] + 1
      /\ taken'[p] = taken[p] \cup {c.id}
  BY <1>0, <1>1 DEF ChangeRecord, Advance, CallsOK
<1>3. \A k : Past(p, k) \/ k = recordKey(Record(p)) => Past(p, k)'
  BY <1>0, <1>1, <1>2, PastGrows
<1>4. c \in current[p] /\ recordKey(c) = recordKey(Record(p))
  BY <1>1 DEF existing
<1>5. \A d \in current[p] : d.id = c.id => d = c
  BY <1>0, <1>4 DEF ListingsOK
<1>6. LocalsInv(p)'
  BY <1>1, <1>2, <1>3, <1>4, <1>5 DEF LocalsInv, Desired, Applying, Loops
<1>7. ASSUME Exact(p) PROVE Exact(p)'
  <2> DEFINE edited(old) == editRecordBody(old, Record(p))
  <2>1. /\ live' = (live \ WithId(c.id)) \cup {edited(old) : old \in WithId(c.id)}
        /\ zone' = zone
    BY <1>1 DEF Serve, Request, UpdateRecord
  <2>2. \A old \in live : edited(old).id = old.id
    BY <1>0, <1>1, RecordTyped, EditedRecord
  <2>3. \A old \in live : recordKey(edited(old)) = recordKey(Record(p))
    BY <1>0, <1>1, RecordTyped, EditedRecord
  <2>4. WithId(c.id) \subseteq live
    BY DEF WithId
  <2> HIDE DEF edited
  <2>5. \A r \in live : \E s \in live' : s.id = r.id
    BY <2>1, <2>2, <2>4
  <2>6. \A s \in live' : \/ s \in live
                         \/ recordKey(s) = recordKey(Record(p))
    BY <2>1, <2>3, <2>4
  <2> QED BY <1>2, <1>3, <1>7, <2>1, <2>5, <2>6 DEF Exact
<1> QED BY <1>6, <1>7

LEMMA OwnAddStep ==
    ASSUME TypeOK, NEW p \in Ops, LocalsInv(p), AddRecord(p)
    PROVE  LocalsInv(p)' /\ (Exact(p) => Exact(p)')
<1>0. CallsOK /\ nextId \in Nat \ {0}
  BY DEF TypeOK, ServiceOK
<1>1. Applying(p) /\ Serve(Request("CreateRecord", zid[p], 0, Record(p)))
  BY DEF AddRecord, CreateRequests, Send
<1>2. /\ UNCHANGED <<pc, spec, zid, current, taken, deleted>>
      /\ pos'[p] = pos[p] + 1
  BY <1>0 DEF AddRecord, Advance, CallsOK
<1>3. \A k : Past(p, k) \/ k = recordKey(Record(p)) => Past(p, k)'
  BY <1>0, <1>1, <1>2, PastGrows
<1>4. LocalsInv(p)'
  BY <1>1, <1>2, <1>3 DEF LocalsInv, Desired, Applying, Loops
<1>5. ASSUME Exact(p) PROVE Exact(p)'
  <2> DEFINE new == newRecordBody(nextId, Record(p))
  <2>1. live' = live \cup {new} /\ zone' = zone
    BY <1>1 DEF Serve, Request, CreateRecord
  <2>2. recordKey(new) = recordKey(Record(p))
    BY <1>0, <1>1, RecordTyped, NewRecord
  <2> HIDE DEF new
  <2> QED BY <1>2, <1>3, <1>5, <2>1, <2>2 DEF Exact
<1> QED BY <1>4, <1>5

LEMMA OwnRemoveStep ==
    ASSUME SafeInv, NEW p \in Ops, LocalsInv(p), RemoveRecord(p)
    PROVE  LocalsInv(p)' /\ (Exact(p) => Exact(p)')
<1>0. TypeOK /\ CallsOK /\ ListingsOK
  BY DEF SafeInv, TypeOK
<1>1. PICK req \in DeleteRequests(p) :
          Serve(req) /\ deleted' = [deleted EXCEPT ![p] = @ \cup {req.id}]
  BY DEF RemoveRecord, Send
<1>2. PICK c \in conflicts(p) \cup staleMarkers(p) \cup unlisted(p) :
          /\ req = Request("DeleteRecord", zid[p], c.id, NoRecord)
          /\ pc[p] = "applyRecords" => Applying(p) /\ c \in conflicts(p)
          /\ pc[p] \in Loops
  BY <1>1 DEF DeleteRequests, Applying, Loops
<1>3. c \in current[p]
  BY <1>2 DEF conflicts, staleMarkers, unlisted
<1>4. /\ UNCHANGED <<pc, spec, zid, current, pos, taken>>
      /\ deleted'[p] = deleted[p] \cup {c.id}
  BY <1>0, <1>1, <1>2 DEF RemoveRecord, CallsOK, Request
<1>5. \A k : Past(p, k)' <=> Past(p, k)
  BY <1>4 DEF Past, Desired
<1>6. \A d \in current[p] : d.id = c.id => d = c
  BY <1>0, <1>3 DEF ListingsOK
<1>7. pc[p] = "applyRecords" /\ Consistent(spec[p]) =>
          recordKey(c) \notin Keys(Desired(p))
  BY <1>0, <1>2, ConflictsUndeclared
<1>8. LocalsInv(p)'
  BY <1>2, <1>4, <1>5, <1>6, <1>7 DEF LocalsInv, Desired
<1>9. ASSUME Exact(p) PROVE Exact(p)'
  <2>1. live' = live \ WithId(c.id) /\ zone' = zone
    BY <1>1, <1>2 DEF Serve, Request, DeleteRecord
  <2> QED BY <1>4, <1>5, <1>9, <2>1 DEF Exact, WithId
<1> QED BY <1>8, <1>9

LEMMA OwnLoopStep ==
    ASSUME TypeOK, NEW p \in Ops, LocalsInv(p), NextLoop(p)
    PROVE  LocalsInv(p)' /\ (Exact(p) => Exact(p)') /\ pc[p] \in Loops
<1>1. /\ UNCHANGED <<zoneVars, spec, zid, current, pos, taken, deleted>>
      /\ pc[p] \in Loops
      /\ pc'[p] \in {"deleteMarkers", "deleteUnlisted", "readOutput"}
  BY DEF NextLoop, Goto, callVars, Loops, TypeOK, CallsOK
<1>2. \A k : Past(p, k)' <=> Past(p, k)
  BY <1>1 DEF Past, Desired
<1> QED BY <1>1, <1>2 DEF LocalsInv, Exact, zoneVars, Loops

-----------------------------------------------------------------------------

LEMMA UndisturbedInit == Init => UndisturbedInv
<1> SUFFICES ASSUME Init PROVE UndisturbedInv
  OBVIOUS
<1>1. SafeInv /\ NoClash
  BY SafeInit, ClashInit
<1>2. \A p \in Ops : LocalsInv(p) /\ disturbed[p]
  BY DEF Init, InitWith, LocalsInv, Loops
<1> QED BY <1>1, <1>2 DEF UndisturbedInv

LEMMA UndisturbedStep == UndisturbedInv /\ SafeInv' /\ [Next]_vars => UndisturbedInv'
<1> SUFFICES ASSUME UndisturbedInv, SafeInv', [Next]_vars PROVE UndisturbedInv'
  OBVIOUS
<1> DEFINE Good(p) == LocalsInv(p) /\ (~disturbed[p] /\ pc[p] \in Loops => Exact(p))
<1>0. SafeInv /\ TypeOK /\ NoClash /\ disturbed \in [Ops -> BOOLEAN] /\ \A p \in Ops : Good(p)
  BY DEF UndisturbedInv, SafeInv, TypeOK
<1>1. NoClash'
  BY <1>0, ClashStep
<1>2. ASSUME NEW q \in Ops, Start(q) \/ Step(q) \/ Fail(q) \/ Lose(q),
             NEW p \in Ops
      PROVE  Good(p)'
  <2>1. CASE p # q
    BY <1>0, <1>2, <2>1, StepOfAnother, SameInv
  <2>2. CASE p = q
    <3>1. CASE \/ Start(p) \/ FindZone(p) \/ MissZone(p) \/ MakeZone(p)
               \/ RemoveZone(p) \/ RefuseConflict(p) \/ ReadOutput(p)
               \/ Refused(p) \/ Fail(p) \/ Lose(p)
      BY <1>0, <3>1, OwnIdleStep
    <3>2. CASE ListRecords(p)
      BY <1>0, <3>2, OwnListStep
    <3>3. CASE KeepRecord(p)
      <4>1. pc[p] \in Loops /\ disturbed' = disturbed
        BY <3>3 DEF KeepRecord, Applying, Loops
      <4> QED BY <1>0, <3>3, <4>1, OwnKeepStep
    <3>4. CASE ChangeRecord(p)
      <4>1. pc[p] \in Loops /\ disturbed'[p] = disturbed[p]
        BY <1>0, <3>4 DEF ChangeRecord, UpdateRequests, Applying, Loops, Send, Disturb
      <4> QED BY <1>0, <3>4, <4>1, OwnChangeStep
    <3>5. CASE AddRecord(p)
      <4>1. pc[p] \in Loops /\ disturbed'[p] = disturbed[p]
        BY <1>0, <3>5 DEF AddRecord, CreateRequests, Applying, Loops, Send, Disturb
      <4> QED BY <1>0, <3>5, <4>1, OwnAddStep
    <3>6. CASE RemoveRecord(p)
      <4>1. pc[p] \in Loops /\ disturbed'[p] = disturbed[p]
        BY <1>0, <3>6 DEF RemoveRecord, DeleteRequests, Applying, Loops, Send, Disturb
      <4> QED BY <1>0, <3>6, <4>1, OwnRemoveStep
    <3>7. CASE NextLoop(p)
      <4>1. disturbed' = disturbed
        BY <3>7 DEF NextLoop
      <4> QED BY <1>0, <3>7, <4>1, OwnLoopStep
    <3> QED BY <1>2, <2>2, <3>1, <3>2, <3>3, <3>4, <3>5, <3>6, <3>7 DEF Step
  <2> QED BY <2>1, <2>2
<1>3. ASSUME (\E req \in limbo : Arrive(req)) \/ Outside \/ UNCHANGED vars,
             NEW p \in Ops
      PROVE  Good(p)'
  <2>1. Same(p)
    BY <1>3 DEF Arrive, Outside, vars, callVars, Same
  <2>2. disturbed'[p] \/ (disturbed'[p] = disturbed[p] /\ UNCHANGED zoneVars)
    BY <1>3 DEF Arrive, Outside, DisturbAll, vars, zoneVars
  <2> QED BY <1>0, <2>1, <2>2, SameInv
<1>4. \A p \in Ops : Good(p)'
  BY <1>2, <1>3 DEF Next
<1> QED BY <1>1, <1>4 DEF UndisturbedInv

THEOREM UndisturbedInvariant == Spec => []UndisturbedInv
BY UndisturbedInit, UndisturbedStep, SafeInvariant, PTL DEF Spec

-----------------------------------------------------------------------------
(* What a call that is not disturbed may rely on *)

\* Where a call is about to create a record, no record has its key.
LEMMA AddsNoDuplicate ==
    ASSUME UndisturbedInv, NEW p \in Ops, ~disturbed[p], Applying(p),
           existing(p) = {}
    PROVE  ~Present(recordKey(Record(p)), live)
<1>0. CallsOK /\ Tracked(p) /\ LocalsInv(p) /\ Exact(p)
  BY DEF UndisturbedInv, SafeInv, TypeOK, Tracking, Trusted, Applying, Loops
<1> SUFFICES ASSUME NEW r \in live, recordKey(r) = recordKey(Record(p))
             PROVE  FALSE
  BY DEF Present
<1>1. ~Past(p, recordKey(Record(p)))
  BY <1>0, NotPast
<1>2. PICK c \in current[p] : c.id = r.id
  BY <1>0, <1>1 DEF Exact
<1>3. recordKey(c) = recordKey(Record(p))
  BY <1>0, <1>2 DEF Tracked
<1>4. c.id \in taken[p]
  BY <1>2, <1>3 DEF existing
<1> QED BY <1>0, <1>1, <1>3, <1>4 DEF LocalsInv

\* An undisturbed call never adds a second record of a key.
THEOREM NeverDuplicates == Spec => []NoDuplicates
<1>1. UndisturbedInv => NoDuplicates
  BY AddsNoDuplicate DEF NoDuplicates, CreateRequests, Request
<1> QED BY <1>1, UndisturbedInvariant, PTL

\* The service carries out what an undisturbed call asks of it.
LEMMA AcceptedRequests ==
    ASSUME UndisturbedInv, NEW p \in Ops, ~disturbed[p], Consistent(spec[p]),
           NEW req \in CreateRequests(p) \cup UpdateRequests(p) \cup DeleteRequests(p)
    PROVE  Accepts(req)
<1>1. pc[p] \in Loops
  BY DEF CreateRequests, UpdateRequests, DeleteRequests, Applying, Loops
<1>0. CallsOK /\ Tracked(p) /\ LocalsInv(p) /\ Exact(p)
  BY <1>1 DEF UndisturbedInv, SafeInv, TypeOK, Tracking, Trusted
<1>2. CASE req \in CreateRequests(p)
  <2>1. /\ Applying(p) /\ existing(p) = {} /\ conflicts(p) = {}
        /\ req = Request("CreateRecord", zid[p], 0, Record(p))
    BY <1>2 DEF CreateRequests
  <2>2. pos[p] \in DOMAIN Desired(p)
    BY <1>0, <2>1, RecordTyped
  <2>3. \A i \in DOMAIN Desired(p) : i # pos[p] => ~AliasClash(Desired(p)[i], Record(p))
    BY <2>2 DEF Consistent, Desired, Record
  <2>4. ASSUME NEW r \in live PROVE ~AliasClash(r, Record(p))
    <3>1. recordKey(r) # recordKey(Record(p))
      BY <2>1, AddsNoDuplicate DEF Present
    <3>2. CASE recordKey(r) \in desiredKeys(p) \/ Past(p, recordKey(r))
      <4>1. PICK i \in DOMAIN Desired(p) : recordKey(Desired(p)[i]) = recordKey(r)
        BY <3>2 DEF desiredKeys, Past
      <4>2. i # pos[p]
        BY <3>1, <4>1 DEF Record
      <4> QED BY <2>3, <4>1, <4>2, ClashByKey
    <3>3. CASE ~(recordKey(r) \in desiredKeys(p) \/ Past(p, recordKey(r)))
      <4>1. PICK c \in current[p] : c.id = r.id /\ c.id \notin deleted[p]
        BY <1>0, <3>3 DEF Exact
      <4>2. recordKey(c) = recordKey(r)
        BY <1>0, <4>1 DEF Tracked
      <4>3. ~cloudflareAddressAliasRecordsConflict(c, Record(p))
        BY <2>1, <3>3, <4>1, <4>2 DEF conflicts
      <4>4. ~AliasClash(c, Record(p))
        BY <4>3 DEF cloudflareAddressAliasRecordsConflict, AliasClash
      <4> QED BY <4>2, <4>4, ClashByKey
    <3> QED BY <3>2, <3>3
  <2> QED BY <1>0, <2>1, <2>4 DEF Accepts, Request, Exact
<1>3. CASE req \in UpdateRequests(p)
  <2>1. PICK c \in existing(p) :
            /\ Applying(p)
            /\ req = Request("UpdateRecord", zid[p], c.id, Record(p))
    BY <1>3 DEF UpdateRequests
  <2>2. c \in current[p] /\ recordKey(c) = recordKey(Record(p))
    BY <2>1 DEF existing
  <2>3. c.id \notin deleted[p]
    BY <1>0, <2>1, <2>2, DesiredKeys DEF LocalsInv, Applying
  <2>4. PICK old \in live : old.id = c.id
    BY <1>0, <2>2, <2>3 DEF Exact
  <2>5. recordKey(old) = recordKey(Record(p)) /\ old \in WithId(c.id)
    BY <1>0, <2>2, <2>4 DEF Tracked, WithId
  <2>6. \A r \in live \ WithId(c.id) : ~AliasClash(r, old)
    BY <2>5 DEF UndisturbedInv, NoClash
  <2>7. \A r \in live \ WithId(c.id) : ~AliasClash(r, Record(p))
    BY <2>5, <2>6, ClashByKey
  <2> QED BY <1>0, <2>1, <2>5, <2>7 DEF Accepts, Request, Exact
<1>4. CASE req \in DeleteRequests(p)
  <2>1. PICK c \in current[p] :
            /\ c.id \notin deleted[p]
            /\ req = Request("DeleteRecord", zid[p], c.id, NoRecord)
    BY <1>4 DEF DeleteRequests, conflicts, staleMarkers, unlisted
  <2>2. WithId(c.id) # {}
    BY <1>0, <2>1 DEF Exact, WithId
  <2> QED BY <1>0, <2>1, <2>2 DEF Accepts, Request, Exact
<1> QED BY <1>2, <1>3, <1>4

\* The service refuses nothing that an undisturbed call asks of it.
THEOREM NothingRefused == Spec => []NeverRefused
<1>1. UndisturbedInv => NeverRefused
  BY AcceptedRequests DEF NeverRefused
<1> QED BY <1>1, UndisturbedInvariant, PTL

-----------------------------------------------------------------------------
(* What the call has put in place *)

\* p is between its listing and its output.
Busy(p) == pc[p] \in Loops \/ (pc[p] = "readOutput" /\ kind[p] # "Read")

Listed(p, r) == \E c \in current[p] : c.id = r.id

\* The records p has put in place: listed ones it took, and ones it created.
Placed(p) == {r \in live : r.id \in taken[p] \/ ~Listed(p, r)}

\* r is as d declares, but perhaps for a priority that was not sent.
Agrees(r, d) ==
    /\ recordKey(r) = recordKey(d)
    /\ r.ttl = d.ttl
    /\ SendsPriority(d) => r.priority = d.priority
    /\ d.proxied # "unset" => ((r.proxied = "on") <=> (d.proxied = "on"))
    /\ d.comment # "" => r.comment = d.comment

\* A priority that was not sent is what it was before.
Stands(p, r, d) ==
    /\ Agrees(r, d)
    /\ \/ SendsPriority(d) \/ r.priority = 0
       \/ \E c \in current[p] : c.id = r.id /\ c.priority = r.priority

\* The loop over the desired records starts at the first one, and all that is
\* taken or deleted was listed.
LoopLocals(p) ==
    /\ pc[p] \notin Loops \cup {"readOutput"} => pos[p] = 1
    /\ taken[p] \subseteq {c.id : c \in current[p]}
    /\ deleted[p] \subseteq {c.id : c \in current[p]}

\* Listed records are untouched until they are taken or deleted, for each
\* desired record the loop is past just one record is in place, which is none
\* of those deleted, and what a deleting loop is for is gone when it ends.
Applied(p) ==
    /\ Exact(p)
    /\ \A c \in current[p] : c.id \notin taken[p] \cup deleted[p] => c \in live
    /\ \A r \in live : r.id \notin deleted[p]
    /\ \A i \in DOMAIN Desired(p) :
          i < pos[p] => \E r \in Placed(p) : Stands(p, r, Desired(p)[i])
    /\ \A r, s \in Placed(p) : recordKey(r) = recordKey(s) => r = s
    /\ \A r \in live : ~Listed(p, r) =>
          \A c \in current[p] : recordKey(c) # recordKey(r)
    /\ pc[p] # "applyRecords" => pos[p] > Len(Desired(p))
    /\ pc[p] \in {"deleteUnlisted", "readOutput"} => staleMarkers(p) = {}
    /\ pc[p] = "readOutput" => unlisted(p) = {}

AppliedInv ==
    /\ UndisturbedInv
    /\ \A p \in Ops :
          /\ LoopLocals(p)
          /\ Busy(p) /\ ~disturbed[p] /\ Consistent(spec[p]) => Applied(p)

-----------------------------------------------------------------------------
(* Records that agree with a desired one *)

LEMMA NewAgrees ==
    ASSUME NEW id \in Nat \ {0}, NEW d \in DesiredRecord, NEW r,
           r = newRecordBody(id, d)
    PROVE  Agrees(r, d) /\ (SendsPriority(d) \/ r.priority = 0)
<1>1. recordKey(r) = recordKey(d)
  BY NewRecord
<1>2. /\ r.ttl = d.ttl /\ r.comment = d.comment
      /\ r.priority = IF SendsPriority(d) THEN d.priority ELSE 0
      /\ d.proxied # "unset" => r.proxied = d.proxied
  BY DEF newRecordBody
<1> QED BY <1>1, <1>2 DEF Agrees

LEMMA EditAgrees ==
    ASSUME NEW old \in LiveRecord, NEW d \in DesiredRecord, NEW r,
           r = editRecordBody(old, d)
    PROVE  Agrees(r, d) /\ (SendsPriority(d) \/ r.priority = old.priority)
<1>1. recordKey(r) = recordKey(d)
  BY EditedRecord
<1>2. /\ r.ttl = d.ttl /\ (d.comment # "" => r.comment = d.comment)
      /\ r.priority = IF SendsPriority(d) THEN d.priority ELSE old.priority
      /\ d.proxied # "unset" => r.proxied = d.proxied
  BY DEF editRecordBody
<1> QED BY <1>1, <1>2 DEF Agrees

LEMMA MatchAgrees ==
    ASSUME NEW r, NEW d, recordMatches(r, d)
    PROVE  Agrees(r, d)
BY DEF recordMatches, Agrees

-----------------------------------------------------------------------------
(* What is placed *)

\* What the inductive invariants before this one say of an undisturbed call.
LEMMA Undisturbed ==
    ASSUME UndisturbedInv, NEW p \in Ops, ~disturbed[p]
    PROVE  /\ TypeOK /\ CallsOK /\ ListingsOK /\ nextId \in Nat \ {0}
           /\ live \subseteq LiveRecord /\ current[p] \subseteq LiveRecord
           /\ \A r, s \in live : r.id = s.id => r = s
           /\ \A c, d \in current[p] : c.id = d.id => c = d
           /\ \A c \in current[p] : c.id < nextId
           /\ Tracked(p) /\ LocalsInv(p)
BY DEF UndisturbedInv, SafeInv, TypeOK, ServiceOK, ListingsOK, Tracking, Trusted

\* Only records of keys the loop is past are placed.
LEMMA PlacedPast ==
    ASSUME UndisturbedInv, NEW p \in Ops, ~disturbed[p], LoopLocals(p), Exact(p),
           NEW r \in Placed(p)
    PROVE  Past(p, recordKey(r))
<1>0. Tracked(p) /\ LocalsInv(p) /\ r \in live
  BY Undisturbed DEF Placed
<1>1. CASE r.id \in taken[p]
  <2>1. PICK c \in current[p] : c.id = r.id
    BY <1>1 DEF LoopLocals
  <2>2. recordKey(c) = recordKey(r)
    BY <1>0, <2>1 DEF Tracked
  <2> QED BY <1>0, <1>1, <2>1, <2>2 DEF LocalsInv
<1>2. CASE ~Listed(p, r)
  BY <1>0, <1>2 DEF Exact, Listed
<1> QED BY <1>1, <1>2 DEF Placed

\* A record the loop takes is still as it was listed.
LEMMA TakenAsListed ==
    ASSUME UndisturbedInv, NEW p \in Ops, ~disturbed[p], Consistent(spec[p]),
           Applying(p), Applied(p), NEW c \in existing(p)
    PROVE  /\ c \in current[p] /\ c \in live
           /\ c.id \notin taken[p] /\ c.id \notin deleted[p]
           /\ recordKey(c) = recordKey(Record(p))
           /\ \A r \in live : r.id = c.id => r = c
<1>1. /\ c \in current[p] /\ c.id \notin taken[p]
      /\ recordKey(c) = recordKey(Record(p))
  BY DEF existing
<1>2. c.id \notin deleted[p]
  BY <1>1, Undisturbed, DesiredKeys DEF LocalsInv, Applying
<1>3. c \in live
  BY <1>1, <1>2 DEF Applied
<1> QED BY <1>1, <1>2, <1>3, Undisturbed

\* What a deleting loop removes was listed and is neither placed nor deleted.
LEMMA RemovedUnplaced ==
    ASSUME UndisturbedInv, NEW p \in Ops, ~disturbed[p], Consistent(spec[p]),
           LoopLocals(p), Applied(p), NEW req \in DeleteRequests(p)
    PROVE  \E c \in current[p] :
              /\ req = Request("DeleteRecord", zid[p], c.id, NoRecord)
              /\ c.id \notin taken[p] /\ c.id \notin deleted[p]
              /\ \/ recordKey(c) \notin Keys(Desired(p))
                 \/ pc[p] = "deleteMarkers" /\ c \in staleMarkers(p)
<1>0. CallsOK /\ LocalsInv(p)
  BY Undisturbed
<1>1. PICK c \in current[p] :
          /\ req = Request("DeleteRecord", zid[p], c.id, NoRecord)
          /\ \/ Applying(p) /\ c \in conflicts(p)
             \/ pc[p] = "deleteMarkers" /\ c \in staleMarkers(p)
             \/ pc[p] = "deleteUnlisted" /\ c \in unlisted(p)
  BY DEF DeleteRequests, conflicts, staleMarkers, unlisted
<1>2. c.id \notin deleted[p]
  BY <1>1 DEF conflicts, staleMarkers, unlisted
<1>3. CASE pc[p] = "deleteMarkers" /\ c \in staleMarkers(p)
  BY <1>1, <1>2, <1>3 DEF staleMarkers
<1>4. ASSUME recordKey(c) \notin Keys(Desired(p))
      PROVE  c.id \notin taken[p]
  BY <1>0, <1>4 DEF LocalsInv, Past, Keys
<1>5. CASE Applying(p) /\ c \in conflicts(p)
  BY <1>0, <1>1, <1>2, <1>4, <1>5, ConflictsUndeclared
<1>6. CASE pc[p] = "deleteUnlisted" /\ c \in unlisted(p)
  <2>1. pos[p] > Len(Desired(p))
    BY <1>6 DEF Applied
  <2>2. recordKey(c) \notin Keys(Desired(p))
    BY <1>0, <1>6, <2>1, DesiredKeys DEF unlisted
  <2> QED BY <1>1, <1>2, <1>4, <2>2
<1> QED BY <1>1, <1>3, <1>5, <1>6

-----------------------------------------------------------------------------
(* Steps of the call *)

LEMMA ListApplies ==
    ASSUME TypeOK, NEW p \in Ops, LoopLocals(p), LocalsInv(p), ListRecords(p)
    PROVE  LoopLocals(p)' /\ Applied(p)'
<1>1. /\ pc[p] = "ListRecords" /\ pc'[p] = "applyRecords"
      /\ current'[p] = live
      /\ UNCHANGED <<zoneVars, spec, zid, pos, taken, deleted>>
  BY DEF ListRecords, Goto, TypeOK, CallsOK, ListingsOK
<1>2. taken'[p] = {} /\ deleted'[p] = {} /\ pos'[p] = 1
  BY <1>1 DEF LocalsInv, LoopLocals, Loops
<1>3. Exact(p)'
  BY OwnListStep
<1>4. LoopLocals(p)'
  BY <1>1, <1>2 DEF LoopLocals, Loops
<1>5. live' = live /\ \A r \in live' : Listed(p, r)'
  BY <1>1 DEF Listed, zoneVars
<1>6. \A r : r \notin Placed(p)'
  BY <1>2, <1>5 DEF Placed
<1>7. ~(\E i \in DOMAIN Desired(p)' : i < pos'[p])
  <2>1. spec'[p] = spec[p] /\ Desired(p) \in Seq(DesiredRecord)
    BY <1>1, SpecsAssumption DEF TypeOK, CallsOK, Desired, DNSSpecs
  <2> QED BY <1>2, <2>1 DEF Desired
<1>8. Applied(p)'
  BY <1>1, <1>2, <1>3, <1>5, <1>6, <1>7 DEF Applied
<1> QED BY <1>4, <1>8

\* The loop places a record for the desired one it is at, of a key that none
\* of the placed records has.
LEMMA PlaceApplies ==
    ASSUME UndisturbedInv, NEW p \in Ops, ~disturbed[p], LoopLocals(p), Applied(p),
           Applying(p), Exact(p)',
           UNCHANGED <<pc, spec, current, deleted>>, pos'[p] = pos[p] + 1,
           NEW e, e \in live', recordKey(e) = recordKey(Record(p)),
           Placed(p)' = Placed(p) \cup {e},
           Stands(p, e, Record(p)),
           \A c \in current[p] : c.id \notin taken'[p] \cup deleted[p] => c \in live',
           \A r \in live' : r.id \notin deleted[p],
           \A r \in live' : ~Listed(p, r) =>
               \A c \in current[p] : recordKey(c) # recordKey(r)
    PROVE  Applied(p)'
<1>0. CallsOK
  BY Undisturbed
<1>1. /\ pos[p] \in DOMAIN Desired(p) /\ Desired(p)' = Desired(p)
      /\ \A r : Listed(p, r)' <=> Listed(p, r)
      /\ \A r, d : Stands(p, r, d)' <=> Stands(p, r, d)
  BY <1>0, RecordTyped DEF Desired, Listed, Stands
<1>2. \A i \in DOMAIN Desired(p)' :
          i < pos'[p] => \E r \in Placed(p)' : Stands(p, r, Desired(p)[i])'
  <2> SUFFICES ASSUME NEW i \in DOMAIN Desired(p), i < pos[p] + 1
               PROVE  \E r \in Placed(p)' : Stands(p, r, Desired(p)[i])
    BY <1>1
  <2>1. i \in Nat /\ pos[p] \in Nat
    BY <1>0, SpecsAssumption DEF CallsOK, Desired, DNSSpecs
  <2>2. CASE i < pos[p]
    BY <2>2 DEF Applied
  <2>3. CASE i = pos[p]
    BY <1>1, <2>3 DEF Record
  <2> QED BY <2>1, <2>2, <2>3
<1>3. \A r, s \in Placed(p)' : recordKey(r) = recordKey(s) => r = s
  <2>1. \A r \in Placed(p) : recordKey(r) # recordKey(Record(p))
    BY <1>0, PlacedPast, NotPast DEF Applied
  <2> QED BY <2>1 DEF Applied
<1>4. pc'[p] = "applyRecords"
  BY DEF Applying
<1> QED BY <1>1, <1>2, <1>3, <1>4 DEF Applied

LEMMA KeepApplies ==
    ASSUME UndisturbedInv, NEW p \in Ops, ~disturbed[p], Consistent(spec[p]),
           LoopLocals(p), Applied(p), KeepRecord(p)
    PROVE  Applied(p)'
<1>0. CallsOK /\ Applying(p)
  BY Undisturbed DEF KeepRecord
<1>1. PICK c \in existing(p) : recordMatches(c, Record(p)) /\ Take(p, c)
  BY DEF KeepRecord
<1>2. /\ UNCHANGED <<zoneVars, pc, spec, current, deleted>>
      /\ live' = live
      /\ pos'[p] = pos[p] + 1
      /\ taken'[p] = taken[p] \cup {c.id}
  BY <1>0, <1>1 DEF KeepRecord, Take, Advance, CallsOK, zoneVars
<1>3. /\ c \in current[p] /\ c \in live
      /\ recordKey(c) = recordKey(Record(p))
      /\ \A r \in live : r.id = c.id => r = c
  BY <1>0, TakenAsListed
<1>4. Exact(p)'
  BY Undisturbed, OwnKeepStep DEF Applied
<1>5. \A r : Listed(p, r)' <=> Listed(p, r)
  BY <1>2 DEF Listed
<1>6. Placed(p)' = Placed(p) \cup {c}
  BY <1>2, <1>3, <1>5 DEF Placed
<1>7. Stands(p, c, Record(p))
  BY <1>1, <1>3, MatchAgrees DEF Stands
<1> QED BY <1>0, <1>2, <1>3, <1>4, <1>6, <1>7, PlaceApplies DEF Applied

LEMMA ChangeApplies ==
    ASSUME UndisturbedInv, NEW p \in Ops, ~disturbed[p], Consistent(spec[p]),
           LoopLocals(p), Applied(p), ChangeRecord(p)
    PROVE  Applied(p)'
<1>0. /\ CallsOK /\ live \subseteq LiveRecord /\ current[p] \subseteq LiveRecord
      /\ TypeOK /\ LocalsInv(p)
  BY Undisturbed
<1>r. PICK req \in UpdateRequests(p) :
          Serve(req) /\ taken' = [taken EXCEPT ![p] = @ \cup {req.id}]
  BY DEF ChangeRecord, Send
<1>1. PICK c \in existing(p) :
          Applying(p) /\ req = Request("UpdateRecord", zid[p], c.id, Record(p))
  BY <1>r DEF UpdateRequests
<1>2. /\ UNCHANGED <<pc, spec, current, deleted>>
      /\ pos'[p] = pos[p] + 1
      /\ taken'[p] = taken[p] \cup {c.id}
  BY <1>0, <1>1, <1>r DEF ChangeRecord, Advance, CallsOK, Request
<1>3. /\ c \in current[p] /\ c \in live
      /\ c.id \notin taken[p] /\ c.id \notin deleted[p]
      /\ \A r \in live : r.id = c.id => r = c
  BY <1>1, TakenAsListed
<1> DEFINE e == editRecordBody(c, Record(p))
<1>4. WithId(c.id) = {c}
  BY <1>3 DEF WithId
<1>5. live' = (live \ {c}) \cup {e}
  BY <1>1, <1>4, <1>r DEF Serve, Request, UpdateRecord
<1>6. /\ e.id = c.id /\ recordKey(e) = recordKey(Record(p))
      /\ Agrees(e, Record(p))
      /\ SendsPriority(Record(p)) \/ e.priority = c.priority
  BY <1>0, <1>1, <1>3, RecordTyped, EditedRecord, EditAgrees
<1> HIDE DEF e
<1>7. \A r : Listed(p, r)' <=> Listed(p, r)
  BY <1>2 DEF Listed
<1>8. Listed(p, e) /\ Listed(p, c)
  BY <1>3, <1>6 DEF Listed
<1>9. Placed(p)' = Placed(p) \cup {e}
  <2>1. c \notin Placed(p) /\ e \in Placed(p)'
    BY <1>2, <1>3, <1>5, <1>6, <1>8 DEF Placed
  <2>2. \A r : r \in live /\ r # c => r.id # c.id
    BY <1>3
  <2>3. \A r : r \in live /\ r # c => (r \in Placed(p)' <=> r \in Placed(p))
    BY <1>2, <1>5, <1>7, <2>2 DEF Placed
  <2>4. Placed(p) \subseteq live /\ Placed(p)' \subseteq live'
    BY DEF Placed
  <2> QED BY <1>5, <2>1, <2>3, <2>4
<1>10. Stands(p, e, Record(p))
  BY <1>3, <1>6 DEF Stands
<1>11. Exact(p)'
  BY <1>0, OwnChangeStep DEF Applied
<1>12. \A d \in current[p] : d.id \notin taken'[p] \cup deleted[p] => d \in live'
  BY <1>2, <1>5 DEF Applied
<1>13. \A r \in live' : r.id \notin deleted[p]
  BY <1>3, <1>5, <1>6 DEF Applied
<1>14. \A r \in live' : ~Listed(p, r) =>
           \A d \in current[p] : recordKey(d) # recordKey(r)
  BY <1>5, <1>8 DEF Applied
<1> QED BY <1>1, <1>2, <1>5, <1>6, <1>9, <1>10, <1>11, <1>12, <1>13, <1>14, PlaceApplies

LEMMA AddApplies ==
    ASSUME UndisturbedInv, NEW p \in Ops, ~disturbed[p],
           LoopLocals(p), Applied(p), AddRecord(p)
    PROVE  Applied(p)'
<1>0. /\ CallsOK /\ TypeOK /\ LocalsInv(p) /\ nextId \in Nat \ {0}
      /\ \A c \in current[p] : c.id \in Nat /\ c.id < nextId
      /\ \A r \in live : r.id \in Nat /\ r.id < nextId
  BY Undisturbed DEF LiveRecord, TypeOK, ServiceOK
<1>1. /\ Applying(p) /\ existing(p) = {}
      /\ Serve(Request("CreateRecord", zid[p], 0, Record(p)))
  BY DEF AddRecord, CreateRequests, Send
<1>2. /\ UNCHANGED <<pc, spec, current, deleted>>
      /\ pos'[p] = pos[p] + 1
      /\ taken'[p] = taken[p]
  BY <1>0 DEF AddRecord, Advance, CallsOK
<1> DEFINE e == newRecordBody(nextId, Record(p))
<1>3. live' = live \cup {e}
  BY <1>1 DEF Serve, Request, CreateRecord
<1>4. /\ e.id = nextId /\ recordKey(e) = recordKey(Record(p))
      /\ Agrees(e, Record(p)) /\ (SendsPriority(Record(p)) \/ e.priority = 0)
  BY <1>0, <1>1, RecordTyped, NewRecord, NewAgrees
<1> HIDE DEF e
<1>5. \A r : Listed(p, r)' <=> Listed(p, r)
  BY <1>2 DEF Listed
<1>6. ~Listed(p, e) /\ e.id \notin deleted[p]
  BY <1>0, <1>4 DEF Listed, LoopLocals
<1>7. Placed(p)' = Placed(p) \cup {e}
  BY <1>2, <1>3, <1>5, <1>6 DEF Placed
<1>8. \A c \in current[p] : recordKey(c) # recordKey(e)
  <2> SUFFICES ASSUME NEW c \in current[p], recordKey(c) = recordKey(Record(p))
               PROVE  FALSE
    BY <1>4
  <2>1. c.id \in taken[p]
    BY <1>1 DEF existing
  <2> QED BY <1>0, <1>1, <2>1, NotPast DEF LocalsInv
<1>9. Stands(p, e, Record(p))
  BY <1>4 DEF Stands
<1>10. Exact(p)'
  BY <1>0, OwnAddStep DEF Applied
<1>11. \A c \in current[p] : c.id \notin taken'[p] \cup deleted[p] => c \in live'
  BY <1>2, <1>3 DEF Applied
<1>12. \A r \in live' : r.id \notin deleted[p]
  BY <1>3, <1>6 DEF Applied
<1>13. \A r \in live' : ~Listed(p, r) =>
           \A c \in current[p] : recordKey(c) # recordKey(r)
  BY <1>3, <1>8 DEF Applied
<1> QED BY <1>1, <1>2, <1>3, <1>4, <1>7, <1>9, <1>10, <1>11, <1>12, <1>13, PlaceApplies

LEMMA RemoveApplies ==
    ASSUME UndisturbedInv, NEW p \in Ops, ~disturbed[p], Consistent(spec[p]),
           LoopLocals(p), Applied(p), RemoveRecord(p)
    PROVE  Applied(p)'
<1>0. SafeInv /\ CallsOK /\ LocalsInv(p)
  BY Undisturbed DEF UndisturbedInv
<1>1. PICK req \in DeleteRequests(p) :
          Serve(req) /\ deleted' = [deleted EXCEPT ![p] = @ \cup {req.id}]
  BY DEF RemoveRecord, Send
<1>2. PICK c \in current[p] :
          /\ req = Request("DeleteRecord", zid[p], c.id, NoRecord)
          /\ c.id \notin taken[p]
  BY RemovedUnplaced
<1>3. live' = live \ WithId(c.id)
  BY <1>1, <1>2 DEF Serve, Request, DeleteRecord
<1>4. /\ UNCHANGED <<pc, spec, current, pos, taken>>
      /\ deleted'[p] = deleted[p] \cup {c.id}
  BY <1>0, <1>1, <1>2 DEF RemoveRecord, CallsOK, Request
<1>5. /\ Desired(p)' = Desired(p)
      /\ \A r : Listed(p, r)' <=> Listed(p, r)
      /\ \A r, d : Stands(p, r, d)' <=> Stands(p, r, d)
  BY <1>4 DEF Desired, Listed, Stands
<1>6. Placed(p)' = Placed(p)
  <2>1. \A r \in Placed(p) : r.id # c.id
    BY <1>2 DEF Placed, Listed
  <2> QED BY <1>3, <1>4, <1>5, <2>1 DEF Placed, WithId
<1>7. Exact(p)'
  BY <1>0, OwnRemoveStep DEF Applied
<1>8. \A d \in current'[p] : d.id \notin taken'[p] \cup deleted'[p] => d \in live'
  BY <1>3, <1>4 DEF Applied, WithId
<1>9. \A r \in live' : r.id \notin deleted'[p]
  BY <1>3, <1>4 DEF Applied, WithId
<1>10. staleMarkers(p)' \subseteq staleMarkers(p) /\ unlisted(p)' \subseteq unlisted(p)
  BY <1>4 DEF staleMarkers, unlisted, cleanupManagedMarkers, desiredKeys, Desired
<1>11. live' \subseteq live
  BY <1>3
<1>12. \A i \in DOMAIN Desired(p)' :
          i < pos'[p] => \E r \in Placed(p)' : Stands(p, r, Desired(p)[i])'
  BY <1>4, <1>5, <1>6 DEF Applied
<1> QED BY <1>4, <1>5, <1>6, <1>7, <1>8, <1>9, <1>10, <1>11, <1>12 DEF Applied

LEMMA LoopApplies ==
    ASSUME UndisturbedInv, NEW p \in Ops, ~disturbed[p], Applied(p), NextLoop(p)
    PROVE  Applied(p)'
<1>0. CallsOK /\ TypeOK /\ LocalsInv(p)
  BY Undisturbed
<1>1. /\ UNCHANGED <<zoneVars, spec, zid, current, pos, taken, deleted>>
      /\ live' = live
      /\ \/ pc[p] = "applyRecords" /\ pos[p] > Len(Desired(p)) /\ pc'[p] = "deleteMarkers"
         \/ /\ pc[p] = "deleteMarkers" /\ staleMarkers(p) = {}
            /\ pc'[p] = IF spec[p].manage THEN "deleteUnlisted" ELSE "readOutput"
         \/ pc[p] = "deleteUnlisted" /\ unlisted(p) = {} /\ pc'[p] = "readOutput"
  BY <1>0 DEF NextLoop, Goto, callVars, zoneVars, CallsOK
<1>2. /\ Desired(p)' = Desired(p)
      /\ Placed(p)' = Placed(p)
      /\ staleMarkers(p)' = staleMarkers(p) /\ unlisted(p)' = unlisted(p)
      /\ \A r : Listed(p, r)' <=> Listed(p, r)
      /\ \A r, d : Stands(p, r, d)' <=> Stands(p, r, d)
  BY <1>1 DEF Desired, Placed, Listed, Stands, staleMarkers, unlisted,
              cleanupManagedMarkers, desiredKeys
<1>3. Exact(p)'
  BY <1>0, OwnLoopStep DEF Applied
<1>4. ~spec[p].manage => unlisted(p) = {}
  BY DEF unlisted
<1>5. \A i \in DOMAIN Desired(p)' :
          i < pos'[p] => \E r \in Placed(p)' : Stands(p, r, Desired(p)[i])'
  BY <1>1, <1>2 DEF Applied
<1>6. pos'[p] > Len(Desired(p)')
  BY <1>1, <1>2 DEF Applied
<1> QED BY <1>1, <1>2, <1>3, <1>4, <1>5, <1>6 DEF Applied

-----------------------------------------------------------------------------
(* The invariant *)

LEMMA IdleApplies ==
    ASSUME TypeOK, NEW p \in Ops, LoopLocals(p),
           \/ Start(p) \/ FindZone(p) \/ MissZone(p) \/ MakeZone(p) \/ RemoveZone(p)
           \/ RefuseConflict(p) \/ ReadOutput(p) \/ Refused(p) \/ Fail(p) \/ Lose(p)
    PROVE  LoopLocals(p)' /\ ~Busy(p)'
<1>0. CallsOK /\ ListingsOK
  BY DEF TypeOK
<1>1. CASE Start(p) \/ FindZone(p) \/ MakeZone(p)
           \/ (MissZone(p) /\ Goto(p, "CreateZone") /\ UNCHANGED callVars)
  <2>1. /\ pc[p] \notin Loops \cup {"readOutput"} /\ pc'[p] \notin Loops
        /\ pc'[p] = "readOutput" => kind'[p] = "Read"
        /\ UNCHANGED <<current, pos, taken, deleted>>
    BY <1>0, <1>1 DEF Start, Begin, FindZone, MakeZone, MissZone, Goto, FirstStep,
                      CallsOK, callVars, Loops
  <2> QED BY <2>1 DEF LoopLocals, Busy
<1>2. ASSUME NEW how, NEW records, Return(p, how, records)
      PROVE  LoopLocals(p)' /\ ~Busy(p)'
  <2>1. /\ pc'[p] = "ready" /\ pos'[p] = 1
        /\ current'[p] = {} /\ taken'[p] = {} /\ deleted'[p] = {}
    BY <1>0, <1>2 DEF Return, CallsOK, ListingsOK
  <2> QED BY <2>1 DEF LoopLocals, Busy, Loops
<1> QED BY <1>1, <1>2 DEF MissZone, RemoveZone, RefuseConflict, ReadOutput,
                          Refused, Fail, Lose

LEMMA LoopLocalsStep ==
    ASSUME TypeOK, NEW p \in Ops, LoopLocals(p),
           KeepRecord(p) \/ ChangeRecord(p) \/ RemoveRecord(p)
           \/ AddRecord(p) \/ NextLoop(p)
    PROVE  LoopLocals(p)' /\ Busy(p)
<1>0. CallsOK
  BY DEF TypeOK
<1>1. /\ Busy(p) /\ pc'[p] \in Loops \cup {"readOutput"}
      /\ UNCHANGED <<current>>
  BY <1>0 DEF KeepRecord, ChangeRecord, UpdateRequests, RemoveRecord,
              DeleteRequests, AddRecord, CreateRequests, NextLoop, Applying, Goto,
              callVars, CallsOK, Busy, Loops
<1>2. \/ \E c \in current[p] : /\ taken'[p] \subseteq taken[p] \cup {c.id}
                                /\ deleted'[p] \subseteq deleted[p] \cup {c.id}
      \/ taken'[p] = taken[p] /\ deleted'[p] = deleted[p]
  <2>1. CASE KeepRecord(p)
    BY <1>0, <2>1 DEF KeepRecord, Take, existing, CallsOK
  <2>2. CASE ChangeRecord(p)
    <3>1. PICK req \in UpdateRequests(p) : taken' = [taken EXCEPT ![p] = @ \cup {req.id}]
      BY <2>2 DEF ChangeRecord
    <3>2. PICK c \in current[p] : req.id = c.id
      BY <3>1 DEF UpdateRequests, existing, Request
    <3> QED BY <1>0, <2>2, <3>1, <3>2 DEF ChangeRecord, CallsOK
  <2>3. CASE RemoveRecord(p)
    <3>1. PICK req \in DeleteRequests(p) : deleted' = [deleted EXCEPT ![p] = @ \cup {req.id}]
      BY <2>3 DEF RemoveRecord
    <3>2. PICK c \in current[p] : req.id = c.id
      BY <3>1 DEF DeleteRequests, conflicts, staleMarkers, unlisted, Request
    <3> QED BY <1>0, <2>3, <3>1, <3>2 DEF RemoveRecord, CallsOK
  <2>4. CASE AddRecord(p) \/ NextLoop(p)
    BY <2>4 DEF AddRecord, NextLoop, callVars
  <2> QED BY <2>1, <2>2, <2>3, <2>4
<1> QED BY <1>1, <1>2 DEF LoopLocals

\* What holds of p is not touched by the step of another.
LEMMA SameApplies ==
    ASSUME NEW p \in Ops, LoopLocals(p),
           Busy(p) /\ ~disturbed[p] /\ Consistent(spec[p]) => Applied(p),
           Same(p),
           disturbed'[p] \/ (disturbed'[p] = disturbed[p] /\ UNCHANGED zoneVars)
    PROVE  /\ LoopLocals(p)'
           /\ (Busy(p) /\ ~disturbed[p] /\ Consistent(spec[p]) => Applied(p))'
<1>1. LoopLocals(p)'
  BY DEF Same, LoopLocals
<1>2. ASSUME UNCHANGED zoneVars, Applied(p) PROVE Applied(p)'
  <2>1. live' = live /\ zone' = zone
    BY <1>2 DEF zoneVars
  <2>2. /\ Desired(p)' = Desired(p)
        /\ Placed(p)' = Placed(p)
        /\ staleMarkers(p)' = staleMarkers(p) /\ unlisted(p)' = unlisted(p)
        /\ \A r : Listed(p, r)' <=> Listed(p, r)
        /\ \A r, d : Stands(p, r, d)' <=> Stands(p, r, d)
    BY <2>1 DEF Same, Desired, Placed, Listed, Stands, staleMarkers, unlisted,
                cleanupManagedMarkers, desiredKeys
  <2>3. Exact(p)'
    BY <1>2, <2>1 DEF Applied, Exact, Same, Past, Desired
  <2>4. \A i \in DOMAIN Desired(p)' :
            i < pos'[p] => \E r \in Placed(p)' : Stands(p, r, Desired(p)[i])'
    BY <1>2, <2>2 DEF Applied, Same
  <2> QED BY <1>2, <2>1, <2>2, <2>3, <2>4 DEF Applied, Same
<1> QED BY <1>1, <1>2 DEF Same, Busy

LEMMA AppliedInit == Init => AppliedInv
<1> SUFFICES ASSUME Init PROVE AppliedInv
  OBVIOUS
<1>1. UndisturbedInv
  BY UndisturbedInit
<1>2. \A p \in Ops : LoopLocals(p) /\ ~Busy(p)
  BY DEF Init, InitWith, LoopLocals, Busy, Loops
<1> QED BY <1>1, <1>2 DEF AppliedInv

LEMMA AppliedStep == AppliedInv /\ UndisturbedInv' /\ [Next]_vars => AppliedInv'
<1> SUFFICES ASSUME AppliedInv, UndisturbedInv', [Next]_vars PROVE AppliedInv'
  OBVIOUS
<1> DEFINE Good(p) ==
      /\ LoopLocals(p)
      /\ Busy(p) /\ ~disturbed[p] /\ Consistent(spec[p]) => Applied(p)
<1>0. /\ UndisturbedInv /\ TypeOK /\ disturbed \in [Ops -> BOOLEAN]
      /\ \A p \in Ops : Good(p) /\ LocalsInv(p)
  BY DEF AppliedInv, UndisturbedInv, SafeInv, TypeOK
<1>1. ASSUME NEW q \in Ops, Start(q) \/ Step(q) \/ Fail(q) \/ Lose(q),
             NEW p \in Ops
      PROVE  Good(p)'
  <2>1. CASE p # q
    <3>1. /\ Same(p)
          /\ disturbed'[p] \/ (disturbed'[p] = disturbed[p] /\ UNCHANGED zoneVars)
      BY <1>0, <1>1, <2>1, StepOfAnother
    <3> QED BY <1>0, <3>1, SameApplies
  <2>2. CASE p = q
    <3>1. CASE \/ Start(p) \/ FindZone(p) \/ MissZone(p) \/ MakeZone(p)
               \/ RemoveZone(p) \/ RefuseConflict(p) \/ ReadOutput(p)
               \/ Refused(p) \/ Fail(p) \/ Lose(p)
      BY <1>0, <3>1, IdleApplies
    <3>2. CASE ListRecords(p)
      BY <1>0, <3>2, ListApplies
    <3>3. CASE KeepRecord(p) \/ ChangeRecord(p) \/ RemoveRecord(p)
               \/ AddRecord(p) \/ NextLoop(p)
      <4>1. LoopLocals(p)' /\ Busy(p)
        BY <1>0, <3>3, LoopLocalsStep
      <4>2. spec' = spec /\ disturbed'[p] = disturbed[p]
        BY <1>0, <3>3 DEF KeepRecord, ChangeRecord, RemoveRecord, AddRecord,
                          NextLoop, Send, Disturb, callVars
      <4> SUFFICES ASSUME ~disturbed[p], Consistent(spec[p]) PROVE Applied(p)'
        BY <4>1, <4>2
      <4>3. LoopLocals(p) /\ Applied(p)
        BY <1>0, <4>1
      <4> QED BY <1>0, <3>3, <4>3, KeepApplies, ChangeApplies, AddApplies,
                 RemoveApplies, LoopApplies
    <3> QED BY <1>1, <2>2, <3>1, <3>2, <3>3 DEF Step
  <2> QED BY <2>1, <2>2
<1>2. ASSUME (\E req \in limbo : Arrive(req)) \/ Outside \/ UNCHANGED vars,
             NEW p \in Ops
      PROVE  Good(p)'
  <2>1. Same(p)
    BY <1>2 DEF Arrive, Outside, vars, callVars, Same
  <2>2. disturbed'[p] \/ (disturbed'[p] = disturbed[p] /\ UNCHANGED zoneVars)
    BY <1>2 DEF Arrive, Outside, DisturbAll, vars, zoneVars
  <2> QED BY <1>0, <2>1, <2>2, SameApplies
<1>3. \A p \in Ops : Good(p)'
  BY <1>1, <1>2 DEF Next
<1> QED BY <1>3 DEF AppliedInv

\* For any specs, zones and faults: what an undisturbed call has done so far.
THEOREM AppliedInvariant == Spec => []AppliedInv
BY AppliedInit, AppliedStep, UndisturbedInvariant, PTL DEF Spec

-----------------------------------------------------------------------------
(* No declared key loses its last record *)

LEMMA SurvivesStep ==
    ASSUME AppliedInv, NEW p \in Ops, Changes(p), ~disturbed[p], Consistent(spec[p]),
           NEW k \in Keys(Desired(p)), Present(k, live)
    PROVE  Present(k, live')
<1>1. Busy(p)
  BY DEF Changes, ChangeRecord, UpdateRequests, AddRecord, CreateRequests,
         RemoveRecord, DeleteRequests, Applying, Busy, Loops
<1>0. /\ UndisturbedInv /\ LoopLocals(p) /\ Applied(p) /\ CallsOK
      /\ live \subseteq LiveRecord /\ Tracked(p)
  BY <1>1, Undisturbed DEF AppliedInv
<1>2. PICK r \in live : recordKey(r) = k
  BY DEF Present
<1>3. CASE ChangeRecord(p)
  <2>1. PICK req \in UpdateRequests(p) : Serve(req)
    BY <1>3 DEF ChangeRecord, Send
  <2>2. PICK c \in existing(p) :
            Applying(p) /\ req = Request("UpdateRecord", zid[p], c.id, Record(p))
    BY <2>1 DEF UpdateRequests
  <2>3. live' = (live \ WithId(c.id))
                    \cup {editRecordBody(old, Record(p)) : old \in WithId(c.id)}
    BY <2>1, <2>2 DEF Serve, Request, UpdateRecord
  <2>4. CASE r.id = c.id
    <3>1. r = c /\ recordKey(r) = recordKey(Record(p))
      BY <1>0, <2>2, <2>4, TakenAsListed
    <3>2. recordKey(editRecordBody(r, Record(p))) = k
      BY <1>0, <1>2, <2>2, <3>1, RecordTyped, EditedRecord
    <3>3. editRecordBody(r, Record(p)) \in live'
      BY <2>3, <2>4 DEF WithId
    <3> QED BY <3>2, <3>3 DEF Present
  <2>5. CASE r.id # c.id
    BY <1>2, <2>3, <2>5 DEF WithId, Present
  <2> QED BY <2>4, <2>5
<1>4. CASE AddRecord(p)
  <2>1. Serve(Request("CreateRecord", zid[p], 0, Record(p)))
    BY <1>4 DEF AddRecord, CreateRequests, Send
  <2>2. live \subseteq live'
    BY <2>1 DEF Serve, Request, CreateRecord
  <2> QED BY <1>2, <2>2 DEF Present
<1>5. CASE RemoveRecord(p)
  <2>1. PICK req \in DeleteRequests(p) : Serve(req)
    BY <1>5 DEF RemoveRecord, Send
  <2>2. PICK c \in current[p] :
            /\ req = Request("DeleteRecord", zid[p], c.id, NoRecord)
            /\ c.id \notin taken[p]
            /\ \/ recordKey(c) \notin Keys(Desired(p))
               \/ pc[p] = "deleteMarkers" /\ c \in staleMarkers(p)
    BY <1>0, RemovedUnplaced
  <2>3. live' = live \ WithId(c.id)
    BY <2>1, <2>2 DEF Serve, Request, DeleteRecord
  <2>4. CASE recordKey(c) \notin Keys(Desired(p))
    <3>1. r.id # c.id
      BY <1>0, <1>2, <2>4 DEF Tracked
    <3> QED BY <1>2, <2>3, <3>1 DEF WithId, Present
  <2>5. CASE pc[p] = "deleteMarkers"
    <3>1. PICK i \in DOMAIN Desired(p) : recordKey(Desired(p)[i]) = k
      BY DEF Keys
    <3>2. i < pos[p]
      <4>1. Desired(p) \in Seq(DesiredRecord) /\ pos[p] \in Nat
        BY <1>0, SpecsAssumption DEF CallsOK, Desired, DNSSpecs
      <4> QED BY <1>0, <2>5, <4>1 DEF Applied
    <3>3. PICK s \in Placed(p) : Stands(p, s, Desired(p)[i])
      BY <1>0, <3>2 DEF Applied
    <3>4. s \in live /\ s.id # c.id /\ recordKey(s) = k
      BY <2>2, <3>1, <3>3 DEF Placed, Listed, Stands, Agrees
    <3> QED BY <2>3, <3>4 DEF WithId, Present
  <2> QED BY <2>2, <2>4, <2>5
<1> QED BY <1>3, <1>4, <1>5 DEF Changes

\* No step of an undisturbed call of a consistent spec removes the last record
\* of a declared key (the deleting loops of applyRecords).
THEOREM DeclaredStays == Spec => DeclaredSurvives
<1>1. AppliedInv /\ [Next]_vars =>
          [\A p \in Ops :
             Changes(p) /\ ~disturbed[p] /\ Consistent(spec[p]) =>
                \A k \in Keys(Desired(p)) : Present(k, live) => Present(k, live')]_vars
  BY SurvivesStep
<1> QED BY <1>1, AppliedInvariant, PTL DEF Spec, DeclaredSurvives

-----------------------------------------------------------------------------
(* What a call leaves behind *)

\* In the end the zone has, for each desired record, just the one in place, if
\* the listing had one record of its key or it is a marker.
LEMMA OneStands ==
    ASSUME UndisturbedInv, NEW p \in Ops, ~disturbed[p], LoopLocals(p), Applied(p),
           pc[p] = "readOutput", NEW i \in DOMAIN Desired(p)
    PROVE  \E r \in Placed(p) :
              /\ Stands(p, r, Desired(p)[i])
              /\ PriorityAgreed(p) =>
                    \A s \in live : recordKey(s) = recordKey(r) => s = r
<1> DEFINE d == Desired(p)[i]
<1>0. /\ CallsOK /\ Tracked(p)
      /\ Desired(p) \in Seq(DesiredRecord) /\ pos[p] \in Nat
  BY Undisturbed, SpecsAssumption DEF CallsOK, Desired, DNSSpecs
<1>1. i < pos[p]
  BY <1>0 DEF Applied
<1>2. PICK r \in Placed(p) : Stands(p, r, d)
  BY <1>1 DEF Applied
<1>3. recordKey(r) = recordKey(d) /\ r \in live
  BY <1>2 DEF Stands, Agrees, Placed
<1>4. ASSUME PriorityAgreed(p), NEW s \in live, recordKey(s) = recordKey(r), s # r
      PROVE  FALSE
  <2>1. s \notin Placed(p)
    BY <1>2, <1>4 DEF Applied
  <2>2. PICK c \in current[p] : c.id = s.id
    BY <1>4, <2>1 DEF Placed, Listed
  <2>3. recordKey(c) = recordKey(d)
    BY <1>0, <1>3, <1>4, <2>2 DEF Tracked
  <2>4. c.id \notin taken[p] \cup deleted[p]
    BY <1>4, <2>1, <2>2 DEF Placed, Applied
  <2>5. PICK b \in current[p] : b.id = r.id /\ b.id \in taken[p]
    <3>1. Listed(p, r)
      BY <1>3, <2>3 DEF Applied
    <3> QED BY <1>2, <3>1 DEF Placed, Listed
  <2>6. recordKey(b) = recordKey(d) /\ b # c
    BY <1>0, <1>3, <2>4, <2>5 DEF Tracked
  <2>7. isWorkflowManagedMarker(d)
    BY <1>4, <2>3, <2>6 DEF PriorityAgreed, Candidates
  <2>8. isWorkflowManagedMarker(c) /\ cleanupManagedMarkers(p)
    BY <2>3, <2>7, MarkerByKey DEF cleanupManagedMarkers
  <2>9. c \in staleMarkers(p)
    BY <2>4, <2>8 DEF staleMarkers
  <2> QED BY <2>9 DEF Applied
<1> QED BY <1>2, <1>4

\* What is left is placed, if it is a marker, and declared, if it is a marker
\* or the spec manages unlisted records.
LEMMA NothingLeft ==
    ASSUME UndisturbedInv, NEW p \in Ops, ~disturbed[p], LoopLocals(p), Applied(p),
           pc[p] = "readOutput", NEW r \in live
    PROVE  /\ cleanupManagedMarkers(p) /\ isWorkflowManagedMarker(r) =>
                  r \in Placed(p) /\ recordKey(r) \in Keys(Desired(p))
           /\ spec[p].manage => recordKey(r) \in Keys(Desired(p))
<1>0. CallsOK /\ Tracked(p) /\ Exact(p)
  BY Undisturbed DEF Applied
<1>1. r \in Placed(p) => recordKey(r) \in Keys(Desired(p))
  BY <1>0, PlacedPast DEF Past, Keys
<1>2. CASE r \notin Placed(p)
  <2>1. PICK c \in current[p] :
            /\ c.id = r.id /\ c.id \notin taken[p]
            /\ c.id \notin deleted[p]
    BY <1>2 DEF Placed, Listed, Applied
  <2>2. recordKey(c) = recordKey(r)
    BY <1>0, <2>1 DEF Tracked
  <2>3. ~(cleanupManagedMarkers(p) /\ isWorkflowManagedMarker(r))
    BY <2>1, <2>2, MarkerByKey DEF Applied, staleMarkers
  <2>4. spec[p].manage => recordKey(r) \in desiredKeys(p)
    BY <2>1, <2>2 DEF Applied, unlisted
  <2> QED BY <1>0, <2>3, <2>4, DesiredKeys
<1> QED BY <1>1, <1>2

LEMMA NoDriftStep ==
    ASSUME AppliedInv, NEW p \in Ops, ReadOutput(p), kind[p] \in {"Create", "Update"},
           ~disturbed[p], Consistent(spec[p]), PriorityAgreed(p)
    PROVE  Diff(out'[p], spec[p]) = {{}}
<1>1. Busy(p) /\ pc[p] = "readOutput"
  BY DEF ReadOutput, Busy
<1>0. /\ UndisturbedInv /\ LoopLocals(p) /\ Applied(p) /\ CallsOK
      /\ live \subseteq LiveRecord
  BY <1>1, Undisturbed DEF AppliedInv
<1> DEFINE Back(r) == recordFromOutput(recordOutput(r))
           listed == recordsFromOutputs(out'[p])
<1>2. listed = {Back(r) : r \in live}
  <2>1. out'[p] = {recordOutput(r) : r \in live}
    BY <1>0 DEF ReadOutput, Return, CallsOK
  <2> QED BY <2>1 DEF recordsFromOutputs
<1>3. \A r \in live : /\ Back(r) \in listed
                      /\ recordKey(Back(r)) = recordKey(r)
                      /\ Back(r).ttl = r.ttl /\ Back(r).priority = r.priority
                      /\ Back(r).proxied = r.proxied /\ Back(r).comment = r.comment
  BY <1>0, <1>2, OutputReadBack
<1>4. \A c \in listed : \E r \in live : c = Back(r)
  BY <1>2
<1> HIDE DEF Back, listed
<1>5. \A i \in DOMAIN Desired(p) :
          \E c \in listed :
              /\ recordMatches(c, Desired(p)[i])
              /\ \A o \in listed : recordKey(o) = recordKey(Desired(p)[i]) => o = c
  <2> SUFFICES ASSUME NEW i \in DOMAIN Desired(p)
               PROVE  \E c \in listed :
                         /\ recordMatches(c, Desired(p)[i])
                         /\ \A o \in listed :
                               recordKey(o) = recordKey(Desired(p)[i]) => o = c
    OBVIOUS
  <2> DEFINE d == Desired(p)[i]
  <2>1. PICK r \in Placed(p) :
            /\ Stands(p, r, d)
            /\ \A s \in live : recordKey(s) = recordKey(r) => s = r
    BY <1>0, <1>1, OneStands
  <2>2. r \in live /\ Agrees(r, d)
    BY <2>1 DEF Placed, Stands
  <2>3. r.priority = d.priority
    <3>1. CASE SendsPriority(d)
      BY <2>2, <3>1 DEF Agrees
    <3>2. CASE ~SendsPriority(d)
      <4>1. d.priority = 0
        BY <3>2 DEF PriorityAgreed
      <4>2. CASE r.priority = 0
        BY <4>1, <4>2
      <4>3. CASE \E c \in current[p] : c.id = r.id /\ c.priority = r.priority
        <5>1. PICK c \in current[p] : c.id = r.id /\ c.priority = r.priority
          BY <4>3
        <5>2. recordKey(c) = recordKey(d)
          BY <1>0, <2>2, <5>1, Undisturbed DEF Tracked, Agrees
        <5>3. c.priority = 0
          BY <3>2, <5>1, <5>2 DEF PriorityAgreed, Candidates
        <5> QED BY <4>1, <5>1, <5>3
      <4> QED BY <2>1, <3>2, <4>2, <4>3 DEF Stands
    <3> QED BY <3>1, <3>2
  <2>4. recordMatches(Back(r), d)
    BY <1>3, <2>2, <2>3 DEF recordMatches, Agrees
  <2>5. \A o \in listed : recordKey(o) = recordKey(d) => o = Back(r)
    <3> SUFFICES ASSUME NEW o \in listed, recordKey(o) = recordKey(d)
                 PROVE  o = Back(r)
      OBVIOUS
    <3>1. PICK s \in live : o = Back(s)
      BY <1>4
    <3>2. recordKey(s) = recordKey(r)
      BY <1>3, <2>2, <3>1 DEF Agrees
    <3> QED BY <2>1, <3>1, <3>2
  <2> QED BY <1>3, <2>2, <2>4, <2>5
<1>6. \A c \in listed :
          /\ (\E i \in DOMAIN Desired(p) : isWorkflowManagedMarker(Desired(p)[i]))
                 /\ isWorkflowManagedMarker(c) => recordKey(c) \in Keys(Desired(p))
          /\ spec[p].manage => recordKey(c) \in Keys(Desired(p))
  <2> SUFFICES ASSUME NEW c \in listed
               PROVE  /\ cleanupManagedMarkers(p) /\ isWorkflowManagedMarker(c) =>
                             recordKey(c) \in Keys(Desired(p))
                      /\ spec[p].manage => recordKey(c) \in Keys(Desired(p))
    BY DEF cleanupManagedMarkers
  <2>1. PICK r \in live : c = Back(r)
    BY <1>4
  <2>2. recordKey(c) = recordKey(r)
    BY <1>3, <2>1
  <2>3. isWorkflowManagedMarker(c) => isWorkflowManagedMarker(r)
    BY <2>2, MarkerByKey
  <2> QED BY <1>0, <1>1, <2>2, <2>3, NothingLeft
<1>7. \A first \in sortedFirst(listed, Desired(p)) :
          diffRecords(listed, Desired(p), spec[p].manage, first) = {}
  BY <1>5, <1>6, NothingToDo
<1>8. sortedFirst(listed, Desired(p)) # {}
  <2>1. \A c \in listed : c.priority \in Int
    BY <1>0, <1>3, <1>4 DEF LiveRecord
  <2>2. \A i \in DOMAIN Desired(p) :
            \E c \in listed :
                /\ recordKey(c) = recordKey(Desired(p)[i])
                /\ \A o \in listed : recordKey(o) = recordKey(Desired(p)[i]) => o = c
    BY <1>5 DEF recordMatches
  <2> QED BY <2>1, <2>2, SomeOrder
<1> QED BY <1>7, <1>8 DEF Diff, listed, Desired

\* The output of a Create or Update that nobody interfered with shows no drift
\* (readOutput, Diff), for specs and zones of every size.
THEOREM NoDriftLeft == Spec => NoDriftAfterApply
<1>1. AppliedInv /\ [Next]_vars =>
          [\A p \in Ops :
             /\ ReadOutput(p)
             /\ kind[p] \in {"Create", "Update"}
             /\ ~disturbed[p] /\ Consistent(spec[p]) /\ PriorityAgreed(p)
             => Diff(out'[p], spec[p]) = {{}}]_vars
  BY NoDriftStep
<1> QED BY <1>1, AppliedInvariant, PTL DEF Spec, NoDriftAfterApply

-----------------------------------------------------------------------------
(* Empty plans *)

\* Of each key the loop is past a listed record was taken, if there was one.
Seen(p) ==
    pc[p] \in Loops =>
        \A i \in DOMAIN Desired(p) :
            LET found == Candidates(current[p], recordKey(Desired(p)[i]))
            IN  i < pos[p] /\ found # {} => \E c \in found : c.id \in taken[p]

SeenInv == \A p \in Ops : Seen(p)

LEMMA SeenLoopStep ==
    ASSUME CallsOK, NEW p \in Ops, Seen(p),
           KeepRecord(p) \/ ChangeRecord(p) \/ AddRecord(p)
    PROVE  Seen(p)'
<1>1. /\ Applying(p) /\ UNCHANGED <<pc, spec, current>>
      /\ pos'[p] = pos[p] + 1 /\ taken[p] \subseteq taken'[p]
  <2>1. CASE KeepRecord(p)
    BY <2>1 DEF KeepRecord, Advance, Take, CallsOK
  <2>2. CASE ChangeRecord(p)
    BY <2>2 DEF ChangeRecord, UpdateRequests, Advance, CallsOK
  <2>3. CASE AddRecord(p)
    BY <2>3 DEF AddRecord, CreateRequests, Advance, CallsOK
  <2> QED BY <2>1, <2>2, <2>3
<1> DEFINE here == Candidates(current[p], recordKey(Record(p)))
<1>2. here # {} => \E c \in here : c.id \in taken'[p]
  <2>1. CASE existing(p) = {}
    BY <1>1, <2>1 DEF existing, Candidates
  <2>2. CASE KeepRecord(p)
    BY <2>2 DEF KeepRecord, Take, existing, Candidates, CallsOK
  <2>3. CASE ChangeRecord(p)
    <3>1. PICK req \in UpdateRequests(p) : taken' = [taken EXCEPT ![p] = @ \cup {req.id}]
      BY <2>3 DEF ChangeRecord
    <3>2. PICK c \in existing(p) : req.id = c.id
      BY <3>1 DEF UpdateRequests, Request
    <3>3. c \in here /\ c.id \in taken'[p]
      BY <3>1, <3>2 DEF existing, Candidates, CallsOK
    <3> QED BY <3>3
  <2>4. CASE AddRecord(p)
    <3>1. existing(p) = {}
      BY <2>4 DEF AddRecord, CreateRequests
    <3> QED BY <2>1, <3>1
  <2> QED BY <2>2, <2>3, <2>4
<1>3. pos[p] \in Nat \ {0} /\ Record(p) = Desired(p)[pos[p]] /\ Desired(p)' = Desired(p)
  BY <1>1 DEF CallsOK, Record, Desired
<1>4. pc[p] \in Loops
  BY <1>1 DEF Applying, Loops
<1> SUFFICES ASSUME NEW i \in DOMAIN Desired(p), i < pos[p] + 1,
                    Candidates(current[p], recordKey(Desired(p)[i])) # {}
             PROVE  \E c \in Candidates(current[p], recordKey(Desired(p)[i])) :
                        c.id \in taken'[p]
  BY <1>1, <1>3 DEF Seen
<1>5. CASE i = pos[p]
  BY <1>2, <1>3, <1>5
<1>6. CASE i # pos[p]
  <2>1. i \in Nat
    <3>1. Desired(p) \in Seq(DesiredRecord)
      BY SpecsAssumption DEF CallsOK, Desired, DNSSpecs
    <3> QED BY <3>1
  <2>2. i < pos[p]
    BY <1>3, <1>6, <2>1
  <2> QED BY <1>1, <1>4, <2>2 DEF Seen
<1> QED BY <1>5, <1>6

LEMMA SeenStep == AppliedInv /\ SeenInv /\ [Next]_vars => SeenInv'
<1> SUFFICES ASSUME AppliedInv, SeenInv, [Next]_vars PROVE SeenInv'
  OBVIOUS
<1>0. CallsOK /\ current \in [Ops -> SUBSET LiveRecord] /\ \A p \in Ops : LoopLocals(p)
  BY DEF AppliedInv, UndisturbedInv, SafeInv, TypeOK, ListingsOK
<1> DEFINE Alike(q) == /\ pc'[q] \in Loops => pc[q] \in Loops
                       /\ spec'[q] = spec[q] /\ current'[q] = current[q]
                       /\ pos'[q] = pos[q] /\ taken'[q] = taken[q]
<1>a. ASSUME NEW q \in Ops, Alike(q) PROVE Seen(q)'
  BY <1>a DEF SeenInv, Seen, Desired
<1> HIDE DEF Alike
<1>b. ASSUME NEW p \in Ops, NEW how, NEW records, Return(p, how, records) PROVE SeenInv'
  <2>1. \A q \in Ops \ {p} : Alike(q)
    BY <1>b, <1>0 DEF Return, Alike, CallsOK
  <2>2. pc'[p] = "ready"
    BY <1>b, <1>0 DEF Return, CallsOK
  <2>3. Seen(p)'
    BY <2>2 DEF Seen, Loops
  <2> QED BY <1>a, <2>1, <2>3 DEF SeenInv
<1>1. ASSUME NEW p \in Ops, Start(p) PROVE SeenInv'
  <2>1. PICK k, s, id : Begin(p, k, s, id)
    BY <1>1 DEF Start
  <2>2. \A q \in Ops \ {p} : Alike(q)
    BY <2>1, <1>0 DEF Begin, Goto, Alike, CallsOK
  <2>3. pc'[p] \notin Loops
    BY <2>1, <1>0 DEF Begin, Goto, FirstStep, CallsOK, Loops
  <2>4. Seen(p)'
    BY <2>3 DEF Seen
  <2> QED BY <1>a, <2>2, <2>4 DEF SeenInv
<1>2. ASSUME NEW p \in Ops,
             \/ FindZone(p) \/ MakeZone(p) \/ RemoveRecord(p) \/ NextLoop(p)
             \/ MissZone(p) /\ Goto(p, "CreateZone") /\ UNCHANGED <<callVars, result>>
      PROVE SeenInv'
  <2>1. \A q \in Ops : Alike(q)
    BY <1>2, <1>0 DEF FindZone, MakeZone, RemoveRecord, NextLoop, Goto, Alike, CallsOK,
                      Loops, callVars
  <2> QED BY <1>a, <2>1 DEF SeenInv
<1>3. ASSUME NEW p \in Ops, ListRecords(p) PROVE SeenInv'
  <2>1. \A q \in Ops \ {p} : Alike(q)
    BY <1>3, <1>0 DEF ListRecords, Goto, Alike, CallsOK
  <2>2. pos'[p] = 1 /\ Desired(p)' \in Seq(DesiredRecord)
    <3>1. pos[p] = 1
      BY <1>3, <1>0 DEF ListRecords, LoopLocals, Loops
    <3>2. spec'[p] = spec[p] /\ spec[p] \in Specs /\ pos' = pos
      BY <1>3, <1>0 DEF ListRecords, CallsOK
    <3> QED BY <3>1, <3>2, SpecsAssumption DEF Desired, DNSSpecs
  <2>3. \A i \in DOMAIN Desired(p)' : ~(i < pos'[p])
    BY <2>2
  <2>4. Seen(p)'
    BY <2>3 DEF Seen
  <2> QED BY <1>a, <2>1, <2>4 DEF SeenInv
<1>4. ASSUME NEW p \in Ops, KeepRecord(p) \/ ChangeRecord(p) \/ AddRecord(p)
      PROVE SeenInv'
  <2>1. \A q \in Ops \ {p} : Alike(q)
    BY <1>4, <1>0 DEF KeepRecord, ChangeRecord, AddRecord, Advance, Take, Alike, CallsOK
  <2>2. Seen(p)'
    BY <1>4, <1>0, SeenLoopStep DEF SeenInv
  <2> QED BY <1>a, <2>1, <2>2 DEF SeenInv
<1>5. ASSUME NEW p \in Ops,
             \/ RemoveZone(p) \/ RefuseConflict(p) \/ ReadOutput(p)
             \/ Refused(p) \/ Fail(p) \/ Lose(p)
             \/ MissZone(p) /\ ~(Goto(p, "CreateZone") /\ UNCHANGED <<callVars, result>>)
      PROVE SeenInv'
  <2>1. \E how, records : Return(p, how, records)
    BY <1>5 DEF RemoveZone, RefuseConflict, ReadOutput, Refused, Fail, Lose, MissZone
  <2> QED BY <2>1, <1>b
<1>6. ASSUME (\E req \in limbo : Arrive(req)) \/ Outside \/ UNCHANGED vars
      PROVE SeenInv'
  <2>1. \A q \in Ops : Alike(q)
    BY <1>6 DEF Arrive, Outside, vars, callVars, Alike
  <2> QED BY <1>a, <2>1 DEF SeenInv
<1> QED BY <1>1, <1>2, <1>3, <1>4, <1>5, <1>6 DEF Next, Step

LEMMA SeenInvariant == Spec => []SeenInv
<1>1. Init => SeenInv
  BY DEF Init, InitWith, SeenInv, Seen, Loops
<1> QED BY <1>1, SeenStep, AppliedInvariant, PTL DEF Spec

\* A listing in which each declared key has one record, markers aside, and in
\* which Diff finds nothing holds one matching record of each declared key and
\* none that is declared away.
LEMMA CleanListing ==
    ASSUME TypeOK, NEW p \in Ops,
           Diff({recordOutput(c) : c \in current[p]}, spec[p]) = {{}},
           \A k \in Keys(Desired(p)) : \A c, o \in Candidates(current[p], k) :
               c = o \/ isWorkflowManagedMarker(c)
    PROVE  /\ \A i \in DOMAIN Desired(p) :
                  \E c \in current[p] :
                      /\ recordKey(c) = recordKey(Desired(p)[i])
                      /\ recordMatches(c, Desired(p)[i])
                      /\ \A o \in current[p] :
                            recordKey(o) = recordKey(Desired(p)[i]) => o = c
           /\ \A c \in current[p] :
                  /\ spec[p].manage => recordKey(c) \in Keys(Desired(p))
                  /\ cleanupManagedMarkers(p) /\ isWorkflowManagedMarker(c) =>
                         recordKey(c) \in Keys(Desired(p))
<1> DEFINE Back(c) == recordFromOutput(recordOutput(c))
           listed == recordsFromOutputs({recordOutput(c) : c \in current[p]})
<1>1. listed = {Back(c) : c \in current[p]}
  BY DEF recordsFromOutputs
<1>2. PICK first \in sortedFirst(listed, Desired(p)) :
          diffRecords(listed, Desired(p), spec[p].manage, first) = {}
  BY DEF Diff, Desired
<1>3. current[p] \subseteq LiveRecord
  BY DEF TypeOK, ListingsOK
<1>4. \A c \in current[p] :
          /\ Back(c) \in listed /\ recordKey(Back(c)) = recordKey(c)
          /\ Back(c).ttl = c.ttl /\ Back(c).priority = c.priority
          /\ Back(c).proxied = c.proxied /\ Back(c).comment = c.comment
          /\ Back(c).id = c.id
  BY <1>1, <1>3, OutputReadBack
<1>5. \A b \in listed : \E c \in current[p] : b = Back(c)
  BY <1>1
<1> HIDE DEF listed, Back
<1>6. /\ \A i \in DOMAIN Desired(p) :
            LET k == recordKey(Desired(p)[i])
            IN  first[k] \in Candidates(listed, k) /\ recordMatches(first[k], Desired(p)[i])
      /\ \A b \in listed :
            /\ spec[p].manage => recordKey(b) \in Keys(Desired(p))
            /\ (\E i \in DOMAIN Desired(p) : isWorkflowManagedMarker(Desired(p)[i]))
                   /\ isWorkflowManagedMarker(b)
               => \E i \in DOMAIN Desired(p) : b = first[recordKey(Desired(p)[i])]
  BY <1>2, NothingFound
<1>7. ASSUME NEW b \in listed, isWorkflowManagedMarker(b), cleanupManagedMarkers(p)
      PROVE  recordKey(b) \in Keys(Desired(p)) /\ b = first[recordKey(b)]
  <2>1. PICK i \in DOMAIN Desired(p) : b = first[recordKey(Desired(p)[i])]
    BY <1>6, <1>7 DEF cleanupManagedMarkers
  <2>2. recordKey(b) = recordKey(Desired(p)[i])
    BY <1>6, <2>1 DEF Candidates
  <2> QED BY <2>1, <2>2 DEF Keys
<1>8. ASSUME NEW i \in DOMAIN Desired(p)
      PROVE  \E c \in current[p] :
                 /\ recordKey(c) = recordKey(Desired(p)[i])
                 /\ recordMatches(c, Desired(p)[i])
                 /\ \A o \in current[p] :
                       recordKey(o) = recordKey(Desired(p)[i]) => o = c
  <2> DEFINE d == Desired(p)[i]
             k == recordKey(d)
  <2>1. /\ first[k] \in listed /\ recordKey(first[k]) = k
        /\ recordMatches(first[k], d)
    BY <1>6 DEF Candidates
  <2>2. PICK c \in current[p] : first[k] = Back(c)
    BY <1>5, <2>1
  <2>3. recordKey(c) = k
    BY <1>4, <2>1, <2>2
  <2>4. recordMatches(c, d)
    BY <1>4, <2>1, <2>2 DEF recordMatches
  <2>5. ASSUME NEW o \in current[p], recordKey(o) = k PROVE o = c
    <3>1. k \in Keys(Desired(p)) /\ o \in Candidates(current[p], k)
          /\ c \in Candidates(current[p], k)
      BY <2>3, <2>5 DEF Keys, Candidates
    <3>2. CASE ~isWorkflowManagedMarker(o)
      BY <3>1, <3>2
    <3>3. CASE isWorkflowManagedMarker(o)
      <4>1. /\ isWorkflowManagedMarker(Back(o)) /\ Back(o) \in listed
            /\ recordKey(Back(o)) = k
        BY <1>4, <2>5, <3>3, MarkerByKey
      <4>2. isWorkflowManagedMarker(d)
        BY <2>5, <3>3, MarkerByKey
      <4>3. cleanupManagedMarkers(p)
        BY <4>2 DEF cleanupManagedMarkers
      <4>4. Back(o) = Back(c)
        BY <1>7, <2>2, <4>1, <4>3
      <4>5. o.id = c.id
        BY <1>4, <4>4
      <4> QED BY <4>5 DEF TypeOK, ListingsOK
    <3> QED BY <3>2, <3>3
  <2> QED BY <2>3, <2>4, <2>5
<1>9. ASSUME NEW c \in current[p]
      PROVE  /\ spec[p].manage => recordKey(c) \in Keys(Desired(p))
             /\ cleanupManagedMarkers(p) /\ isWorkflowManagedMarker(c) =>
                    recordKey(c) \in Keys(Desired(p))
  <2>1. Back(c) \in listed /\ recordKey(Back(c)) = recordKey(c)
    BY <1>4
  <2>2. isWorkflowManagedMarker(c) => isWorkflowManagedMarker(Back(c))
    BY <2>1, MarkerByKey
  <2> QED BY <1>6, <1>7, <2>1, <2>2
<1> QED BY <1>8, <1>9

\* A call whose listing shows no drift asks for no change of a record, with any
\* number of calls and edits beside it (applyRecords, diffRecords).
THEOREM EmptyPlansHold == Spec => []EmptyPlanChangesNothing
<1>1. AppliedInv /\ SeenInv => EmptyPlanChangesNothing
  <2> SUFFICES ASSUME AppliedInv, SeenInv, NEW p \in Ops, pc[p] \in Loops,
                      Diff({recordOutput(c) : c \in current[p]}, spec[p]) = {{}},
                      \A k \in Keys(Desired(p)) : \A c, o \in Candidates(current[p], k) :
                          c = o \/ isWorkflowManagedMarker(c)
               PROVE  CreateRequests(p) \cup UpdateRequests(p) \cup DeleteRequests(p) = {}
    BY DEF EmptyPlanChangesNothing, Loops
  <2>1. /\ TypeOK /\ CallsOK /\ LocalsInv(p) /\ LoopDone(p) /\ Seen(p)
        /\ taken[p] \subseteq {c.id : c \in current[p]}
    BY DEF AppliedInv, UndisturbedInv, SafeInv, TypeOK, SeenInv, LoopLocals
  <2>2. /\ \A i \in DOMAIN Desired(p) :
              \E c \in current[p] :
                  /\ recordKey(c) = recordKey(Desired(p)[i])
                  /\ recordMatches(c, Desired(p)[i])
                  /\ \A o \in current[p] :
                        recordKey(o) = recordKey(Desired(p)[i]) => o = c
        /\ \A c \in current[p] :
              /\ spec[p].manage => recordKey(c) \in Keys(Desired(p))
              /\ cleanupManagedMarkers(p) /\ isWorkflowManagedMarker(c) =>
                     recordKey(c) \in Keys(Desired(p))
    BY <2>1, CleanListing
  <2>3. /\ Desired(p) \in Seq(DesiredRecord) /\ UniqueKeys(Desired(p))
        /\ DOMAIN Desired(p) = 1..Len(Desired(p)) /\ Len(Desired(p)) \in Nat
        /\ pos[p] \in Nat \ {0}
    <3>1. spec[p] \in Specs /\ pos[p] \in Nat \ {0}
      BY <2>1 DEF CallsOK
    <3> QED BY <3>1, SpecsAssumption DEF Desired, DNSSpecs
  <2>4. ASSUME Applying(p)
        PROVE  existing(p) # {} /\ \A c \in existing(p) : recordMatches(c, Record(p))
    <3>1. pos[p] \in DOMAIN Desired(p) /\ Record(p) = Desired(p)[pos[p]]
      BY <2>3, <2>4 DEF Applying, Record
    <3>2. PICK c \in current[p] :
              /\ recordKey(c) = recordKey(Record(p)) /\ recordMatches(c, Record(p))
              /\ \A o \in current[p] : recordKey(o) = recordKey(Record(p)) => o = c
      BY <2>2, <3>1
    <3>3. c.id \notin taken[p]
      <4> SUFFICES ASSUME c.id \in taken[p] PROVE FALSE
        OBVIOUS
      <4>1. PICK i \in DOMAIN Desired(p) :
                i < pos[p] /\ recordKey(Desired(p)[i]) = recordKey(c)
        BY <2>1 DEF LocalsInv, Past
      <4>2. i = pos[p]
        BY <2>3, <3>1, <3>2, <4>1 DEF UniqueKeys
      <4> QED BY <2>3, <4>1, <4>2
    <3> QED BY <3>2, <3>3 DEF existing
  <2>5. CreateRequests(p) = {} /\ UpdateRequests(p) = {}
    BY <2>4 DEF CreateRequests, UpdateRequests
  <2>6. ASSUME pos[p] > Len(Desired(p))
        PROVE  \A c \in current[p] :
                   recordKey(c) \in Keys(Desired(p)) =>
                       c.id \in taken[p] /\ recordKey(c) \in desiredKeys(p)
    <3> SUFFICES ASSUME NEW c \in current[p], NEW i \in DOMAIN Desired(p),
                        recordKey(c) = recordKey(Desired(p)[i])
                 PROVE  c.id \in taken[p] /\ recordKey(c) \in desiredKeys(p)
      BY DEF Keys
    <3>1. i < pos[p] /\ i <= pos[p]
      BY <2>3, <2>6
    <3>2. c \in Candidates(current[p], recordKey(Desired(p)[i]))
      BY DEF Candidates
    <3>3. PICK o \in Candidates(current[p], recordKey(Desired(p)[i])) : o.id \in taken[p]
      BY <2>1, <3>1, <3>2 DEF Seen
    <3>4. o = c
      BY <2>2, <3>2, <3>3 DEF Candidates
    <3> QED BY <3>1, <3>3, <3>4 DEF desiredKeys
  <2>7. pc[p] = "deleteMarkers" => staleMarkers(p) = {}
    BY <2>1, <2>2, <2>6 DEF LoopDone, staleMarkers
  <2>8. pc[p] = "deleteUnlisted" => unlisted(p) = {}
    BY <2>1, <2>2, <2>6 DEF LoopDone, unlisted
  <2>9. DeleteRequests(p) = {}
    <3>1. CASE pc[p] = "applyRecords"
      BY <2>4, <3>1 DEF DeleteRequests, Applying
    <3>2. CASE pc[p] = "deleteMarkers"
      BY <2>7, <3>2 DEF DeleteRequests, Applying
    <3>3. CASE pc[p] = "deleteUnlisted"
      BY <2>8, <3>3 DEF DeleteRequests, Applying
    <3> QED BY <3>1, <3>2, <3>3 DEF Loops
  <2> QED BY <2>5, <2>9
<1> QED BY <1>1, AppliedInvariant, SeenInvariant, PTL

=============================================================================
