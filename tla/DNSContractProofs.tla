------------------------- MODULE DNSContractProofs -------------------------
(***************************************************************************)
(* The driver implements ZoneContract: each step of an undisturbed caller  *)
(* of Create and Update is a step of the contract or none, for any specs,  *)
(* zones and failures.                                                     *)
(***************************************************************************)
EXTENDS DNSDriverProofs, DNSContract, FiniteSetTheorems

-----------------------------------------------------------------------------
(* The contract speaks of records as the driver does *)

LEMMA ContractRecords ==
    /\ \A r : Contract!recordKey(r) = recordKey(r)
    /\ \A d : Contract!SendsPriority(d) = SendsPriority(d)
    /\ \A r : Contract!isWorkflowManagedMarker(r) = isWorkflowManagedMarker(r)
<1>1. \A n : Contract!normalizeRecordName(n) = normalizeRecordName(n)
  BY DEF Contract!normalizeRecordName, normalizeRecordName, Contract!EndsIn, EndsIn
<1>2. \A n : Contract!canonicalName(n) = canonicalName(n)
  BY <1>1 DEF Contract!canonicalName, canonicalName
<1>3. \A t, x : /\ Contract!rawTXTData(t, x) = rawTXTData(t, x)
                /\ Contract!normalizeRecordData(t, x) = normalizeRecordData(t, x)
  BY DEF Contract!rawTXTData, rawTXTData, Contract!normalizeRecordData,
         normalizeRecordData, Contract!HostTypes, HostTypes
<1>4. \A t, x : Contract!canonicalData(t, x) = canonicalData(t, x)
  BY <1>3 DEF Contract!canonicalData, canonicalData, Contract!HostTypes, HostTypes
<1>5. \A r : Contract!recordKey(r) = recordKey(r)
  BY <1>2, <1>4 DEF Contract!recordKey, recordKey
<1>6. \A d : Contract!SendsPriority(d) = SendsPriority(d)
  BY DEF Contract!SendsPriority, SendsPriority
<1>7. \A r : Contract!isWorkflowManagedMarker(r) = isWorkflowManagedMarker(r)
  BY <1>2, <1>3 DEF Contract!isWorkflowManagedMarker, isWorkflowManagedMarker
<1> QED BY <1>5, <1>6, <1>7

LEMMA ContractKeys ==
    /\ \A s : Contract!Keys(s) = Keys(s)
    /\ \A R, k : Contract!Candidates(R, k) = Candidates(R, k)
BY ContractRecords DEF Contract!Keys, Keys, Contract!Candidates, Candidates

LEMMA ContractAgrees ==
    ASSUME NEW r \in LiveRecord, NEW d, Agrees(r, d)
    PROVE  Contract!Agrees(r, d)
<1> DEFINE n == IF SendsPriority(d) THEN r.priority ELSE d.priority
           e == [r EXCEPT !.priority = n]
<1>1. /\ e.type = r.type /\ e.name = r.name /\ e.data = r.data /\ e.ttl = r.ttl
      /\ e.proxied = r.proxied /\ e.comment = r.comment /\ e.priority = n
  BY DEF LiveRecord
<1>2. recordKey(e) = recordKey(r)
  BY <1>1 DEF recordKey
<1>3. n = d.priority
  BY DEF Agrees
<1>4. Contract!recordMatches(e, d) => Contract!Agrees(r, d)
  BY ContractRecords DEF Contract!Agrees
<1> HIDE DEF e, n
<1>5. Contract!recordMatches(e, d)
  BY <1>1, <1>2, <1>3, ContractRecords DEF Contract!recordMatches, Agrees
<1> QED BY <1>4, <1>5

-----------------------------------------------------------------------------
(* One caller, undisturbed *)

\* No request is lost, a zone that is gone holds nothing, calls create and
\* update, and nobody changes the zone once a call has listed it.
ContractInv ==
    /\ AppliedInv
    /\ limbo = {}
    /\ zone = 0 => live = {}
    /\ \A p \in Ops :
          /\ pc[p] # "ready" => kind[p] \in {"Create", "Update"}
          /\ pc[p] # "DeleteZone"
          /\ Busy(p) => ~disturbed[p]

LEMMA ContractInit == Init => ContractInv
<1> SUFFICES ASSUME Init PROVE ContractInv
  OBVIOUS
<1>1. AppliedInv
  BY AppliedInit
<1>2. \A p \in Ops : pc[p] = "ready" /\ ~Busy(p)
  BY DEF Init, InitWith, Busy, Loops
<1>3. limbo = {} /\ (zone = 0 => live = {})
  BY DEF Init, InitWith, CloudflareInit
<1> QED BY <1>1, <1>2, <1>3 DEF ContractInv

LEMMA ContractStep == ContractInv /\ AppliedInv' /\ [Next]_vars => ContractInv'
<1> SUFFICES ASSUME ContractInv, AppliedInv', [Next]_vars PROVE ContractInv'
  OBVIOUS
<1>0. /\ TypeOK /\ CallsOK /\ disturbed \in [Ops -> BOOLEAN]
      /\ limbo = {} /\ edits \in 0..MaxOutside
  BY DEF ContractInv, AppliedInv, UndisturbedInv, SafeInv, TypeOK
<1>1. CASE UNCHANGED vars
  BY <1>1 DEF ContractInv, vars, zoneVars, callVars, Busy
<1>2. CASE \E p \in Ops : Start(p) \/ Step(p) \/ Fail(p) \/ Lose(p)
  <2>1. PICK p \in Ops : Start(p) \/ Step(p) \/ Fail(p) \/ Lose(p)
    BY <1>2
  <2>2. \A q \in Ops : q = p
    BY ContractAssumption
  <2>3. ~Lose(p) /\ limbo' = limbo
    <3>1. ~Lose(p)
      BY <1>0, FS_EmptySet, ContractAssumption DEF Lose
    <3>2. Start(p) \/ Fail(p) => limbo' = limbo
      BY DEF Start, Begin, Fail
    <3>3. Step(p) => limbo' = limbo
      BY DEF Step, FindZone, MissZone, MakeZone, RemoveZone, ListRecords, KeepRecord,
             ChangeRecord, AddRecord, RefuseConflict, RemoveRecord, NextLoop,
             ReadOutput, Refused, Send
    <3> QED BY <2>1, <3>1, <3>2, <3>3
  <2> DEFINE Fine == /\ zone' = 0 => live' = {}
                     /\ pc'[p] # "ready" => kind'[p] \in {"Create", "Update"}
                     /\ pc'[p] # "DeleteZone"
                     /\ Busy(p)' => ~disturbed'[p]
  <2>4. /\ zone = 0 => live = {}
        /\ pc[p] # "ready" => kind[p] \in {"Create", "Update"}
        /\ pc[p] # "DeleteZone"
        /\ Busy(p) => ~disturbed[p]
    BY DEF ContractInv
  <2> SUFFICES Fine
    BY <1>0, <2>2, <2>3 DEF ContractInv
  <2>r. ASSUME NEW how, NEW records, Return(p, how, records), UNCHANGED zoneVars
        PROVE  Fine
    BY <1>0, <2>4, <2>r DEF Return, CallsOK, zoneVars, Busy, Loops
  <2>5. CASE Start(p)
    <3>1. \E k \in {"Create", "Update"} : \E s, id : Begin(p, k, s, id)
      BY <2>5, ContractAssumption DEF Start
    <3> QED BY <1>0, <2>4, <3>1 DEF Begin, Goto, FirstStep, CallsOK, zoneVars,
                                    Busy, Loops
  <2>6. CASE FindZone(p) \/ ListRecords(p)
    BY <1>0, <2>4, <2>6 DEF FindZone, ListRecords, Goto, CallsOK, zoneVars, Busy, Loops
  <2>7. CASE MissZone(p)
    <3>1. CASE Goto(p, "CreateZone") /\ UNCHANGED callVars
      BY <1>0, <2>4, <2>7, <3>1 DEF MissZone, Goto, CallsOK, callVars, zoneVars,
                                    Busy, Loops
    <3>2. UNCHANGED zoneVars
      BY <2>7 DEF MissZone
    <3> QED BY <2>7, <2>r, <3>1, <3>2 DEF MissZone
  <2>8. CASE MakeZone(p)
    <3>1. Serve(Request("CreateZone", zid[p], 0, NoRecord))
      BY <2>8 DEF MakeZone, ZoneRequests, Send
    <3>2. live' = {}
      BY <3>1 DEF Serve, Request, CreateZone
    <3> QED BY <1>0, <2>4, <2>8, <3>2 DEF MakeZone, Goto, CallsOK, Busy, Loops
  <2>9. CASE KeepRecord(p) \/ NextLoop(p)
    BY <1>0, <2>4, <2>9 DEF KeepRecord, NextLoop, Applying, Goto, callVars, CallsOK,
                            zoneVars, Busy, Loops
  <2>10. CASE ChangeRecord(p) \/ AddRecord(p) \/ RemoveRecord(p)
    <3>1. /\ UNCHANGED <<pc, kind>> /\ disturbed'[p] = disturbed[p]
      BY <1>0, <2>10 DEF ChangeRecord, AddRecord, RemoveRecord, Send, Disturb
    <3>2. zone' # 0
      <4>1. PICK req \in CreateRequests(p) \cup UpdateRequests(p) \cup DeleteRequests(p) :
                Accepts(req) /\ Serve(req)
        BY <2>10 DEF ChangeRecord, AddRecord, RemoveRecord, Send
      <4>2. req.call \in {"CreateRecord", "UpdateRecord", "DeleteRecord"}
        BY DEF CreateRequests, UpdateRequests, DeleteRequests, Request
      <4> QED BY <4>1, <4>2 DEF Accepts, Serve, CreateRecord, UpdateRecord, DeleteRecord
    <3> QED BY <2>4, <3>1, <3>2 DEF Busy
  <2>11. CASE RefuseConflict(p) \/ ReadOutput(p) \/ Refused(p) \/ Fail(p)
    BY <2>11, <2>r DEF RefuseConflict, ReadOutput, Refused, Fail
  <2>12. ~RemoveZone(p)
    BY <2>4 DEF RemoveZone
  <2> HIDE DEF Fine
  <2> QED BY <2>1, <2>3, <2>5, <2>6, <2>7, <2>8, <2>9, <2>10, <2>11, <2>12 DEF Step
<1>3. ~Outside
  BY <1>0, ContractAssumption DEF Outside
<1> QED BY <1>0, <1>1, <1>2, <1>3 DEF Next

LEMMA ContractInvariant == Spec => []ContractInv
BY ContractInit, ContractStep, AppliedInvariant, PTL DEF Spec

-----------------------------------------------------------------------------
(* The driver implements the contract *)

\* Steps that neither change a record nor start or end the call.
LEMMA Stutters ==
    ASSUME UNCHANGED live, pc[Caller] # "ready", pc'[Caller] # "ready",
           spec'[Caller] = spec[Caller]
    PROVE  UNCHANGED <<live, Call, Outcome>>
BY DEF Call, Outcome

LEMMA CallRuns ==
    ASSUME CallsOK, pc[Caller] # "ready"
    PROVE  Call # Idle /\ Call = spec[Caller] /\ Outcome = "running"
<1>1. Caller \in Ops
  BY ContractAssumption
<1>2. spec[Caller] \in Specs
  BY <1>1 DEF CallsOK
<1> QED BY <1>2, ContractAssumption DEF Call, Outcome

LEMMA StartBegins ==
    ASSUME ContractInv, Start(Caller)
    PROVE  Contract!Begin
<1>0. CallsOK /\ Caller \in Ops
  BY ContractAssumption DEF ContractInv, AppliedInv, UndisturbedInv, SafeInv, TypeOK
<1>1. \E k \in {"Create", "Update"} : \E s \in Specs : \E id : Begin(Caller, k, s, id)
  BY ContractAssumption DEF Start
<1>2. /\ pc[Caller] = "ready" /\ pc'[Caller] # "ready"
      /\ spec'[Caller] \in Specs /\ live' = live
  BY <1>0, <1>1 DEF Begin, Goto, FirstStep, CallsOK, zoneVars
<1>3. Call = Idle /\ Call' \in Specs /\ Outcome' = "running"
  BY <1>2 DEF Call, Outcome
<1> QED BY <1>2, <1>3 DEF Contract!Begin

LEMMA ReturnGivesUp ==
    ASSUME ContractInv, pc[Caller] # "ready", UNCHANGED live, NEW records,
           NEW how \in {"failed", "conflict", "missing"}, Return(Caller, how, records)
    PROVE  Contract!GiveUp
<1>0. CallsOK /\ Caller \in Ops
  BY ContractAssumption DEF ContractInv, AppliedInv, UndisturbedInv, SafeInv, TypeOK
<1>1. pc'[Caller] = "ready" /\ result'[Caller] = how
  BY <1>0 DEF Return, CallsOK
<1>2. Call # Idle /\ Call' = Idle /\ Outcome' = "failed"
  BY <1>0, <1>1, CallRuns DEF Call, Outcome
<1> QED BY <1>2 DEF Contract!GiveUp

\* What the invariant says of the caller between its listing and its output.
LEMMA CallerApplies ==
    ASSUME ContractInv, Busy(Caller)
    PROVE  /\ UndisturbedInv /\ CallsOK /\ Caller \in Ops /\ ~disturbed[Caller]
           /\ Consistent(spec[Caller]) /\ LoopLocals(Caller) /\ Applied(Caller)
           /\ live \subseteq LiveRecord /\ nextId \in Nat \ {0}
           /\ \A r \in live : r.id < nextId
           /\ Call # Idle /\ Call = spec[Caller]
<1>1. Caller \in Ops
  BY ContractAssumption
<1>2. UndisturbedInv /\ TypeOK /\ CallsOK /\ ~disturbed[Caller]
  BY <1>1 DEF ContractInv, AppliedInv, UndisturbedInv, SafeInv, TypeOK
<1>3. Consistent(spec[Caller])
  BY <1>1, <1>2, ContractAssumption DEF CallsOK
<1>4. LoopLocals(Caller) /\ Applied(Caller)
  BY <1>1, <1>2, <1>3 DEF ContractInv, AppliedInv
<1>5. pc[Caller] # "ready"
  BY DEF Busy, Loops
<1> QED BY <1>1, <1>2, <1>3, <1>4, <1>5, CallRuns DEF TypeOK, ServiceOK

\* UpdateRecord puts a declared record in the place of the one listed first
\* under its key.
LEMMA ChangePlaces ==
    ASSUME ContractInv, ChangeRecord(Caller)
    PROVE  Contract!Place
<1> DEFINE p == Caller
<1>1. Applying(p) /\ Busy(p)
  BY DEF ChangeRecord, UpdateRequests, Applying, Busy, Loops
<1>0. /\ UndisturbedInv /\ CallsOK /\ p \in Ops /\ ~disturbed[p]
      /\ Consistent(spec[p]) /\ Applied(p) /\ live \subseteq LiveRecord
      /\ Call # Idle /\ Call = spec[p]
  BY <1>1, CallerApplies
<1> HIDE DEF p
<1>2. PICK req \in UpdateRequests(p) : Serve(req)
  BY DEF ChangeRecord, Send, p
<1>3. PICK c \in existing(p) : req = Request("UpdateRecord", zid[p], c.id, Record(p))
  BY <1>2 DEF UpdateRequests
<1>4. /\ c \in live /\ recordKey(c) = recordKey(Record(p))
      /\ \A r \in live : r.id = c.id => r = c
  BY <1>0, <1>1, TakenAsListed
<1> DEFINE new == editRecordBody(c, Record(p))
<1>5. live' = (live \ {c}) \cup {new}
  <2>1. WithId(c.id) = {c}
    BY <1>4 DEF WithId
  <2> QED BY <1>2, <1>3, <2>1 DEF Serve, Request, UpdateRecord
<1>6. new \in LiveRecord /\ new.id = c.id /\ Agrees(new, Record(p))
  BY <1>0, <1>1, <1>4, RecordTyped, EditedRecord, EditAgrees
<1> HIDE DEF new
<1>7. pos[p] \in DOMAIN Call.records /\ Record(p) = Call.records[pos[p]]
  BY <1>0, <1>1, RecordTyped DEF Desired, Record
<1>8. Contract!Agrees(new, Call.records[pos[p]])
  BY <1>6, <1>7, ContractAgrees
<1>9. {r \in live : r.id = new.id} = {c}
  BY <1>4, <1>6
<1>10. {c} \subseteq Contract!Candidates(live, Contract!recordKey(Call.records[pos[p]]))
  BY <1>4, <1>7, ContractRecords, ContractKeys DEF Candidates
<1>11. UNCHANGED <<Call, Outcome>>
  BY <1>0 DEF ChangeRecord, Send, Call, Outcome, p
<1> QED BY <1>0, <1>5, <1>7, <1>8, <1>9, <1>10, <1>11 DEF Contract!Place

\* CreateRecord adds a declared record of whose key the zone has none.
LEMMA AddPlaces ==
    ASSUME ContractInv, AddRecord(Caller)
    PROVE  Contract!Place
<1> DEFINE p == Caller
<1>1. /\ Applying(p) /\ Busy(p) /\ existing(p) = {}
      /\ Serve(Request("CreateRecord", zid[p], 0, Record(p)))
  BY DEF AddRecord, CreateRequests, Send, Applying, Busy, Loops
<1>0. /\ UndisturbedInv /\ CallsOK /\ p \in Ops /\ ~disturbed[p]
      /\ live \subseteq LiveRecord /\ nextId \in Nat \ {0}
      /\ \A r \in live : r.id < nextId
      /\ Call # Idle /\ Call = spec[p]
  BY <1>1, CallerApplies
<1> HIDE DEF p
<1> DEFINE new == newRecordBody(nextId, Record(p))
<1>2. live' = live \cup {new}
  BY <1>1 DEF Serve, Request, CreateRecord
<1>3. new \in LiveRecord /\ new.id = nextId /\ Agrees(new, Record(p))
  BY <1>0, <1>1, RecordTyped, NewRecord, NewAgrees
<1> HIDE DEF new
<1>4. pos[p] \in DOMAIN Call.records /\ Record(p) = Call.records[pos[p]]
  BY <1>0, <1>1, RecordTyped DEF Desired, Record
<1>5. Contract!Agrees(new, Call.records[pos[p]])
  BY <1>3, <1>4, ContractAgrees
<1>6. {r \in live : r.id = new.id} = {}
  <2>1. \A r \in live : r.id \in Nat /\ r.id < nextId
    BY <1>0 DEF LiveRecord
  <2> QED BY <1>0, <1>3, <2>1
<1>7. Contract!Candidates(live, Contract!recordKey(Call.records[pos[p]])) = {}
  <2>1. ~Present(recordKey(Record(p)), live)
    BY <1>0, <1>1, AddsNoDuplicate
  <2> QED BY <1>4, <2>1, ContractRecords, ContractKeys DEF Candidates, Present
<1>8. UNCHANGED <<Call, Outcome>>
  BY DEF AddRecord, Send, Call, Outcome, p
<1> QED BY <1>0, <1>2, <1>4, <1>5, <1>6, <1>7, <1>8 DEF Contract!Place

\* Each DeleteRecord of the three loops is of a spare record: one the spec does
\* not declare, or a marker beside the one that stands for the declared one.
LEMMA RemoveRemoves ==
    ASSUME ContractInv, RemoveRecord(Caller)
    PROVE  Contract!Remove
<1> DEFINE p == Caller
<1>1. Busy(p)
  BY DEF RemoveRecord, DeleteRequests, Applying, Busy, Loops
<1>0. /\ UndisturbedInv /\ CallsOK /\ p \in Ops /\ ~disturbed[p]
      /\ Consistent(spec[p]) /\ LoopLocals(p) /\ Applied(p)
      /\ live \subseteq LiveRecord
      /\ Call # Idle /\ Call = spec[p]
  BY <1>1, CallerApplies
<1>d. RemoveRecord(p)
  OBVIOUS
<1> HIDE DEF p
<1>2. PICK req \in DeleteRequests(p) : Serve(req)
  BY <1>d DEF RemoveRecord, Send
<1>3. PICK c \in current[p] :
          /\ req = Request("DeleteRecord", zid[p], c.id, NoRecord)
          /\ c.id \notin taken[p] /\ c.id \notin deleted[p]
          /\ \/ recordKey(c) \notin Keys(Desired(p))
             \/ pc[p] = "deleteMarkers" /\ c \in staleMarkers(p)
  BY <1>0, RemovedUnplaced
<1>4. c \in live /\ \A r \in live : r.id = c.id => r = c
  BY <1>0, <1>3, Undisturbed DEF Applied
<1>5. live' = live \ {c}
  <2>1. WithId(c.id) = {c}
    BY <1>4 DEF WithId
  <2> QED BY <1>2, <1>3, <2>1 DEF Serve, Request, DeleteRecord
<1>6. \/ spec[p].manage
      \/ cleanupManagedMarkers(p) /\ isWorkflowManagedMarker(c)
  <2>1. PICK d \in current[p] :
            /\ req = Request("DeleteRecord", zid[p], d.id, NoRecord)
            /\ \/ spec[p].manage
               \/ cleanupManagedMarkers(p) /\ isWorkflowManagedMarker(d)
    BY DEF DeleteRequests, conflicts, staleMarkers, unlisted
  <2>2. d.id = c.id
    BY <1>3, <2>1 DEF Request
  <2>3. d = c
    BY <1>0, <2>2, Undisturbed
  <2> QED BY <2>1, <2>3
<1>7. Contract!Spare(c)
  <2>1. cleanupManagedMarkers(p) => Contract!DeclaresMarker(Call)
    BY <1>0, ContractRecords DEF cleanupManagedMarkers, Contract!DeclaresMarker, Desired
  <2>2. CASE recordKey(c) \notin Keys(Desired(p))
    <3>1. Contract!recordKey(c) \notin Contract!Keys(Call.records)
      BY <1>0, <2>2, ContractRecords, ContractKeys DEF Desired
    <3> QED BY <1>0, <1>6, <2>1, <3>1, ContractRecords DEF Contract!Spare
  <2>3. CASE /\ recordKey(c) \in Keys(Desired(p))
             /\ pc[p] = "deleteMarkers" /\ c \in staleMarkers(p)
    <3>1. PICK i \in DOMAIN Desired(p) : recordKey(Desired(p)[i]) = recordKey(c)
      BY <2>3 DEF Keys
    <3>2. i < pos[p]
      <4>1. Desired(p) \in Seq(DesiredRecord) /\ pos[p] \in Nat
        BY <1>0, SpecsAssumption DEF CallsOK, Desired, DNSSpecs
      <4> QED BY <1>0, <2>3, <4>1 DEF Applied
    <3>3. PICK s \in Placed(p) : Stands(p, s, Desired(p)[i])
      BY <1>0, <3>2 DEF Applied
    <3>4. s \in live /\ s # c /\ recordKey(s) = recordKey(c)
      BY <1>3, <3>1, <3>3 DEF Placed, Listed, Stands, Agrees
    <3>5. Contract!Candidates(live \ {c}, Contract!recordKey(c)) # {}
      BY <3>4, ContractRecords, ContractKeys DEF Candidates
    <3>6. Contract!isWorkflowManagedMarker(c)
      BY <2>3, ContractRecords DEF staleMarkers
    <3> QED BY <3>5, <3>6 DEF Contract!Spare
  <2> QED BY <1>3, <2>2, <2>3
<1>8. UNCHANGED <<Call, Outcome>>
  BY <1>d DEF RemoveRecord, Send, Call, Outcome, p
<1> QED BY <1>0, <1>4, <1>5, <1>7, <1>8 DEF Contract!Remove

\* A call that returns its output has left the zone as its spec says.
LEMMA OutputSucceeds ==
    ASSUME ContractInv, ReadOutput(Caller)
    PROVE  Contract!Succeed
<1> DEFINE p == Caller
<1>1. Busy(p) /\ pc[p] = "readOutput"
  <2>1. kind[p] # "Read"
    BY ContractAssumption DEF ContractInv, ReadOutput
  <2> QED BY <2>1 DEF ReadOutput, Busy
<1>0. /\ UndisturbedInv /\ CallsOK /\ p \in Ops /\ ~disturbed[p]
      /\ LoopLocals(p) /\ Applied(p) /\ live \subseteq LiveRecord
      /\ Call # Idle /\ Call = spec[p]
  BY <1>1, CallerApplies
<1>2. /\ live' = live /\ pc'[p] = "ready" /\ result'[p] = "ok"
  BY <1>0 DEF ReadOutput, Return, CallsOK, zoneVars
<1>3. Call' = Idle /\ Outcome' = "ok"
  BY <1>2 DEF Call, Outcome
<1> HIDE DEF p
<1>4. \A i \in DOMAIN Call.records : \E r \in live : Contract!Agrees(r, Call.records[i])
  <2> SUFFICES ASSUME NEW i \in DOMAIN Desired(p)
               PROVE  \E r \in live : Contract!Agrees(r, Desired(p)[i])
    BY <1>0 DEF Desired
  <2>1. PICK r \in Placed(p) : Stands(p, r, Desired(p)[i])
    BY <1>0, <1>1, OneStands
  <2>2. r \in live /\ r \in LiveRecord /\ Agrees(r, Desired(p)[i])
    BY <1>0, <2>1 DEF Placed, Stands
  <2> QED BY <2>2, ContractAgrees
<1>5. \A r \in live : Call.manage => Contract!recordKey(r) \in Contract!Keys(Call.records)
  BY <1>0, <1>1, NothingLeft, ContractRecords, ContractKeys DEF Desired
<1>6. ASSUME NEW r \in live, NEW q \in live, Contract!DeclaresMarker(Call),
             Contract!isWorkflowManagedMarker(r), Contract!isWorkflowManagedMarker(q)
      PROVE  /\ Contract!recordKey(r) \in Contract!Keys(Call.records)
             /\ Contract!recordKey(r) = Contract!recordKey(q) => r = q
  <2>1. /\ cleanupManagedMarkers(p)
        /\ isWorkflowManagedMarker(r) /\ isWorkflowManagedMarker(q)
    BY <1>0, <1>6, ContractRecords
       DEF cleanupManagedMarkers, Contract!DeclaresMarker, Desired
  <2>2. /\ r \in Placed(p) /\ q \in Placed(p)
        /\ recordKey(r) \in Keys(Desired(p))
    BY <1>0, <1>1, <2>1, NothingLeft
  <2>3. recordKey(r) = recordKey(q) => r = q
    BY <1>0, <2>2 DEF Applied
  <2> QED BY <1>0, <2>2, <2>3, ContractRecords, ContractKeys DEF Desired
<1>7. Contract!InPlace(Call)
  BY <1>4, <1>5, <1>6 DEF Contract!InPlace
<1> QED BY <1>0, <1>2, <1>3, <1>7 DEF Contract!Succeed

LEMMA ContractStarts == Init => Contract!Init
<1> SUFFICES ASSUME Init PROVE Contract!Init
  OBVIOUS
<1>1. pc[Caller] = "ready" /\ result[Caller] = "none"
  BY ContractAssumption DEF Init, InitWith
<1> QED BY <1>1 DEF Contract!Init, Call, Outcome

LEMMA CallerSteps ==
    ASSUME ContractInv, Start(Caller) \/ Step(Caller) \/ Fail(Caller)
    PROVE  Contract!Next \/ UNCHANGED <<live, Call, Outcome>>
<1>0. /\ CallsOK /\ Caller \in Ops /\ pc[Caller] # "DeleteZone"
      /\ zone = 0 => live = {}
  BY ContractAssumption DEF ContractInv, AppliedInv, UndisturbedInv, SafeInv, TypeOK
<1>1. CASE Start(Caller)
  BY <1>1, StartBegins DEF Contract!Next
<1>2. CASE \/ FindZone(Caller) \/ ListRecords(Caller) \/ KeepRecord(Caller)
           \/ NextLoop(Caller)
           \/ MissZone(Caller) /\ Goto(Caller, "CreateZone") /\ UNCHANGED callVars
  <2>1. /\ UNCHANGED live /\ spec'[Caller] = spec[Caller]
        /\ pc[Caller] # "ready" /\ pc'[Caller] # "ready"
    BY <1>0, <1>2 DEF FindZone, ListRecords, KeepRecord, NextLoop, MissZone, Goto,
                      Applying, callVars, zoneVars, CallsOK
  <2> QED BY <2>1, Stutters
<1>3. CASE MakeZone(Caller)
  <2>1. PICK req \in ZoneRequests(Caller) : Accepts(req) /\ Serve(req)
    BY <1>3 DEF MakeZone, Send
  <2>2. req.call = "CreateZone" /\ pc[Caller] = "CreateZone"
    BY <1>3, <2>1 DEF MakeZone, ZoneRequests, Request
  <2>3. live = {} /\ live' = {}
    BY <1>0, <2>1, <2>2 DEF Accepts, Serve, CreateZone
  <2>4. pc'[Caller] # "ready" /\ spec'[Caller] = spec[Caller]
    BY <1>0, <1>3 DEF MakeZone, Goto, CallsOK
  <2> QED BY <2>2, <2>3, <2>4, Stutters
<1>4. CASE ChangeRecord(Caller) \/ AddRecord(Caller)
  BY <1>4, ChangePlaces, AddPlaces DEF Contract!Next
<1>5. CASE RemoveRecord(Caller)
  BY <1>5, RemoveRemoves DEF Contract!Next
<1>6. CASE ReadOutput(Caller)
  BY <1>6, OutputSucceeds DEF Contract!Next
<1>7. CASE RefuseConflict(Caller) \/ Refused(Caller) \/ Fail(Caller)
  <2>1. /\ pc[Caller] # "ready" /\ UNCHANGED live
        /\ \E how \in {"failed", "conflict"} : Return(Caller, how, {})
    <3>1. \A req : req \in Requests(Caller) => pc[Caller] # "ready"
      BY DEF Requests, CreateRequests, UpdateRequests, DeleteRequests, ZoneRequests,
             Applying
    <3> QED BY <1>7, <3>1 DEF RefuseConflict, Refused, Fail, Applying, zoneVars
  <2> QED BY <2>1, ReturnGivesUp DEF Contract!Next
<1>8. CASE MissZone(Caller) /\ ~(kind[Caller] = "Create" /\ spec[Caller].account)
  <2>1. /\ pc[Caller] # "ready" /\ UNCHANGED live
        /\ \E how \in {"failed", "missing"} : Return(Caller, how, {})
    BY <1>8 DEF MissZone, zoneVars
  <2> QED BY <2>1, ReturnGivesUp DEF Contract!Next
<1>9. ~RemoveZone(Caller)
  BY <1>0 DEF RemoveZone
<1> QED BY <1>1, <1>2, <1>3, <1>4, <1>5, <1>6, <1>7, <1>8, <1>9 DEF Step, MissZone

LEMMA ContractStepped ==
    ContractInv /\ [Next]_vars => [Contract!Next]_<<live, Call, Outcome>>
<1> SUFFICES ASSUME ContractInv, [Next]_vars
             PROVE  Contract!Next \/ UNCHANGED <<live, Call, Outcome>>
  OBVIOUS
<1>0. /\ limbo = {} /\ edits \in 0..MaxOutside
  BY DEF ContractInv, AppliedInv, UndisturbedInv, SafeInv, TypeOK
<1>1. CASE \E p \in Ops : Start(p) \/ Step(p) \/ Fail(p) \/ Lose(p)
  <2>1. PICK p \in Ops : Start(p) \/ Step(p) \/ Fail(p) \/ Lose(p)
    BY <1>1
  <2>2. p = Caller
    BY ContractAssumption
  <2>3. ~Lose(p)
    BY <1>0, FS_EmptySet, ContractAssumption DEF Lose
  <2> QED BY <2>1, <2>2, <2>3, CallerSteps
<1>2. CASE UNCHANGED vars
  BY <1>2 DEF vars, zoneVars, Call, Outcome, callVars
<1>3. ~Outside
  BY <1>0, ContractAssumption DEF Outside
<1> QED BY <1>0, <1>1, <1>2, <1>3 DEF Next

\* For any specs and zones, an undisturbed driver call is a call of ZoneContract
\* (Create and Update of dns.go).
THEOREM DriverKeepsContract == Spec => ImplementsContract
<1>1. [Contract!Next]_<<live, Call, Outcome>> <=> [Contract!Next]_(Contract!contractVars)
  BY DEF Contract!contractVars
<1> QED BY <1>1, ContractStarts, ContractStepped, ContractInvariant, PTL
        DEF Spec, ImplementsContract, Contract!Spec

=============================================================================
