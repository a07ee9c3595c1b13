---------------------------- MODULE ZoneContract ----------------------------
(***************************************************************************)
(* What Create and Update of infra.dns promise about a zone, whatever API  *)
(* calls they are made of: while a call for a spec runs, declared records  *)
(* are put in place one at a time, spare ones are removed one at a time,   *)
(* and the call may say "ok" only when the zone is as the spec says.       *)
(***************************************************************************)
EXTENDS DNSRecord

CONSTANTS Specs, \* what may be asked for
          Idle   \* no call runs

VARIABLES records, \* the records of the zone
          call,    \* the spec of the running call, or Idle
          outcome  \* "none", "running", "ok" or "failed"

contractVars == <<records, call, outcome>>

\* A priority that is not sent cannot be asked for.
Agrees(r, desired) ==
    recordMatches([r EXCEPT !.priority = IF SendsPriority(desired) THEN @
                                         ELSE desired.priority], desired)

DeclaresMarker(s) ==
    \E i \in DOMAIN s.records : isWorkflowManagedMarker(s.records[i])

\* Records a call may remove: those its spec does not declare, if it manages
\* unlisted records or they are stale markers, and second copies of a marker.
Spare(r) ==
    \/ /\ recordKey(r) \notin Keys(call.records)
       /\ call.manage \/ (DeclaresMarker(call) /\ isWorkflowManagedMarker(r))
    \/ /\ isWorkflowManagedMarker(r)
       /\ Candidates(records \ {r}, recordKey(r)) # {}

InPlace(s) ==
    /\ \A i \in DOMAIN s.records : \E r \in records : Agrees(r, s.records[i])
    /\ \A r \in records : s.manage => recordKey(r) \in Keys(s.records)
    /\ \A r, q \in records :
          /\ DeclaresMarker(s)
          /\ isWorkflowManagedMarker(r) /\ isWorkflowManagedMarker(q)
          => /\ recordKey(r) \in Keys(s.records)
             /\ recordKey(r) = recordKey(q) => r = q

Begin ==
    /\ call = Idle
    /\ call' \in Specs
    /\ outcome' = "running"
    /\ UNCHANGED records

\* A declared record takes the place of one of its key, or is added when the
\* zone has none.
Place ==
    /\ call # Idle
    /\ \E i \in DOMAIN call.records, new \in records' :
          LET old == {r \in records : r.id = new.id}
              key == recordKey(call.records[i])
          IN  /\ Agrees(new, call.records[i])
              /\ IF old = {} THEN Candidates(records, key) = {}
                 ELSE old \subseteq Candidates(records, key)
              /\ records' = (records \ old) \cup {new}
    /\ UNCHANGED <<call, outcome>>

Remove ==
    /\ call # Idle
    /\ \E r \in records : Spare(r) /\ records' = records \ {r}
    /\ UNCHANGED <<call, outcome>>

Succeed ==
    /\ call # Idle
    /\ InPlace(call)
    /\ call' = Idle /\ outcome' = "ok"
    /\ UNCHANGED records

GiveUp ==
    /\ call # Idle
    /\ call' = Idle /\ outcome' = "failed"
    /\ UNCHANGED records

Init == call = Idle /\ outcome = "none"

Next == Begin \/ Place \/ Remove \/ Succeed \/ GiveUp

Spec == Init /\ [][Next]_contractVars

=============================================================================
