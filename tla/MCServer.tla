------------------------------ MODULE MCServer ------------------------------
(* A domain with a zone, another with a zone, and an id for a new zone of the first. *)
EXTENDS ServerSafety

CONSTANTS z1, z2, z3, d1, d2, a1, r1, r2, r3, k1, k2, bad, label, c1, c2

MCZoneName == [z \in {z1, z2, z3} |-> IF z = z2 THEN d2 ELSE d1]
MCZoneAccount == [z \in {z1, z2, z3} |-> a1]
MCConfigAccount == [k \in {k1, k2} |-> IF k = k1 THEN a1 ELSE NoAccount]
MCFirstOrder == [z \in {z1, z2, z3} |-> IF z = z1 THEN <<r1>> ELSE IF z = z2 THEN <<r2>> ELSE <<>>]
DomainZones == MCZoneName
AccountZones == MCZoneAccount
AccountConfigs == MCConfigAccount
RecordsAtFirst == MCFirstOrder

R(type, name, id) == [type |-> type, name |-> name, id |-> id]
Q(op, refs, domain, id, config) ==
    [op |-> op, refs |-> refs, config |-> config,
     spec |-> [domain |-> domain, id |-> id, account |-> NoAccount]]
Call(op, refs) == Q(op, refs, d1, NoId, k1)

MCRequests ==
    {Q("Initialize", <<>>, d1, NoId, k) : k \in {k1, k2, bad}}
    \cup {Call("EnumerateAll", <<>>), Call("Plan", <<>>)}
    \cup {Call("Destroy", <<R("infra.domain", d2, NoId), R("infra.dns", d1, NoId),
                            R("infra.http_redirect", label, NoId)>>),
          Call("Status", <<R("", d1, d2), R("other", label, NoId)>>),
          Call("Diff", <<R("infra.dns", d1, NoId)>>),
          Call("Import", <<R("", z1, z1)>>), Call("Import", <<R("", d1, d1)>>)}
    \cup {Q("Create", <<R("infra.dns", label, NoId)>>, d1, id, k1) : id \in {NoId, z2}}
    \cup {Q("Update", <<R("infra.dns", label, z2)>>, d1, NoId, k1),
          Call("Delete", <<R("infra.dns", label, z1)>>),
          Call("Delete", <<R("", d1, z1)>>),
          Call("HealthCheck", <<R("infra.dns", d1, NoId)>>),
          Call("Scale", <<R("infra.http_redirect", label, NoId)>>)}
EngineRequests == MCRequests

TwoCallers == Permutations({c1, c2})

=============================================================================
