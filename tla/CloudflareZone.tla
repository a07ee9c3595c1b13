--------------------------- MODULE CloudflareZone ---------------------------
(***************************************************************************)
(* The DNS side of the Cloudflare API as internal/drivers/dns.go uses it   *)
(* through CloudflareClient.  It is the external service: at most one zone *)
(* for the domain at a time, under an id that is never used again, and the *)
(* records of that zone.                                                   *)
(***************************************************************************)
EXTENDS DNSRecord

CONSTANTS MaxZones,     \* the zones the account may ever create
          SeedIds,      \* record ids 1..SeedIds exist before the first call
          InitialZones  \* the record sets a zone may hold at first

\* Cloudflare refuses a CNAME beside an A, AAAA or CNAME of the same name.
AliasClash(r, s) ==
    /\ r.type \in AddressTypes
    /\ s.type \in AddressTypes
    /\ canonicalName(r.name) = canonicalName(s.name)
    /\ "CNAME" \in {r.type, s.type}

ASSUME ServiceAssumption ==
    /\ MaxZones \in Nat \ {0}
    /\ SeedIds \in Nat
    /\ \A records \in InitialZones :
          /\ records \subseteq LiveRecord
          /\ \A r \in records : r.id <= SeedIds
          /\ \A r, s \in records : r.id = s.id => r = s
          /\ \A r, s \in records : r # s => ~AliasClash(r, s)

VARIABLES zone,   \* the id of the domain's zone, 0 while there is none
          zones,  \* how many zones have been created
          live,   \* the records of the zone
          nextId  \* the id the next record gets

zoneVars == <<zone, zones, live, nextId>>

CloudflareInit ==
    /\ nextId = SeedIds + 1
    /\ zones = 1
    /\ \/ zone = 0 /\ live = {}
       \/ zone = 1 /\ live \in InitialZones

Request(call, z, id, record) ==
    [call |-> call, zone |-> z, id |-> id, record |-> record]

\* Get a zone by id, or by the domain's name when the id is empty (0).
GetZone(id) == IF zone # 0 /\ id \in {0, zone} THEN zone ELSE 0

WithId(id) == {r \in live : r.id = id}

\* The calls the API carries out; it answers every other one with an error.
Accepts(req) ==
    CASE req.call = "CreateZone" -> zone = 0 /\ zones < MaxZones
      [] req.call = "DeleteZone" -> zone # 0 /\ req.zone = zone
      [] req.call = "CreateRecord" ->
             /\ zone # 0 /\ req.zone = zone
             /\ \A r \in live : ~AliasClash(r, req.record)
      [] req.call = "UpdateRecord" ->
             /\ zone # 0 /\ req.zone = zone /\ WithId(req.id) # {}
             /\ \A r \in live \ WithId(req.id) : ~AliasClash(r, req.record)
      [] req.call = "DeleteRecord" ->
             zone # 0 /\ req.zone = zone /\ WithId(req.id) # {}

CreateZone ==
    /\ zones' = zones + 1
    /\ zone' = zones + 1
    /\ live' = {}
    /\ UNCHANGED nextId

DeleteZone ==
    /\ zone' = 0
    /\ live' = {}
    /\ UNCHANGED <<zones, nextId>>

CreateRecord(desired) ==
    /\ live' = live \cup {newRecordBody(nextId, desired)}
    /\ nextId' = nextId + 1
    /\ UNCHANGED <<zone, zones>>

UpdateRecord(id, desired) ==
    /\ live' = (live \ WithId(id))
                   \cup {editRecordBody(old, desired) : old \in WithId(id)}
    /\ UNCHANGED <<zone, zones, nextId>>

DeleteRecord(id) ==
    /\ live' = live \ WithId(id)
    /\ UNCHANGED <<zone, zones, nextId>>

\* The effect of an accepted call.
Serve(req) ==
    \/ req.call = "CreateZone"   /\ CreateZone
    \/ req.call = "DeleteZone"   /\ DeleteZone
    \/ req.call = "CreateRecord" /\ CreateRecord(req.record)
    \/ req.call = "UpdateRecord" /\ UpdateRecord(req.id, req.record)
    \/ req.call = "DeleteRecord" /\ DeleteRecord(req.id)

=============================================================================
