----------------------------- MODULE ZoneLookup -----------------------------
(***************************************************************************)
(* The zones of an account and how the operations of DNSDriver find the    *)
(* one they are for (internal/drivers/dns.go): by the id or the name in a  *)
(* ResourceRef, or by the domain and the zone_id of a config.              *)
(***************************************************************************)
EXTENDS ListPaging

CONSTANTS Names,        \* domain names
          Labels,       \* names of resources that are not domain names
          Accounts,
          ZoneName, ZoneAccount, \* of a zone id, whether in use or not
          NoId, NoAccount

ASSUME ZonesAssumption ==
    /\ ZoneName \in [ZoneIds -> Names]
    /\ ZoneAccount \in [ZoneIds -> Accounts]
    /\ NoAccount \notin Accounts
    /\ ZoneIds \cap (Names \cup {NoId}) = {} /\ NoId \notin Names

VARIABLES held,  \* ids of the zones that exist
          gone   \* ids of zones that were deleted, which are not used again

zoneVars == <<held, gone>>

ProviderIDs == ZoneIds \cup Names \cup {NoId}

\* The types that there is a driver for.
Types == {"", "infra.dns", "infra.domain", "infra.http_redirect"}

ResourceRef == [type : Types \cup {"other"}, name : Names \cup Labels \cup ZoneIds, id : ProviderIDs]

\* The parts of a DNS config that say which zone it is for.
ZoneSpec == [domain : Names, id : ZoneIds \cup {NoId}, account : Accounts \cup {NoAccount}]

By(domain, id) == [domain |-> domain, id |-> id]

\* Variant: a ProviderID is taken for a zone id, whatever it is.
domainAndZoneIDAsIs(ref) == By(ref.name, ref.id)

\* A ProviderID that is a domain name is one.
domainAndZoneIDFromRef(ref) ==
    IF ref.id \in Names THEN By(ref.id, NoId) ELSE By(ref.name, ref.id)

\* What each operation looks for; a Delete with a ProviderID does not look.
Wanted(op, ref, spec) ==
    CASE op \in {"Read", "Scale"} -> domainAndZoneIDFromRef(ref)
      [] op = "Create"            -> By(spec.domain, spec.id)
      [] op = "Update"            -> By(spec.domain, ref.id)
      [] op = "HealthCheck"       -> By(ref.name, ref.id)
      [] op = "Delete"            -> By(ref.name, NoId)

\* The zones an answer may be about: those of all accounts have their turn.
GetZone(by) ==
    IF by.id # NoId THEN {by.id} \cap held
    ELSE {z \in held : ZoneName[z] = by.domain}

\* The service makes no second zone of a name in an account.
Creatable(account, domain) ==
    IF \E z \in held : ZoneName[z] = domain /\ ZoneAccount[z] = account THEN {}
    ELSE {z \in ZoneIds \ (held \cup gone) :
             ZoneName[z] = domain /\ ZoneAccount[z] = account}

DeleteZone(z) ==
    /\ held' = held \ {z}
    /\ gone' = gone \cup {z}
    /\ DropRecords(z)

=============================================================================
