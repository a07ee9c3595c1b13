----------------------------- MODULE DNSRecord -----------------------------
(***************************************************************************)
(* DNS records as the driver compares, keys and sends them                 *)
(* (internal/drivers/dns.go).                                              *)
(*                                                                         *)
(* A name is [labels, upper, rooted]: the labels as written, whether some  *)
(* letter is upper case, whether it ends in a dot.  Record data is         *)
(* [value, form]: the value and how it is spelled ("plain", "upper" for    *)
(* upper case letters, "rooted" for a trailing dot, "quoted" for the       *)
(* presentation form of TXT).  A desired record may leave proxied "unset"  *)
(* (a nil pointer) and the comment empty; a live record has an id and      *)
(* every field.                                                            *)
(***************************************************************************)
EXTENDS Integers, Sequences, FiniteSets

CONSTANTS Domain,     \* the zone's labels, lower case
          DomainData, \* the zone's name used as record data ("@" in a target)
          MarkerData  \* the TXT values that carry workflow's heritage tags

ASSUME DomainAssumption == Domain \in Seq(STRING) /\ DomainData \in STRING

HostTypes    == {"CNAME", "MX", "NS", "SRV"}
AddressTypes == {"A", "AAAA", "CNAME"}
RecordTypes  == {"A", "AAAA", "CAA", "CNAME", "MX", "NS", "SRV", "TXT"}

Names  == [labels : Seq(STRING), upper : BOOLEAN, rooted : BOOLEAN]
Data   == [value : STRING, form : {"plain", "upper", "rooted", "quoted"}]

\* Letters and quotes matter in TXT data: there they are part of the value.
DesiredRecord ==
    {r \in [type : RecordTypes, name : Names, data : Data, ttl : Int,
            priority : Int, proxied : {"unset", "on", "off"}, comment : STRING] :
        r.type = "TXT" => r.data.form \in {"plain", "quoted"}}

LiveRecord ==
    {r \in [type : RecordTypes, name : Names, data : Data, ttl : Int,
            priority : Int, proxied : {"on", "off"}, comment : STRING,
            id : Nat \ {0}] :
        r.type = "TXT" => r.data.form \in {"plain", "quoted"}}

-----------------------------------------------------------------------------
(* Names and data *)

EndsIn(labels, suffix) ==
    /\ Len(labels) >= Len(suffix)
    /\ SubSeq(labels, Len(labels) - Len(suffix) + 1, Len(labels)) = suffix

\* Variant: an absolute name is extended like a relative one.
normalizeRelativeName(name) ==
    IF name.labels = <<"@">>
    THEN [labels |-> Domain, upper |-> FALSE, rooted |-> FALSE]
    ELSE [name EXCEPT !.rooted = FALSE, !.labels = name.labels \o Domain]

normalizeRecordName(name) ==
    LET trimmed == [name EXCEPT !.rooted = FALSE]
    IN  IF name.labels = <<"@">>
        THEN [labels |-> Domain, upper |-> FALSE, rooted |-> FALSE]
        ELSE IF name.labels = <<>> \/ EndsIn(name.labels, Domain) THEN trimmed
        ELSE [trimmed EXCEPT !.labels = name.labels \o Domain]

canonicalName(name) == normalizeRecordName(name).labels

normalizeRecordData(type, data) ==
    IF type \notin HostTypes THEN data
    ELSE IF data.value = "@" THEN [value |-> DomainData, form |-> "plain"]
    ELSE IF data.form = "rooted" THEN [data EXCEPT !.form = "plain"]
    ELSE data

rawTXTData(type, data) ==
    IF type = "TXT" /\ data.form = "quoted"
    THEN [data EXCEPT !.form = "plain"] ELSE data

canonicalData(type, data) ==
    IF type \in HostTypes
    THEN [value |-> normalizeRecordData(type, data).value, form |-> "plain"]
    ELSE rawTXTData(type, data)

recordKey(r) == <<r.type, canonicalName(r.name), canonicalData(r.type, r.data)>>

\* What dedupeDesiredRecords leaves of the records of a spec.
UniqueKeys(records) ==
    \A i, j \in DOMAIN records :
        recordKey(records[i]) = recordKey(records[j]) => i = j

-----------------------------------------------------------------------------
(* Comparisons *)

recordMatches(current, desired) ==
    /\ recordKey(current) = recordKey(desired)
    /\ current.ttl = desired.ttl
    /\ current.priority = desired.priority
    /\ desired.proxied # "unset" =>
           ((current.proxied = "on") <=> (desired.proxied = "on"))
    /\ desired.comment # "" => current.comment = desired.comment

\* Variant: only an existing alias is in the way.
aliasInTheWay(current, desired) ==
    /\ current.type = "CNAME"
    /\ desired.type \in AddressTypes
    /\ canonicalName(current.name) = canonicalName(desired.name)

cloudflareAddressAliasRecordsConflict(current, desired) ==
    /\ current.type \in AddressTypes
    /\ desired.type \in AddressTypes
    /\ canonicalName(current.name) = canonicalName(desired.name)
    /\ desired.type = "CNAME" \/ current.type = "CNAME"

isWorkflowManagedMarker(r) ==
    /\ r.type = "TXT"
    /\ canonicalName(r.name) = <<"_workflow-dns-managed">> \o Domain
    /\ rawTXTData(r.type, r.data).value \in MarkerData

-----------------------------------------------------------------------------
(* Diff: the changes a plan shows for a listing, a set of records.         *)

Keys(desired) == {recordKey(desired[i]) : i \in DOMAIN desired}

Candidates(current, key) == {c \in current : recordKey(c) = key}

\* Which candidate is candidates[0]: recordOutputs sorts records of one key by
\* their priority (as text: the order of numbers as long as they have one digit)
\* and leaves the others in the order of the listing.
sortedFirst(current, desired) ==
    LET found == {k \in Keys(desired) : Candidates(current, k) # {}}
    IN  {f \in [found -> current] :
            \A k \in found :
                /\ f[k] \in Candidates(current, k)
                /\ \A c \in Candidates(current, k) : f[k].priority <= c.priority}

\* Variant: copies of a marker are no drift.
diffRecordsSparingMarkers(current, desired, manageUnlisted, first) ==
    LET records == {desired[i] : i \in DOMAIN desired}
        extra == {c \in current : manageUnlisted /\ recordKey(c) \notin Keys(desired)}
    IN  {<<"add", d>> : d \in {e \in records : recordKey(e) \notin DOMAIN first}}
        \cup {<<"change", d>> :
                  d \in {e \in records :
                            /\ recordKey(e) \in DOMAIN first
                            /\ ~recordMatches(first[recordKey(e)], e)}}
        \cup {<<"remove", c>> : c \in extra}

diffRecords(current, desired, manageUnlisted, first) ==
    LET records == {desired[i] : i \in DOMAIN desired}
        hasDesiredWorkflowMarker == \E d \in records : isWorkflowManagedMarker(d)
        firsts == {first[k] : k \in DOMAIN first}
        stale == {c \in current \ firsts :
                     hasDesiredWorkflowMarker /\ isWorkflowManagedMarker(c)}
        extra == {c \in current : manageUnlisted /\ recordKey(c) \notin Keys(desired)}
    IN  {<<"add", d>> : d \in {e \in records : recordKey(e) \notin DOMAIN first}}
        \cup {<<"change", d>> :
                  d \in {e \in records :
                            /\ recordKey(e) \in DOMAIN first
                            /\ ~recordMatches(first[recordKey(e)], e)}}
        \cup {<<"remove", c>> : c \in stale \cup extra}

-----------------------------------------------------------------------------
(* What a request carries: priority, proxied and comment only under the    *)
(* conditions of newRecordBody and editRecordBody, data in presentation    *)
(* form, which recordFromSDK undoes when the record is listed again.       *)

presentationTXTData(type, data) ==
    IF type = "TXT" THEN [data EXCEPT !.form = "quoted"] ELSE data

\* A record as the outputs of a resource show it, and back from there.
recordOutput(r) == [r EXCEPT !.data = presentationTXTData(r.type, @)]
\* Variant: proxied is not read back.
recordFromOutputUnproxied(m) ==
    [m EXCEPT !.data = rawTXTData(m.type, @), !.proxied = "off"]

recordFromOutput(m) == [m EXCEPT !.data = rawTXTData(m.type, @)]
recordsFromOutputs(outputs) == {recordFromOutput(m) : m \in outputs}

SendsPriority(desired) == desired.priority > 0 \/ desired.type = "MX"

listedData(desired) ==
    rawTXTData(desired.type, presentationTXTData(desired.type, desired.data))

\* The record a POST of newRecordBody leaves behind under a fresh id.
newRecordBody(id, desired) ==
    [type |-> desired.type, name |-> desired.name,
     data |-> listedData(desired), ttl |-> desired.ttl,
     priority |-> IF SendsPriority(desired) THEN desired.priority ELSE 0,
     proxied |-> IF desired.proxied # "unset" THEN desired.proxied ELSE "off",
     comment |-> desired.comment, id |-> id]

\* Variants: PATCH without ttl, without proxied, and with a nil proxied.
editRecordBodyNoTTL(old, desired) ==
    [old EXCEPT !.type = desired.type, !.name = desired.name,
                !.data = listedData(desired),
                !.proxied = IF desired.proxied # "unset"
                            THEN desired.proxied ELSE @]

editRecordBodyNoProxied(old, desired) ==
    [old EXCEPT !.type = desired.type, !.name = desired.name,
                !.data = listedData(desired), !.ttl = desired.ttl]

editRecordBodyUnset(old, desired) ==
    [old EXCEPT !.type = desired.type, !.name = desired.name, !.ttl = desired.ttl,
                !.data = listedData(desired), !.proxied = desired.proxied]

\* The record a PATCH of editRecordBody turns `old' into.
editRecordBody(old, desired) ==
    [type |-> desired.type, name |-> desired.name,
     data |-> listedData(desired), ttl |-> desired.ttl,
     priority |-> IF SendsPriority(desired) THEN desired.priority
                  ELSE old.priority,
     proxied |-> IF desired.proxied # "unset" THEN desired.proxied
                 ELSE old.proxied,
     comment |-> IF desired.comment # "" THEN desired.comment
                 ELSE old.comment,
     id |-> old.id]

=============================================================================
