------------------------------ MODULE DNSSpec ------------------------------
(***************************************************************************)
(* parseDNSSpec of internal/drivers/dns.go: from the config of a resource  *)
(* to the spec the driver applies.                                         *)
(*                                                                         *)
(* A record of the config is a function from the field names it sets to    *)
(* their values, together with the set "ill" of the fields whose value has *)
(* the wrong Go type.  A config is [domainOk, zoneId, account, manage,     *)
(* records], where account says whether an account id is known and records *)
(* is a sequence, or NoList when the config has none.                      *)
(***************************************************************************)
EXTENDS DNSRecord, SequencesExt

CONSTANTS IPv4, IPv6, \* the data values that are such addresses
          NoList,     \* config.records is absent or not a list
          ParseError

\* A dnsSpec, and a record of a config that sets every field.
ParsedSpec == [zoneId : Nat, account : BOOLEAN, manage : BOOLEAN,
               records : Seq(DesiredRecord)]

FullRecord == [ill : {{}}, type : RecordTypes, name : Names, data : Data,
               ttl : Int, priority : Int, proxied : {"on", "off"},
               comment : STRING]

\* The two are values apart.
ASSUME ErrorAssumption ==
    /\ ParseError \notin DesiredRecord
    /\ ParseError \notin Seq(DesiredRecord)
    /\ ParseError \notin ParsedSpec
    /\ NoList \notin Seq(FullRecord)

Field(m, f, default) == IF f \in DOMAIN m THEN m[f] ELSE default

\* Only type and data are required; every field must have its Go type.
wellFormed(m) ==
    /\ m.ill = {}
    /\ {"type", "data"} \subseteq DOMAIN m
    /\ m.type \in RecordTypes

Root == [labels |-> <<"@">>, upper |-> FALSE, rooted |-> FALSE]

recordOf(m) ==
    LET data == rawTXTData(m.type, m.data)
    IN  [type |-> m.type,
         name |-> normalizeRecordName(Field(m, "name", Root)),
         data |-> normalizeRecordData(m.type, data),
         ttl |-> Field(m, "ttl", 1),
         priority |-> Field(m, "priority", 0),
         proxied |-> Field(m, "proxied", "unset"),
         comment |-> Field(m, "comment", "")]

validateRecord(r) ==
    /\ r.name.labels # <<>>
    /\ r.ttl = 1 \/ (60 <= r.ttl /\ r.ttl <= 86400)
    /\ r.type = "A" => r.data.value \in IPv4
    /\ r.type = "AAAA" => r.data.value \in IPv6
    /\ r.type = "MX" => r.priority >= 0

recordFromConfig(m) ==
    IF wellFormed(m) /\ validateRecord(recordOf(m)) THEN recordOf(m) ELSE ParseError

\* Variant: only equal records are duplicates.
dedupeEqualRecords(records) ==
    LET add(out, r) == IF r \in Range(out) THEN out ELSE Append(out, r)
    IN  FoldLeft(add, <<>>, records)

\* The first record of each key is kept; a later one must match it.
addDesiredRecord(out, r) ==
    LET seen == {e \in Range(out) : recordKey(e) = recordKey(r)}
    IN  IF out = ParseError THEN ParseError
        ELSE IF seen = {} THEN Append(out, r)
        ELSE IF \A e \in seen : recordMatches(e, r) THEN out
        ELSE ParseError

dedupeDesiredRecords(records) ==
    LET out[n \in 0..Len(records)] ==
            IF n = 0 THEN <<>> ELSE addDesiredRecord(out[n - 1], records[n])
    IN  out[Len(records)]

parseDNSSpec(config) ==
    LET records == [i \in DOMAIN config.records |->
                        recordFromConfig(config.records[i])]
        deduped == dedupeDesiredRecords(records)
    IN  IF \/ ~config.domainOk
           \/ config.records = NoList
           \/ ParseError \in Range(records)
           \/ deduped = ParseError
        THEN ParseError
        ELSE [zoneId |-> config.zoneId, account |-> config.account,
              manage |-> config.manage, records |-> deduped]

=============================================================================
