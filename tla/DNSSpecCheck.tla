---------------------------- MODULE DNSSpecCheck ----------------------------
(***************************************************************************)
(* parseDNSSpec over every list of records somebody may write.             *)
(***************************************************************************)
EXTENDS DNSSpec

CONSTANTS Writable,  \* the records of a config
          MaxWritten \* the longest config

\* A field that is not in "ill" has a value of its Go type.
ASSUME WritableAssumption ==
    \A m \in Writable : wellFormed(m) =>
        /\ m.data \in Data
        /\ m.type = "TXT" => m.data.form \in {"plain", "quoted"}
        /\ Field(m, "name", Root) \in Names
        /\ Field(m, "ttl", 1) \in Int
        /\ Field(m, "priority", 0) \in Int
        /\ Field(m, "proxied", "unset") \in {"unset", "on", "off"}
        /\ Field(m, "comment", "") \in STRING

VARIABLE written \* config.records

Init == written = <<>>

Next == /\ Len(written) < MaxWritten
        /\ \E m \in Writable : written' = Append(written, m)

Spec == Init /\ [][Next]_written

ConfigOf(manage, records) ==
    [domainOk |-> TRUE, zoneId |-> 0, account |-> TRUE, manage |-> manage,
     records |-> records]

Parse(records) == parseDNSSpec(ConfigOf(TRUE, records))

-----------------------------------------------------------------------------

\* Dropping duplicates loses no declaration: an accepted config yields one
\* record for every key it names, and no other (dedupeDesiredRecords).
DedupeKeepsKeys ==
    Parse(written) # ParseError =>
        /\ UniqueKeys(Parse(written).records)
        /\ Keys(Parse(written).records) = {recordKey(recordOf(m)) : m \in Range(written)}

\* However a name is spelled, relative or absolute, with capitals or a final
\* dot, the record has the same key (normalizeRecordName, canonicalName).
SpellingIrrelevant ==
    \A m \in Range(written) : recordFromConfig(m) # ParseError =>
        LET r == recordOf(m)
        IN  \A u, d \in BOOLEAN :
               LET n == [labels |-> canonicalName(r.name), upper |-> u, rooted |-> d]
               IN  recordKey(recordOf([x \in DOMAIN m \cup {"name"} |->
                        IF x = "name" THEN n ELSE m[x]])) = recordKey(r)

\* The records a zone holds after a config was created in it.
Zone == {newRecordBody(i, recordOf(written[i])) : i \in DOMAIN written}

\* A resource that is imported, its outputs declared as they stand, shows no
\* drift and its config is accepted, as long as the zone has no two records of
\* one key (recordOutput, recordsFromOutputs, parseDNSSpec, diffRecords).
ImportHasNoDrift ==
    LET outputs  == {recordOutput(r) : r \in Zone}
        declared == [i \in DOMAIN written |->
                        LET o == CHOOSE x \in outputs : x.id = i
                        IN  [ill |-> {}, type |-> o.type, name |-> o.name,
                             data |-> o.data, ttl |-> o.ttl,
                             priority |-> o.priority, proxied |-> o.proxied,
                             comment |-> o.comment]]
        listed   == recordsFromOutputs(outputs)
        parsed   == Parse(declared)
    IN  /\ \A m \in Range(written) : recordFromConfig(m) # ParseError
        /\ \A r, s \in Zone : recordKey(r) = recordKey(s) => r = s
        => /\ parsed # ParseError
           /\ \A first \in sortedFirst(listed, parsed.records) :
                 diffRecords(listed, parsed.records, TRUE, first) = {}

\* A record the zone may hold.
Conceivable == {newRecordBody(1, recordOf(m)) :
                   m \in {w \in Writable : recordFromConfig(w) # ParseError}}

\* What the driver settles for is what was written: a record that satisfies the
\* spec satisfies every record of the config it was made from.
DuplicatesAgree ==
    Parse(written) # ParseError =>
        \A r \in Conceivable, d \in Range(Parse(written).records), m \in Range(written) :
            recordMatches(r, d) /\ recordKey(recordOf(m)) = recordKey(d)
                => recordMatches(r, recordOf(m))

=============================================================================
