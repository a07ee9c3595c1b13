--------------------------- MODULE DNSSpecProofs ---------------------------
(***************************************************************************)
(* Proofs about parseDNSSpec, for configs of any records and any length.   *)
(***************************************************************************)
EXTENDS DNSSpecCheck, DNSRecordProofs, SequenceTheorems, WellFoundedInduction

-----------------------------------------------------------------------------
(* Names *)

LEMMA EndsAppended ==
    ASSUME NEW S, NEW s \in Seq(S), NEW t \in Seq(S)
    PROVE  EndsIn(s \o t, t)
<1> DEFINE u == s \o t
           v == SubSeq(u, Len(u) - Len(t) + 1, Len(u))
<1>1. /\ u \in Seq(S) /\ Len(u) = Len(s) + Len(t)
      /\ Len(s) \in Nat /\ Len(t) \in Nat
      /\ \A i \in 1..Len(t) : u[Len(s) + i] = t[i]
  OBVIOUS
<1> HIDE DEF u
<1>2. v \in Seq(S) /\ Len(v) = Len(t)
  BY <1>1
<1>3. \A i \in 1..Len(t) : v[i] = t[i]
  BY <1>1
<1> HIDE DEF v
<1>4. v = t
  BY <1>2, <1>3, SeqEqual
<1> QED BY <1>1, <1>4 DEF EndsIn, u, v

LEMMA NormalName ==
    ASSUME NEW x \in Names
    PROVE  /\ normalizeRecordName(x) \in Names
           /\ LET l == canonicalName(x)
              IN  \/ l = Domain
                  \/ l = <<>>
                  \/ l # <<"@">> /\ EndsIn(l, Domain)
<1>1. x.labels \in Seq(STRING) /\ x.upper \in BOOLEAN /\ x.rooted \in BOOLEAN
  BY DEF Names
<1>2. CASE x.labels = <<"@">>
  BY <1>1, <1>2, DomainAssumption DEF normalizeRecordName, canonicalName, Names
<1>3. CASE x.labels # <<"@">> /\ (x.labels = <<>> \/ EndsIn(x.labels, Domain))
  <2>1. normalizeRecordName(x) = [x EXCEPT !.rooted = FALSE]
    BY <1>3 DEF normalizeRecordName
  <2> QED BY <1>1, <1>3, <2>1 DEF canonicalName, Names
<1>4. CASE x.labels # <<"@">> /\ x.labels # <<>> /\ ~EndsIn(x.labels, Domain)
  <2> DEFINE l == x.labels \o Domain
  <2>1. normalizeRecordName(x) = [x EXCEPT !.rooted = FALSE, !.labels = l]
    BY <1>1, <1>4 DEF normalizeRecordName, Names
  <2>2. EndsIn(l, Domain) /\ l \in Seq(STRING)
    BY <1>1, DomainAssumption, EndsAppended
  <2>3. l # <<"@">>
    <3>1. CASE Domain = <<>>
      BY <1>1, <1>4, <3>1
    <3>2. CASE Domain # <<>>
      <4>1. Len(l) = Len(x.labels) + Len(Domain)
        BY <1>1, DomainAssumption
      <4>2. Len(x.labels) \in Nat \ {0} /\ Len(Domain) \in Nat \ {0}
        BY <1>1, <1>4, <3>2, DomainAssumption, EmptySeq
      <4>3. ASSUME l = <<"@">> PROVE FALSE
        <5>1. Len(l) = 1
          BY <4>3
        <5> QED BY <4>1, <4>2, <5>1
      <4> QED BY <4>3
    <3> QED BY <3>1, <3>2
  <2> HIDE DEF l
  <2> QED BY <1>1, <2>1, <2>2, <2>3 DEF canonicalName, Names
<1> QED BY <1>2, <1>3, <1>4

\* A canonical name is its own canonical name, with capitals, a final dot or
\* neither (normalizeRecordName, canonicalName).
LEMMA CanonicalTwice ==
    ASSUME NEW x \in Names, NEW n \in Names, n.labels = canonicalName(x)
    PROVE  canonicalName(n) = canonicalName(x)
<1> DEFINE l == canonicalName(x)
<1>1. l = Domain \/ l = <<>> \/ (l # <<"@">> /\ EndsIn(l, Domain))
  BY NormalName
<1>2. EndsIn(Domain, Domain)
  BY DomainAssumption DEF EndsIn
<1> HIDE DEF l
<1>3. CASE n.labels = <<"@">>
  <2>1. Domain = <<"@">>
    BY <1>1, <1>3 DEF l
  <2> QED BY <1>3, <2>1 DEF canonicalName, normalizeRecordName
<1>4. CASE n.labels # <<"@">>
  <2>1. n.labels = <<>> \/ EndsIn(n.labels, Domain)
    BY <1>1, <1>2, <1>4 DEF l
  <2>2. normalizeRecordName(n) = [n EXCEPT !.rooted = FALSE]
    BY <1>4, <2>1 DEF normalizeRecordName
  <2>3. normalizeRecordName(n).labels = n.labels
    BY <2>2 DEF Names
  <2> QED BY <2>3 DEF canonicalName
<1> QED BY <1>3, <1>4

-----------------------------------------------------------------------------
(* Records of a config *)

\* What a well-formed record of a config is parsed to.
LEMMA RecordOfTyped ==
    ASSUME NEW m \in Writable, wellFormed(m)
    PROVE  recordOf(m) \in DesiredRecord
<1>1. /\ m.data \in Data
      /\ m.type = "TXT" => m.data.form \in {"plain", "quoted"}
      /\ Field(m, "name", Root) \in Names
      /\ Field(m, "ttl", 1) \in Int
      /\ Field(m, "priority", 0) \in Int
      /\ Field(m, "proxied", "unset") \in {"unset", "on", "off"}
      /\ Field(m, "comment", "") \in STRING
  BY WritableAssumption
<1>2. m.type \in RecordTypes
  BY DEF wellFormed
<1>3. normalizeRecordName(Field(m, "name", Root)) \in Names
  BY <1>1, NormalName
<1> DEFINE data == normalizeRecordData(m.type, rawTXTData(m.type, m.data))
<1>4. /\ rawTXTData(m.type, m.data) \in Data
      /\ m.type = "TXT" => rawTXTData(m.type, m.data).form = "plain"
  BY <1>1 DEF rawTXTData, Data
<1>5. data \in Data /\ (m.type = "TXT" => data.form = "plain")
  BY <1>4, DomainAssumption DEF normalizeRecordData, HostTypes, Data
<1> HIDE DEF data
<1> QED BY <1>1, <1>2, <1>3, <1>5 DEF recordOf, DesiredRecord, data

\* A record that another spelling of its name is written for.
LEMMA Respelled ==
    ASSUME NEW m \in Writable, wellFormed(m), NEW n \in Names,
           n.labels = canonicalName(recordOf(m).name),
           NEW w, w = [x \in DOMAIN m \cup {"name"} |-> IF x = "name" THEN n ELSE m[x]]
    PROVE  recordKey(recordOf(w)) = recordKey(recordOf(m))
<1> DEFINE name == Field(m, "name", Root)
<1>1. w.type = m.type /\ w.data = m.data /\ Field(w, "name", Root) = n
  BY DEF wellFormed, Field
<1>2. /\ recordOf(m).type = m.type
      /\ recordOf(m).name = normalizeRecordName(name)
      /\ recordOf(m).data = normalizeRecordData(m.type, rawTXTData(m.type, m.data))
  BY DEF recordOf
<1>3. /\ recordOf(w).type = m.type
      /\ recordOf(w).name = normalizeRecordName(n)
      /\ recordOf(w).data = recordOf(m).data
  BY <1>1, <1>2 DEF recordOf
<1>4. name \in Names
  BY WritableAssumption
<1> HIDE DEF name
<1>5. /\ normalizeRecordName(name) \in Names
      /\ normalizeRecordName(name).labels = canonicalName(name)
  BY <1>4, NormalName DEF canonicalName
<1>6. canonicalName(normalizeRecordName(name)) = canonicalName(name)
  BY <1>4, <1>5, CanonicalTwice
<1>7. canonicalName(n) = canonicalName(name)
  BY <1>2, <1>4, <1>6, CanonicalTwice
<1>8. /\ normalizeRecordName(n) \in Names
      /\ normalizeRecordName(n).labels = canonicalName(name)
  BY <1>7, NormalName DEF canonicalName
<1>9. canonicalName(normalizeRecordName(n)) = canonicalName(name)
  BY <1>4, <1>8, CanonicalTwice
<1> QED BY <1>2, <1>3, <1>6, <1>9 DEF recordKey

LEMMA AcceptedRecord ==
    ASSUME NEW m, recordFromConfig(m) # ParseError
    PROVE  wellFormed(m) /\ validateRecord(recordOf(m)) /\ recordFromConfig(m) = recordOf(m)
BY DEF recordFromConfig

WrittenOK == written \in Seq(Writable)

LEMMA WrittenTyped == Spec => []WrittenOK
<1>1. Init => WrittenOK
  BY DEF Init, WrittenOK
<1>2. WrittenOK /\ [Next]_written => WrittenOK'
  BY DEF Next, WrittenOK
<1> QED BY <1>1, <1>2, PTL DEF Spec

\* The spelling of a name makes no difference to the key of a record, for domains,
\* names and configs of any length (normalizeRecordName, canonicalName).
THEOREM SpellingsAgree == Spec => []SpellingIrrelevant
<1>1. WrittenOK => SpellingIrrelevant
  <2> SUFFICES ASSUME written \in Seq(Writable), NEW m \in Range(written),
                      recordFromConfig(m) # ParseError,
                      NEW u \in BOOLEAN, NEW d \in BOOLEAN
               PROVE  LET n == [labels |-> canonicalName(recordOf(m).name),
                                upper |-> u, rooted |-> d]
                      IN  recordKey(recordOf([x \in DOMAIN m \cup {"name"} |->
                              IF x = "name" THEN n ELSE m[x]])) = recordKey(recordOf(m))
    BY DEF SpellingIrrelevant, WrittenOK
  <2> DEFINE n == [labels |-> canonicalName(recordOf(m).name), upper |-> u, rooted |-> d]
  <2>1. m \in Writable
    BY DEF Range
  <2>2. wellFormed(m) /\ recordOf(m) \in DesiredRecord
    BY <2>1, AcceptedRecord, RecordOfTyped
  <2>3. canonicalName(recordOf(m).name) \in Seq(STRING)
    <3>1. recordOf(m).name \in Names
      BY <2>2 DEF DesiredRecord
    <3>2. normalizeRecordName(recordOf(m).name) \in Names
      BY <3>1, NormalName
    <3> QED BY <3>2 DEF canonicalName, Names
  <2>4. n \in Names /\ n.labels = canonicalName(recordOf(m).name)
    BY <2>3 DEF Names
  <2> HIDE DEF n
  <2>5. recordKey(recordOf([x \in DOMAIN m \cup {"name"} |->
            IF x = "name" THEN n ELSE m[x]])) = recordKey(recordOf(m))
    BY <2>1, <2>2, <2>4, Respelled
  <2> QED BY <2>5 DEF n
<1> QED BY <1>1, WrittenTyped, PTL

-----------------------------------------------------------------------------
(* Duplicates *)

\* A set with 0 and with the successor of each number in it has every number: a
\* nonempty set of numbers has a least member.
LEMMA CountingUp ==
    ASSUME NEW T, 0 \in T, \A n \in Nat : n \in T => n + 1 \in T
    PROVE  Nat \subseteq T
<1> SUFFICES ASSUME Nat \ T # {} PROVE FALSE
  OBVIOUS
<1> DEFINE R == OpToRel(<, Nat)
<1>1. IsWellFoundedOn(R, Nat)
  BY NatLessThanWellFounded
<1>2. \A j, k \in Nat : <<j, k>> \in R <=> j < k
  BY DEF OpToRel
<1> HIDE DEF R
<1>3. PICK n \in Nat \ T : \A k \in Nat \ T : <<k, n>> \notin R
  BY <1>1, WFMin
<1>4. n # 0 /\ n - 1 \in Nat /\ n - 1 < n /\ n = (n - 1) + 1
  BY <1>3
<1>5. n - 1 \in T
  BY <1>2, <1>3, <1>4
<1> QED BY <1>3, <1>4, <1>5

\* f is what the loop has kept after each of the first n records.
Deduping(f, s, n) ==
    f = [i \in 0..n |-> IF i = 0 THEN <<>> ELSE addDesiredRecord(f[i - 1], s[i])]

\* The loop's recursion has a solution.
LEMMA DedupingExists ==
    ASSUME NEW s
    PROVE  \A n \in Nat : \E f : Deduping(f, s, n)
<1> DEFINE T == {n \in Nat : \E f : Deduping(f, s, n)}
<1>1. 0 \in T
  <2>1. Deduping([i \in 0..0 |-> <<>>], s, 0)
    BY DEF Deduping
  <2> QED BY <2>1
<1>2. ASSUME NEW n \in Nat, n \in T PROVE n + 1 \in T
  <2>1. PICK f : Deduping(f, s, n)
    BY <1>2
  <2> DEFINE last == addDesiredRecord(f[n], s[n + 1])
             g == [i \in 0..(n + 1) |-> IF i <= n THEN f[i] ELSE last]
  <2>2. /\ g = [i \in 0..(n + 1) |-> g[i]]
        /\ \A i \in 0..n : g[i] = f[i]
        /\ g[n + 1] = last
    OBVIOUS
  <2>3. \A i \in 0..n : f[i] = IF i = 0 THEN <<>> ELSE addDesiredRecord(f[i - 1], s[i])
    BY <2>1 DEF Deduping
  <2> HIDE DEF g
  <2>4. ASSUME NEW i \in 0..(n + 1)
        PROVE  g[i] = IF i = 0 THEN <<>> ELSE addDesiredRecord(g[i - 1], s[i])
    <3>1. CASE i = 0
      BY <2>2, <2>3, <3>1
    <3>2. CASE i \in 1..n
      <4>1. i \in 0..n /\ i - 1 \in 0..n /\ i # 0
        BY <3>2
      <4> QED BY <2>2, <2>3, <4>1
    <3>3. CASE i = n + 1
      <4>1. n \in 0..n /\ n + 1 # 0 /\ (n + 1) - 1 = n
        OBVIOUS
      <4> QED BY <2>2, <3>3, <4>1
    <3> QED BY <3>1, <3>2, <3>3
  <2>5. Deduping(g, s, n + 1)
    BY <2>2, <2>4 DEF Deduping
  <2> QED BY <2>5
<1> HIDE DEF T
<1>3. Nat \subseteq T
  BY <1>1, <1>2, CountingUp
<1> QED BY <1>3 DEF T

\* dedupeDesiredRecords is the last value of that solution.
LEMMA DedupeKept ==
    ASSUME NEW S, NEW s \in Seq(S)
    PROVE  \E f : Deduping(f, s, Len(s)) /\ dedupeDesiredRecords(s) = f[Len(s)]
<1> DEFINE h == CHOOSE f : f = [i \in 0..Len(s) |->
                                   IF i = 0 THEN <<>> ELSE addDesiredRecord(f[i - 1], s[i])]
<1>1. Deduping(h, s, Len(s))
  <2>1. PICK g : Deduping(g, s, Len(s))
    BY DedupingExists, LenProperties
  <2>2. \E f : f = [i \in 0..Len(s) |->
                       IF i = 0 THEN <<>> ELSE addDesiredRecord(f[i - 1], s[i])]
    BY <2>1 DEF Deduping
  <2>3. h = [i \in 0..Len(s) |->
                IF i = 0 THEN <<>> ELSE addDesiredRecord(h[i - 1], s[i])]
    BY <2>2, Zenon
  <2> QED BY <2>3 DEF Deduping
<1>2. dedupeDesiredRecords(s) = h[Len(s)]
  BY DEF dedupeDesiredRecords
<1> QED BY <1>1, <1>2

\* What is kept of the first n records: records of them, one of each key.
Kept(out, s, n) ==
    out # ParseError =>
        /\ out \in Seq({s[i] : i \in 1..n})
        /\ UniqueKeys(out)
        /\ Keys(out) = {recordKey(s[i]) : i \in 1..n}

LEMMA KeptAll ==
    ASSUME NEW S, NEW s \in Seq(S), NEW f, Deduping(f, s, Len(s))
    PROVE  Kept(f[Len(s)], s, Len(s))
<1> DEFINE N == Len(s)
           T == {n \in Nat : n <= N => Kept(f[n], s, n)}
<1>0. /\ N \in Nat
      /\ \A i \in 0..N : f[i] = IF i = 0 THEN <<>> ELSE addDesiredRecord(f[i - 1], s[i])
  BY LenProperties DEF Deduping
<1> HIDE DEF N
<1>1. 0 \in T
  <2>1. f[0] = <<>>
    BY <1>0
  <2>2. /\ <<>> \in Seq({s[i] : i \in 1..0}) /\ DOMAIN <<>> = {}
        /\ 1..0 = {}
    OBVIOUS
  <2>3. UniqueKeys(<<>>) /\ Keys(<<>>) = {recordKey(s[i]) : i \in 1..0}
    BY <2>2 DEF UniqueKeys, Keys
  <2> QED BY <2>1, <2>2, <2>3 DEF Kept
<1>2. ASSUME NEW n \in Nat, n \in T PROVE n + 1 \in T
  <2> SUFFICES ASSUME n + 1 <= N, f[n + 1] # ParseError
               PROVE  Kept(f[n + 1], s, n + 1)
    BY DEF Kept
  <2> DEFINE out == f[n]
             r == s[n + 1]
             seen == {e \in Range(out) : recordKey(e) = recordKey(r)}
  <2>1. f[n + 1] = addDesiredRecord(out, r)
    <3>1. n + 1 \in 0..N /\ n + 1 # 0 /\ (n + 1) - 1 = n
      BY <1>0
    <3> QED BY <1>0, <3>1
  <2>2. /\ out # ParseError
        /\ \/ seen = {} /\ f[n + 1] = Append(out, r)
           \/ seen # {} /\ f[n + 1] = out
    BY <2>1 DEF addDesiredRecord
  <2>3. /\ out \in Seq({s[i] : i \in 1..n})
        /\ UniqueKeys(out)
        /\ Keys(out) = {recordKey(s[i]) : i \in 1..n}
    <3>1. n <= N
      BY <1>0
    <3> QED BY <1>2, <2>2, <3>1 DEF Kept
  <2>4. 1..(n + 1) = 1..n \cup {n + 1}
    OBVIOUS
  <2>5. {recordKey(s[i]) : i \in 1..(n + 1)} = Keys(out) \cup {recordKey(r)}
    BY <2>3, <2>4
  <2>6. {s[i] : i \in 1..n} \subseteq {s[i] : i \in 1..(n + 1)} /\ r \in {s[i] : i \in 1..(n + 1)}
    BY <2>4
  <2>7. out \in Seq({s[i] : i \in 1..(n + 1)})
    BY <2>3, <2>6, SeqMonotonic
  <2> HIDE DEF out, r
  <2>8. CASE seen = {} /\ f[n + 1] = Append(out, r)
    <3> DEFINE t == Append(out, r)
    <3>1. /\ t \in Seq({s[i] : i \in 1..(n + 1)})
          /\ DOMAIN t = DOMAIN out \cup {Len(out) + 1}
          /\ \A i \in DOMAIN out : t[i] = out[i]
          /\ t[Len(out) + 1] = r
      BY <2>6, <2>7
    <3>2. \A i \in DOMAIN out : recordKey(out[i]) # recordKey(r)
      BY <2>8 DEF Range
    <3> HIDE DEF t
    <3>3. UniqueKeys(t)
      BY <2>3, <3>1, <3>2 DEF UniqueKeys
    <3>4. Keys(t) = Keys(out) \cup {recordKey(r)}
      BY <3>1 DEF Keys
    <3> QED BY <2>5, <2>8, <3>1, <3>3, <3>4 DEF Kept, t
  <2>9. CASE seen # {} /\ f[n + 1] = out
    <3>1. recordKey(r) \in Keys(out)
      BY <2>9 DEF Range, Keys
    <3> QED BY <2>3, <2>5, <2>7, <2>9, <3>1 DEF Kept
  <2> QED BY <2>2, <2>8, <2>9
<1> HIDE DEF T
<1>3. Nat \subseteq T
  BY <1>1, <1>2, CountingUp
<1> QED BY <1>0, <1>3 DEF T, N

\* What a config that parseDNSSpec accepts is made of.
LEMMA ParsedRecords ==
    ASSUME NEW S, NEW s \in Seq(S), Parse(s) # ParseError
    PROVE  /\ \A i \in DOMAIN s : recordFromConfig(s[i]) # ParseError
           /\ LET records == [i \in DOMAIN s |-> recordOf(s[i])]
              IN  /\ dedupeDesiredRecords(records) # ParseError
                  /\ Parse(s) = [zoneId |-> 0, account |-> TRUE, manage |-> TRUE,
                                 records |-> dedupeDesiredRecords(records)]
<1> DEFINE config == ConfigOf(TRUE, s)
           parsed == [i \in DOMAIN s |-> recordFromConfig(s[i])]
           records == [i \in DOMAIN s |-> recordOf(s[i])]
<1>1. /\ config.records = s /\ config.zoneId = 0
      /\ config.account = TRUE /\ config.manage = TRUE
  BY DEF ConfigOf
<1>2. Parse(s) = parseDNSSpec(config)
  BY DEF Parse
<1> HIDE DEF config
<1>3. /\ ParseError \notin Range(parsed)
      /\ dedupeDesiredRecords(parsed) # ParseError
      /\ Parse(s) = [zoneId |-> 0, account |-> TRUE, manage |-> TRUE,
                     records |-> dedupeDesiredRecords(parsed)]
  BY <1>1, <1>2, Zenon DEF parseDNSSpec
<1>4. \A i \in DOMAIN s : recordFromConfig(s[i]) # ParseError
  BY <1>3 DEF Range
<1>5. \A i \in DOMAIN s : recordFromConfig(s[i]) = recordOf(s[i])
  BY <1>4, AcceptedRecord
<1>6. parsed = records
  BY <1>5
<1> QED BY <1>3, <1>4, <1>6

\* Dropping duplicates loses no declaration, for configs of any length: the
\* accepted records have different keys, those that were written
\* (dedupeDesiredRecords).
THEOREM DuplicatesKeepKeys == Spec => []DedupeKeepsKeys
<1>1. WrittenOK => DedupeKeepsKeys
  <2> SUFFICES ASSUME written \in Seq(Writable), Parse(written) # ParseError
               PROVE  /\ UniqueKeys(Parse(written).records)
                      /\ Keys(Parse(written).records) =
                             {recordKey(recordOf(m)) : m \in Range(written)}
    BY DEF DedupeKeepsKeys, WrittenOK
  <2> DEFINE records == [i \in DOMAIN written |-> recordOf(written[i])]
             out == dedupeDesiredRecords(records)
             S == {recordOf(m) : m \in Writable}
  <2>1. out # ParseError /\ Parse(written).records = out
    <3>1. /\ out # ParseError
          /\ Parse(written) = [zoneId |-> 0, account |-> TRUE, manage |-> TRUE,
                               records |-> out]
      BY ParsedRecords
    <3> QED BY <3>1
  <2>2. /\ records \in Seq(S) /\ Len(records) = Len(written)
        /\ DOMAIN written = 1..Len(written)
        /\ \A i \in 1..Len(written) : records[i] = recordOf(written[i])
    OBVIOUS
  <2> HIDE DEF out, records
  <2>3. PICK f : Deduping(f, records, Len(records)) /\ out = f[Len(records)]
    BY <2>2, DedupeKept DEF out
  <2>4. Kept(out, records, Len(records))
    BY <2>2, <2>3, KeptAll
  <2>5. UniqueKeys(out) /\ Keys(out) = {recordKey(records[i]) : i \in 1..Len(records)}
    BY <2>1, <2>4 DEF Kept
  <2>6. {recordKey(records[i]) : i \in 1..Len(records)} =
            {recordKey(recordOf(m)) : m \in Range(written)}
    BY <2>2 DEF Range
  <2> QED BY <2>1, <2>5, <2>6
<1> QED BY <1>1, WrittenTyped, PTL

\* What the driver assumes of a spec, its records typed and of different keys
\* (SpecsAssumption of DNSDriver), is what parseDNSSpec returns.
SpecsAreSound ==
    Parse(written) # ParseError =>
        Parse(written) \in ParsedSpec /\ UniqueKeys(Parse(written).records)

THEOREM ParsedSpecsAreSound == Spec => []SpecsAreSound
<1>1. WrittenOK /\ DedupeKeepsKeys => SpecsAreSound
  <2> SUFFICES ASSUME written \in Seq(Writable), Parse(written) # ParseError
               PROVE  Parse(written) \in ParsedSpec
    BY DEF SpecsAreSound, DedupeKeepsKeys, WrittenOK
  <2> DEFINE records == [i \in DOMAIN written |-> recordOf(written[i])]
             out == dedupeDesiredRecords(records)
  <2>1. /\ \A i \in DOMAIN written : recordFromConfig(written[i]) # ParseError
        /\ out # ParseError
        /\ Parse(written) = [zoneId |-> 0, account |-> TRUE, manage |-> TRUE,
                             records |-> out]
    BY ParsedRecords
  <2>2. \A i \in DOMAIN written : recordOf(written[i]) \in DesiredRecord
    BY <2>1, AcceptedRecord, RecordOfTyped
  <2>3. records \in Seq(DesiredRecord) /\ DOMAIN records = 1..Len(records)
    BY <2>2
  <2> HIDE DEF out, records
  <2>4. PICK f : Deduping(f, records, Len(records)) /\ out = f[Len(records)]
    BY <2>3, DedupeKept DEF out
  <2>5. out \in Seq({records[i] : i \in 1..Len(records)})
    BY <2>1, <2>3, <2>4, KeptAll DEF Kept
  <2>6. {records[i] : i \in 1..Len(records)} \subseteq DesiredRecord
    BY <2>3
  <2>7. out \in Seq(DesiredRecord)
    BY <2>5, <2>6, SeqMonotonic
  <2> QED BY <2>1, <2>7 DEF ParsedSpec
<1> QED BY <1>1, WrittenTyped, DuplicatesKeepKeys, PTL

-----------------------------------------------------------------------------
(* Imports *)

\* The canonical form of normalized data is that of the data.
LEMMA CanonicalDataTwice ==
    ASSUME NEW t \in RecordTypes, NEW x \in Data,
           t = "TXT" => x.form \in {"plain", "quoted"},
           NEW y, y = normalizeRecordData(t, rawTXTData(t, x))
    PROVE  /\ y \in Data
           /\ canonicalData(t, y) = canonicalData(t, x)
           /\ t \in {"A", "AAAA"} => y = x
           /\ t = "TXT" => y.form = "plain"
<1>1. CASE t = "TXT"
  <2>1. y = rawTXTData(t, x)
    BY <1>1 DEF normalizeRecordData, HostTypes
  <2>2. y \in Data /\ y.form = "plain"
    BY <1>1, <2>1 DEF rawTXTData, Data
  <2>3. rawTXTData(t, y) = y
    BY <2>2 DEF rawTXTData
  <2> QED BY <1>1, <2>1, <2>2, <2>3 DEF canonicalData, HostTypes
<1>2. CASE t \in HostTypes
  <2>1. t # "TXT" /\ t \notin {"A", "AAAA"}
    BY <1>2 DEF HostTypes
  <2>2. y = normalizeRecordData(t, x)
    BY <2>1 DEF rawTXTData
  <2>3. y \in Data
    BY <2>2, DomainAssumption DEF normalizeRecordData, Data
  <2>4. y.value = IF x.value = "@" THEN DomainData ELSE x.value
    BY <1>2, <2>2 DEF normalizeRecordData, Data
  <2>5. normalizeRecordData(t, y).value = IF y.value = "@" THEN DomainData ELSE y.value
    BY <1>2, <2>3 DEF normalizeRecordData, Data
  <2>6. normalizeRecordData(t, y).value = y.value
    BY <2>4, <2>5
  <2> QED BY <1>2, <2>1, <2>2, <2>3, <2>6 DEF canonicalData
<1>3. CASE t # "TXT" /\ t \notin HostTypes
  BY <1>3 DEF normalizeRecordData, rawTXTData, canonicalData
<1> QED BY <1>1, <1>2, <1>3

\* The outputs of a record, declared as they stand.
DeclaredAs(o) ==
    [ill |-> {}, type |-> o.type, name |-> o.name, data |-> o.data, ttl |-> o.ttl,
     priority |-> o.priority, proxied |-> o.proxied, comment |-> o.comment]

\* The declaration is accepted, and says what the record is.
LEMMA ImportedRecord ==
    ASSUME NEW w \in Writable, recordFromConfig(w) # ParseError, NEW i \in Nat \ {0},
           NEW r, r = newRecordBody(i, recordOf(w)),
           NEW m, m = DeclaredAs(recordOutput(r))
    PROVE  /\ m \in FullRecord
           /\ recordFromConfig(m) # ParseError
           /\ recordOf(m) \in DesiredRecord
           /\ recordKey(recordOf(m)) = recordKey(r)
           /\ recordOf(m).ttl = r.ttl /\ recordOf(m).priority = r.priority
           /\ recordOf(m).proxied = r.proxied /\ recordOf(m).comment = r.comment
<1> DEFINE d == recordOf(w)
           x == Field(w, "name", Root)
           sent == presentationTXTData(r.type, r.data)
           data == normalizeRecordData(r.type, rawTXTData(r.type, sent))
<1>1. wellFormed(w) /\ validateRecord(d) /\ d \in DesiredRecord
  BY AcceptedRecord, RecordOfTyped
<1>2. r \in LiveRecord /\ r.id = i /\ recordKey(r) = recordKey(d)
  BY <1>1, NewRecord
<1>3. x \in Names /\ d.name = normalizeRecordName(x)
  BY <1>1, WritableAssumption DEF recordOf
<1>4. /\ d.type \in RecordTypes /\ d.ttl \in Int /\ d.priority \in Int
      /\ d.data \in Data /\ d.comment \in STRING
  BY <1>1 DEF DesiredRecord
<1>5. /\ r.type = d.type /\ r.name = d.name /\ r.ttl = d.ttl
      /\ r.data = listedData(d)
      /\ r.priority = IF SendsPriority(d) THEN d.priority ELSE 0
  BY DEF newRecordBody
<1> HIDE DEF d, x
<1>6. /\ r.type \in RecordTypes /\ r.name \in Names /\ r.data \in Data
      /\ r.ttl \in Int /\ r.priority \in Int /\ r.proxied \in {"on", "off"}
      /\ r.comment \in STRING
      /\ r.type = "TXT" => r.data.form \in {"plain", "quoted"}
  BY <1>2 DEF LiveRecord
<1>7. recordOutput(r) = [r EXCEPT !.data = sent]
  BY <1>2 DEF recordOutput, LiveRecord
<1>8. /\ m.ill = {} /\ DOMAIN m = {"ill", "type", "name", "data", "ttl",
                                   "priority", "proxied", "comment"}
      /\ m.type = r.type /\ m.name = r.name /\ m.ttl = r.ttl
      /\ m.priority = r.priority /\ m.proxied = r.proxied
      /\ m.comment = r.comment /\ m.data = sent
      /\ m = [ill |-> {}, type |-> r.type, name |-> r.name, data |-> sent,
              ttl |-> r.ttl, priority |-> r.priority, proxied |-> r.proxied,
              comment |-> r.comment]
  BY <1>2, <1>7 DEF DeclaredAs, LiveRecord
<1>9. /\ sent \in Data /\ (r.type = "TXT" => sent.form = "quoted")
      /\ r.type # "TXT" => sent = r.data
      /\ canonicalData(r.type, sent) = canonicalData(r.type, r.data)
  <2>1. CASE r.type = "TXT"
    <3>1. sent = [r.data EXCEPT !.form = "quoted"]
      BY <2>1 DEF presentationTXTData
    <3>2. sent \in Data /\ sent.form = "quoted"
      BY <1>6, <3>1 DEF Data
    <3>3. r.data.form = "plain"
      BY <1>1, <1>5, <2>1, ListedData
    <3>4. rawTXTData(r.type, sent) = r.data /\ rawTXTData(r.type, r.data) = r.data
      BY <1>6, <2>1, <3>1, <3>2, <3>3 DEF rawTXTData, Data
    <3> QED BY <2>1, <3>2, <3>4 DEF canonicalData, HostTypes
  <2>2. CASE r.type # "TXT"
    BY <1>6, <2>2 DEF presentationTXTData
  <2> QED BY <2>1, <2>2
<1> HIDE DEF sent
<1>10. m \in FullRecord
  BY <1>6, <1>8, <1>9 DEF FullRecord
<1>11. recordOf(m) = [type |-> r.type, name |-> normalizeRecordName(r.name),
                      data |-> data, ttl |-> r.ttl, priority |-> r.priority,
                      proxied |-> r.proxied, comment |-> r.comment]
  <2>1. /\ Field(m, "name", Root) = r.name /\ Field(m, "ttl", 1) = r.ttl
        /\ Field(m, "priority", 0) = r.priority
        /\ Field(m, "proxied", "unset") = r.proxied
        /\ Field(m, "comment", "") = r.comment
    BY <1>8 DEF Field
  <2>2. m.type = r.type /\ m.data = sent
    BY <1>8
  <2> QED BY <2>1, <2>2 DEF recordOf
<1>12. /\ data \in Data /\ (r.type = "TXT" => data.form = "plain")
       /\ canonicalData(r.type, data) = canonicalData(r.type, r.data)
       /\ r.type \in {"A", "AAAA"} => data = r.data
  <2>1. r.type = "TXT" => sent.form \in {"plain", "quoted"}
    BY <1>9
  <2>2. /\ data \in Data /\ (r.type = "TXT" => data.form = "plain")
        /\ canonicalData(r.type, data) = canonicalData(r.type, sent)
        /\ r.type \in {"A", "AAAA"} => data = sent
    BY <1>6, <1>9, <2>1, CanonicalDataTwice
  <2> QED BY <1>9, <2>2
<1> HIDE DEF data
<1>13. /\ normalizeRecordName(r.name) \in Names
       /\ normalizeRecordName(r.name).labels = canonicalName(r.name)
       /\ canonicalName(normalizeRecordName(r.name)) = canonicalName(r.name)
  <2>1. /\ normalizeRecordName(r.name) \in Names
        /\ normalizeRecordName(r.name).labels = canonicalName(r.name)
    BY <1>6, NormalName DEF canonicalName
  <2> QED BY <1>6, <2>1, CanonicalTwice
<1>14. canonicalName(r.name) = r.name.labels
  <2>1. r.name.labels = canonicalName(x)
    BY <1>3, <1>5 DEF canonicalName
  <2> QED BY <1>3, <1>6, <2>1, CanonicalTwice
<1>15. recordOf(m) \in DesiredRecord
  BY <1>6, <1>11, <1>12, <1>13 DEF DesiredRecord
<1>16. recordKey(recordOf(m)) = recordKey(r)
  BY <1>11, <1>12, <1>13 DEF recordKey
<1>17. validateRecord(recordOf(m))
  <2>1. /\ d.name.labels # <<>> /\ (d.ttl = 1 \/ (60 <= d.ttl /\ d.ttl <= 86400))
        /\ d.type = "A" => d.data.value \in IPv4
        /\ d.type = "AAAA" => d.data.value \in IPv6
        /\ d.type = "MX" => d.priority >= 0
    BY <1>1 DEF validateRecord
  <2>2. d.type \in {"A", "AAAA"} => r.data = d.data
    BY <1>5 DEF listedData, rawTXTData, presentationTXTData
  <2>3. d.type = "MX" => r.priority = d.priority
    BY <1>5 DEF SendsPriority
  <2>4. /\ recordOf(m).name.labels = d.name.labels
        /\ recordOf(m).ttl = d.ttl /\ recordOf(m).type = d.type
        /\ recordOf(m).data = data /\ recordOf(m).priority = r.priority
    BY <1>5, <1>11, <1>13, <1>14
  <2> QED BY <1>5, <1>12, <2>1, <2>2, <2>3, <2>4 DEF validateRecord
<1>18. wellFormed(m)
  BY <1>6, <1>8 DEF wellFormed
<1>19. recordFromConfig(m) # ParseError
  BY <1>15, <1>17, <1>18, ErrorAssumption DEF recordFromConfig
<1> QED BY <1>10, <1>11, <1>15, <1>16, <1>19

\* Records of different keys are all kept, in their order.
LEMMA AllKept ==
    ASSUME NEW S, NEW s \in Seq(S), ParseError \notin Seq(S), UniqueKeys(s)
    PROVE  dedupeDesiredRecords(s) = s
<1> DEFINE N == Len(s)
<1>1. PICK f : Deduping(f, s, N) /\ dedupeDesiredRecords(s) = f[N]
  BY DedupeKept
<1>2. /\ N \in Nat /\ DOMAIN s = 1..N
      /\ \A i \in 0..N : f[i] = IF i = 0 THEN <<>> ELSE addDesiredRecord(f[i - 1], s[i])
  BY <1>1, LenProperties DEF Deduping
<1>3. \A i, j \in 1..N : recordKey(s[i]) = recordKey(s[j]) => i = j
  BY <1>2 DEF UniqueKeys
<1> HIDE DEF N
<1> DEFINE Upto(n) == /\ f[n] \in Seq(S) /\ Len(f[n]) = n
                      /\ \A i \in 1..n : f[n][i] = s[i]
           T == {n \in Nat : n <= N => Upto(n)}
<1>4. 0 \in T
  <2>1. f[0] = <<>>
    BY <1>2
  <2>2. <<>> \in Seq(S) /\ Len(<<>>) = 0 /\ 1..0 = {}
    OBVIOUS
  <2>3. Upto(0)
    BY <2>1, <2>2
  <2> QED BY <2>3
<1>5. ASSUME NEW n \in Nat, n \in T PROVE n + 1 \in T
  <2> SUFFICES ASSUME n + 1 <= N PROVE Upto(n + 1)
    OBVIOUS
  <2>1. n <= N /\ n + 1 \in 1..N /\ n + 1 \in 0..N /\ n + 1 # 0 /\ (n + 1) - 1 = n
    BY <1>2
  <2>2. /\ f[n] \in Seq(S) /\ Len(f[n]) = n
        /\ \A i \in 1..n : f[n][i] = s[i]
    BY <1>5, <2>1
  <2>3. f[n + 1] = addDesiredRecord(f[n], s[n + 1])
    BY <1>2, <2>1
  <2>4. {e \in Range(f[n]) : recordKey(e) = recordKey(s[n + 1])} = {}
    <3> SUFFICES ASSUME NEW i \in 1..n, recordKey(f[n][i]) = recordKey(s[n + 1])
                 PROVE  FALSE
      BY <2>2 DEF Range
    <3>1. i \in 1..N /\ i # n + 1
      BY <1>2, <2>1
    <3> QED BY <1>3, <2>1, <2>2, <3>1
  <2>5. f[n] # ParseError
    BY <2>2
  <2>6. f[n + 1] = Append(f[n], s[n + 1])
    BY <2>3, <2>4, <2>5 DEF addDesiredRecord
  <2>7. s[n + 1] \in S
    BY <1>2, <2>1
  <2> QED BY <2>2, <2>6, <2>7
<1> HIDE DEF T
<1>6. Nat \subseteq T
  BY <1>4, <1>5, CountingUp
<1>7. Upto(N)
  BY <1>2, <1>6 DEF T
<1>8. f[N] = s
  BY <1>2, <1>7, SeqEqual DEF N
<1> QED BY <1>1, <1>8

\* A config of accepted records of different keys is accepted.
LEMMA AllParsed ==
    ASSUME NEW s \in Seq(FullRecord),
           \A i \in DOMAIN s : /\ recordFromConfig(s[i]) # ParseError
                               /\ recordOf(s[i]) \in DesiredRecord,
           NEW records, records = [i \in DOMAIN s |-> recordOf(s[i])],
           UniqueKeys(records)
    PROVE  /\ records \in Seq(DesiredRecord)
           /\ Parse(s) # ParseError
           /\ Parse(s).records = records
<1> DEFINE config == ConfigOf(TRUE, s)
           parsed == [i \in DOMAIN config.records |-> recordFromConfig(config.records[i])]
<1>1. /\ config.records = s /\ config.zoneId = 0 /\ config.domainOk
      /\ config.account = TRUE /\ config.manage = TRUE
  BY DEF ConfigOf
<1>2. s # NoList
  BY ErrorAssumption
<1>3. \A i \in DOMAIN s : recordFromConfig(s[i]) = recordOf(s[i])
  BY AcceptedRecord
<1>4. parsed = records
  BY <1>1, <1>3
<1>5. records \in Seq(DesiredRecord)
  OBVIOUS
<1>6. dedupeDesiredRecords(records) = records
  BY <1>5, AllKept, ErrorAssumption
<1>7. ParseError \notin Range(records)
  BY <1>5, ErrorAssumption DEF Range
<1>8. records # ParseError
  BY <1>5, ErrorAssumption
<1> HIDE DEF config, parsed
<1>9. Parse(s) = [zoneId |-> 0, account |-> TRUE, manage |-> TRUE, records |-> records]
  <2>1. Parse(s) = parseDNSSpec(config)
    BY DEF Parse, config
  <2>2. config.records # NoList
    BY <1>1, <1>2
  <2> QED BY <1>1, <1>4, <1>6, <1>7, <1>8, <2>1, <2>2, Zenon DEF parseDNSSpec, parsed
<1>10. Parse(s) \in ParsedSpec
  BY <1>5, <1>9 DEF ParsedSpec
<1>11. Parse(s).records = records
  BY <1>9
<1>12. Parse(s) # ParseError
  BY <1>10, ErrorAssumption
<1> QED BY <1>5, <1>11, <1>12

\* The record that the i-th entry of the config leaves in the zone.
Made(i) == newRecordBody(i, recordOf(written[i]))

\* What the outputs declare, record by record.
LEMMA Declared ==
    ASSUME WrittenOK, \A m \in Range(written) : recordFromConfig(m) # ParseError,
           NEW outputs, outputs = {recordOutput(r) : r \in Zone},
           NEW i \in DOMAIN written,
           NEW o, o = CHOOSE x \in outputs : x.id = i
    PROVE  o = recordOutput(Made(i))
<1>1. \A j \in DOMAIN written : j \in Nat \ {0} /\ written[j] \in Writable
  BY DEF WrittenOK
<1>2. \A j \in DOMAIN written : Made(j) \in LiveRecord /\ Made(j).id = j
  <2> SUFFICES ASSUME NEW j \in DOMAIN written
               PROVE  Made(j) \in LiveRecord /\ Made(j).id = j
    OBVIOUS
  <2>1. recordFromConfig(written[j]) # ParseError
    BY DEF Range
  <2>2. recordOf(written[j]) \in DesiredRecord
    BY <1>1, <2>1, AcceptedRecord, RecordOfTyped
  <2> QED BY <1>1, <2>2, NewRecord DEF Made
<1>3. \A j \in DOMAIN written : recordOutput(Made(j)).id = j
  BY <1>2 DEF recordOutput, LiveRecord
<1>4. \A x \in outputs : \E j \in DOMAIN written : x = recordOutput(Made(j))
  BY DEF Zone, Made
<1>5. recordOutput(Made(i)) \in outputs
  BY DEF Zone, Made
<1>6. \A x \in outputs : x.id = i => x = recordOutput(Made(i))
  BY <1>3, <1>4
<1>7. o \in outputs /\ o.id = i
  BY <1>3, <1>5
<1> QED BY <1>6, <1>7

\* The same as one function.
LEMMA DeclaredAll ==
    ASSUME WrittenOK, \A m \in Range(written) : recordFromConfig(m) # ParseError,
           NEW outputs, outputs = {recordOutput(r) : r \in Zone}
    PROVE  [i \in DOMAIN written |->
                LET o == CHOOSE x \in outputs : x.id = i
                IN  [ill |-> {}, type |-> o.type, name |-> o.name,
                     data |-> o.data, ttl |-> o.ttl, priority |-> o.priority,
                     proxied |-> o.proxied, comment |-> o.comment]]
           = [i \in DOMAIN written |-> DeclaredAs(recordOutput(Made(i)))]
<1>1. \A i \in DOMAIN written :
          (CHOOSE x \in outputs : x.id = i) = recordOutput(Made(i))
  BY Declared
<1> QED BY <1>1 DEF DeclaredAs

\* An imported resource has no drift, whatever its zone holds, as long as the
\* keys of its records differ (recordOutput, recordsFromOutputs, parseDNSSpec,
\* diffRecords).
THEOREM ImportsHaveNoDrift == Spec => []ImportHasNoDrift
<1>1. WrittenOK => ImportHasNoDrift
  <2> DEFINE outputs == {recordOutput(r) : r \in Zone}
             listed == recordsFromOutputs(outputs)
             declared == [i \in DOMAIN written |-> DeclaredAs(recordOutput(Made(i)))]
  <2> SUFFICES ASSUME WrittenOK,
                      \A m \in Range(written) : recordFromConfig(m) # ParseError,
                      \A r, s \in Zone : recordKey(r) = recordKey(s) => r = s
               PROVE  /\ Parse(declared) # ParseError
                      /\ \A first \in sortedFirst(listed, Parse(declared).records) :
                            diffRecords(listed, Parse(declared).records, TRUE, first) = {}
    BY DeclaredAll DEF ImportHasNoDrift
  <2> DEFINE records == [i \in DOMAIN declared |-> recordOf(declared[i])]
             back(i) == recordFromOutput(recordOutput(Made(i)))
  <2>1. /\ DOMAIN written = 1..Len(written) /\ Len(written) \in Nat
        /\ \A i \in DOMAIN written : i \in Nat \ {0} /\ written[i] \in Writable
    BY DEF WrittenOK
  <2>2. \A i \in DOMAIN written : recordFromConfig(written[i]) # ParseError
    BY DEF Range
  <2>3. \A i \in DOMAIN written : declared[i] = DeclaredAs(recordOutput(Made(i)))
    OBVIOUS
  <2>4. \A i \in DOMAIN written :
            /\ declared[i] \in FullRecord
            /\ recordFromConfig(declared[i]) # ParseError
            /\ recordOf(declared[i]) \in DesiredRecord
            /\ recordKey(recordOf(declared[i])) = recordKey(Made(i))
            /\ recordOf(declared[i]).ttl = Made(i).ttl
            /\ recordOf(declared[i]).priority = Made(i).priority
            /\ recordOf(declared[i]).proxied = Made(i).proxied
            /\ recordOf(declared[i]).comment = Made(i).comment
    BY <2>1, <2>2, <2>3, ImportedRecord DEF Made
  <2>5. \A i \in DOMAIN written :
            /\ Made(i) \in LiveRecord /\ Made(i).id = i /\ Made(i) \in Zone
    <3> SUFFICES ASSUME NEW i \in DOMAIN written
                 PROVE  Made(i) \in LiveRecord /\ Made(i).id = i /\ Made(i) \in Zone
      OBVIOUS
    <3>1. recordOf(written[i]) \in DesiredRecord
      BY <2>1, <2>2, AcceptedRecord, RecordOfTyped
    <3> QED BY <2>1, <3>1, NewRecord DEF Made, Zone
  <2>6. \A i \in DOMAIN written :
            /\ recordKey(back(i)) = recordKey(Made(i))
            /\ back(i).ttl = Made(i).ttl /\ back(i).priority = Made(i).priority
            /\ back(i).proxied = Made(i).proxied /\ back(i).comment = Made(i).comment
    BY <2>5, OutputReadBack
  <2>7. listed = {back(i) : i \in DOMAIN written}
    BY DEF recordsFromOutputs, Zone, Made
  <2>8. declared \in Seq(FullRecord) /\ DOMAIN declared = DOMAIN written
    BY <2>1, <2>4
  <2>9. /\ DOMAIN records = DOMAIN written
        /\ \A i \in DOMAIN written : records[i] = recordOf(declared[i])
    OBVIOUS
  <2> HIDE DEF declared, listed, back
  <2>10. \A i, j \in DOMAIN written : recordKey(Made(i)) = recordKey(Made(j)) => i = j
    BY <2>5
  <2>11. UniqueKeys(records)
    BY <2>4, <2>9, <2>10 DEF UniqueKeys
  <2>12. Parse(declared) # ParseError /\ Parse(declared).records = records
    BY <2>4, <2>8, <2>11, AllParsed
  <2> HIDE DEF records
  <2> SUFFICES ASSUME NEW first \in sortedFirst(listed, records)
               PROVE  diffRecords(listed, records, TRUE, first) = {}
    BY <2>12
  <2>13. \A i \in DOMAIN written : recordMatches(back(i), records[i])
    BY <2>4, <2>6, <2>9 DEF recordMatches
  <2>14. \A i \in DOMAIN records :
            \E c \in listed :
                /\ recordMatches(c, records[i])
                /\ \A o \in listed : recordKey(o) = recordKey(records[i]) => o = c
    BY <2>4, <2>6, <2>7, <2>9, <2>10, <2>13
  <2>15. \A c \in listed : recordKey(c) \in Keys(records)
    BY <2>4, <2>6, <2>7, <2>9 DEF Keys
  <2> QED BY <2>14, <2>15, NothingToDo
<1> QED BY <1>1, WrittenTyped, PTL

=============================================================================
