-------------------------- MODULE DNSRecordProofs --------------------------
(***************************************************************************)
(* Facts about records: what requests, listings and outputs make of them,  *)
(* and when the diff of a listing is empty.                                *)
(***************************************************************************)
EXTENDS DNSRecord, TLAPS

-----------------------------------------------------------------------------
(* What requests make of records *)

\* Data that is sent and listed again is of the same kind and has the same
\* canonical form (presentationTXTData, rawTXTData).
LEMMA ListedData ==
    ASSUME NEW d \in DesiredRecord
    PROVE  /\ listedData(d) \in Data
           /\ canonicalData(d.type, listedData(d)) = canonicalData(d.type, d.data)
           /\ d.type = "TXT" => listedData(d).form = "plain"
<1>1. d.data \in Data /\ (d.type = "TXT" => d.data.form \in {"plain", "quoted"})
  BY DEF DesiredRecord
<1>2. CASE d.type = "TXT"
  <2>1. listedData(d) = [d.data EXCEPT !.form = "plain"]
    BY <1>1, <1>2 DEF listedData, presentationTXTData, rawTXTData, Data
  <2>2. listedData(d) \in Data /\ listedData(d).form = "plain"
    BY <1>1, <2>1 DEF Data
  <2>3. d.data.form = "plain" => d.data = listedData(d)
    BY <1>1, <2>1 DEF Data
  <2>4. rawTXTData(d.type, d.data) = listedData(d)
    BY <1>1, <1>2, <2>1, <2>3 DEF rawTXTData
  <2>5. rawTXTData(d.type, listedData(d)) = listedData(d)
    BY <2>2 DEF rawTXTData
  <2> QED BY <1>2, <2>2, <2>4, <2>5 DEF canonicalData, HostTypes
<1>3. CASE d.type # "TXT"
  BY <1>1, <1>3 DEF listedData, presentationTXTData, rawTXTData
<1> QED BY <1>2, <1>3

\* A record that is created is a record under the new id, with the key of the
\* desired one (newRecordBody).
LEMMA NewRecord ==
    ASSUME NEW d \in DesiredRecord, NEW id \in Nat \ {0}
    PROVE  /\ newRecordBody(id, d) \in LiveRecord
           /\ newRecordBody(id, d).id = id
           /\ recordKey(newRecordBody(id, d)) = recordKey(d)
<1>1. /\ d.type \in RecordTypes /\ d.name \in Names /\ d.ttl \in Int
      /\ d.priority \in Int /\ d.proxied \in {"unset", "on", "off"}
      /\ d.comment \in STRING
  BY DEF DesiredRecord
<1> QED BY <1>1, ListedData DEF newRecordBody, LiveRecord, recordKey

\* A record that is edited keeps its id and gets the key of the desired one
\* (editRecordBody).
LEMMA EditedRecord ==
    ASSUME NEW d \in DesiredRecord, NEW old \in LiveRecord
    PROVE  /\ editRecordBody(old, d) \in LiveRecord
           /\ editRecordBody(old, d).id = old.id
           /\ recordKey(editRecordBody(old, d)) = recordKey(d)
<1>1. /\ d.type \in RecordTypes /\ d.name \in Names /\ d.ttl \in Int
      /\ d.priority \in Int /\ d.proxied \in {"unset", "on", "off"}
      /\ d.comment \in STRING
  BY DEF DesiredRecord
<1>2. /\ old.priority \in Int /\ old.proxied \in {"on", "off"}
      /\ old.comment \in STRING /\ old.id \in Nat \ {0}
  BY DEF LiveRecord
<1>3. editRecordBody(old, d) \in LiveRecord
  BY <1>1, <1>2, ListedData DEF editRecordBody, LiveRecord
<1>4. /\ editRecordBody(old, d).id = old.id
      /\ recordKey(editRecordBody(old, d)) = recordKey(d)
  BY ListedData DEF editRecordBody, recordKey
<1> QED BY <1>3, <1>4

\* Whether a record is a workflow marker depends on its key alone.
LEMMA MarkerByKey ==
    ASSUME NEW r, NEW s, recordKey(r) = recordKey(s), isWorkflowManagedMarker(r)
    PROVE  isWorkflowManagedMarker(s)
BY DEF recordKey, isWorkflowManagedMarker, canonicalData, HostTypes

-----------------------------------------------------------------------------
(* Outputs and the diff *)

\* A record read back from an output is the record it was made from.
LEMMA OutputReadBack ==
    ASSUME NEW r \in LiveRecord, NEW m, m = recordFromOutput(recordOutput(r))
    PROVE  /\ recordKey(m) = recordKey(r)
           /\ m.ttl = r.ttl /\ m.priority = r.priority /\ m.proxied = r.proxied
           /\ m.comment = r.comment /\ m.id = r.id
<1>1. /\ r.data \in Data
      /\ r.type = "TXT" => r.data.form \in {"plain", "quoted"}
  BY DEF LiveRecord
<1>2. m = [r EXCEPT !.data = rawTXTData(r.type, presentationTXTData(r.type, r.data))]
  BY DEF LiveRecord, recordFromOutput, recordOutput
<1>3. /\ m.type = r.type /\ m.name = r.name /\ m.ttl = r.ttl
      /\ m.priority = r.priority /\ m.proxied = r.proxied
      /\ m.comment = r.comment /\ m.id = r.id
      /\ m.data = rawTXTData(r.type, presentationTXTData(r.type, r.data))
  BY <1>2 DEF LiveRecord
<1>4. canonicalData(r.type, m.data) = canonicalData(r.type, r.data)
  <2>1. CASE r.type = "TXT"
    <3>1. m.data = [r.data EXCEPT !.form = "plain"]
      BY <1>1, <1>3, <2>1 DEF rawTXTData, presentationTXTData, Data
    <3>2. m.data.form = "plain"
      BY <1>1, <3>1 DEF Data
    <3>3. rawTXTData(r.type, r.data) = m.data
      BY <1>1, <2>1, <3>1 DEF rawTXTData, Data
    <3> QED BY <2>1, <3>2, <3>3 DEF canonicalData, HostTypes, rawTXTData
  <2>2. CASE r.type # "TXT"
    BY <1>3, <2>2 DEF rawTXTData, presentationTXTData
  <2> QED BY <2>1, <2>2
<1> QED BY <1>3, <1>4 DEF recordKey

\* Diff finds nothing where each desired record has one candidate, which
\* matches, and nothing else is declared away.
LEMMA NothingToDo ==
    ASSUME NEW listed, NEW desired, NEW manage, NEW first,
           first \in sortedFirst(listed, desired),
           \A i \in DOMAIN desired :
               \E c \in listed :
                   /\ recordMatches(c, desired[i])
                   /\ \A o \in listed : recordKey(o) = recordKey(desired[i]) => o = c,
           \A c \in listed :
               /\ (\E i \in DOMAIN desired : isWorkflowManagedMarker(desired[i]))
                      /\ isWorkflowManagedMarker(c) => recordKey(c) \in Keys(desired)
               /\ manage => recordKey(c) \in Keys(desired)
    PROVE  diffRecords(listed, desired, manage, first) = {}
<1>1. \A i \in DOMAIN desired : \E c \in listed :
          /\ recordMatches(c, desired[i]) /\ recordKey(c) = recordKey(desired[i])
          /\ \A o \in listed : recordKey(o) = recordKey(desired[i]) => o = c
  BY DEF recordMatches
<1>2. \A k \in Keys(desired) : Candidates(listed, k) # {}
  BY <1>1 DEF Keys, Candidates
<1>3. DOMAIN first = Keys(desired) /\ \A k \in Keys(desired) : first[k] \in Candidates(listed, k)
  <2> DEFINE K == {k \in Keys(desired) : Candidates(listed, k) # {}}
  <2>1. K = Keys(desired)
    BY <1>2
  <2>2. first \in [K -> listed] /\ \A k \in K : first[k] \in Candidates(listed, k)
    BY DEF sortedFirst
  <2> QED BY <2>1, <2>2
<1>4. \A i \in DOMAIN desired : recordKey(desired[i]) \in Keys(desired)
  BY DEF Keys
<1>5. \A i \in DOMAIN desired :
          recordMatches(first[recordKey(desired[i])], desired[i])
  BY <1>1, <1>3, <1>4 DEF Candidates
<1>6. \A c \in listed : recordKey(c) \in Keys(desired) => c = first[recordKey(c)]
  BY <1>1, <1>3 DEF Keys, Candidates
<1> DEFINE records == {desired[i] : i \in DOMAIN desired}
           adds == {<<"add", d>> : d \in {e \in records : recordKey(e) \notin DOMAIN first}}
           changes == {<<"change", d>> :
                         d \in {e \in records :
                                   /\ recordKey(e) \in DOMAIN first
                                   /\ ~recordMatches(first[recordKey(e)], e)}}
           firsts == {first[k] : k \in DOMAIN first}
           marked == \E d \in records : isWorkflowManagedMarker(d)
           stale == {c \in listed \ firsts : marked /\ isWorkflowManagedMarker(c)}
           extra == {c \in listed : manage /\ recordKey(c) \notin Keys(desired)}
<1>7. adds = {} /\ changes = {}
  BY <1>3, <1>4, <1>5
<1>8. stale = {}
  BY <1>3, <1>6
<1>9. extra = {}
  OBVIOUS
<1>10. {<<"remove", c>> : c \in stale \cup extra} = {}
  BY <1>8, <1>9
<1> QED BY <1>7, <1>10 DEF diffRecords

\* There is a way to sort records of which each key has one.
LEMMA SomeOrder ==
    ASSUME NEW listed, NEW desired, \A c \in listed : c.priority \in Int,
           \A i \in DOMAIN desired :
               \E c \in listed :
                   /\ recordKey(c) = recordKey(desired[i])
                   /\ \A o \in listed : recordKey(o) = recordKey(desired[i]) => o = c
    PROVE  sortedFirst(listed, desired) # {}
<1> DEFINE K == {k \in Keys(desired) : Candidates(listed, k) # {}}
           first == [k \in K |-> CHOOSE c \in listed : recordKey(c) = k]
<1>1. \A k \in K : \E c \in listed :
          recordKey(c) = k /\ \A o \in listed : recordKey(o) = k => o = c
  BY DEF Keys
<1>2. \A k \in K : first[k] \in listed /\ recordKey(first[k]) = k
  BY <1>1
<1>3. first \in [K -> listed]
  BY <1>2
<1>4. \A k \in K : \A c \in Candidates(listed, k) : first[k] = c
  BY <1>1, <1>2 DEF Candidates
<1>5. \A k \in K : /\ first[k] \in Candidates(listed, k)
                   /\ \A c \in Candidates(listed, k) : first[k].priority <= c.priority
  <2> SUFFICES ASSUME NEW k \in K
               PROVE  /\ first[k] \in Candidates(listed, k)
                      /\ \A c \in Candidates(listed, k) : first[k].priority <= c.priority
    OBVIOUS
  <2>1. first[k] \in Candidates(listed, k)
    BY <1>2 DEF Candidates
  <2>2. ASSUME NEW c \in Candidates(listed, k) PROVE first[k].priority <= c.priority
    <3>1. first[k] = c /\ c.priority \in Int
      BY <1>4 DEF Candidates
    <3> HIDE DEF first
    <3> QED BY <3>1
  <2> QED BY <2>1, <2>2
<1> HIDE DEF first
<1>6. first \in sortedFirst(listed, desired)
  BY <1>3, <1>5 DEF sortedFirst
<1> QED BY <1>6

\* What it means that Diff finds nothing: each desired record matches the first
\* of its candidates, and no other record is declared away.
LEMMA NothingFound ==
    ASSUME NEW listed, NEW desired, NEW manage, NEW first,
           first \in sortedFirst(listed, desired),
           diffRecords(listed, desired, manage, first) = {}
    PROVE  /\ \A i \in DOMAIN desired :
                  LET k == recordKey(desired[i])
                  IN  first[k] \in Candidates(listed, k) /\ recordMatches(first[k], desired[i])
           /\ \A c \in listed :
                  /\ manage => recordKey(c) \in Keys(desired)
                  /\ (\E i \in DOMAIN desired : isWorkflowManagedMarker(desired[i]))
                         /\ isWorkflowManagedMarker(c)
                     => \E i \in DOMAIN desired : c = first[recordKey(desired[i])]
<1> DEFINE records == {desired[i] : i \in DOMAIN desired}
           adds == {<<"add", d>> : d \in {e \in records : recordKey(e) \notin DOMAIN first}}
           changes == {<<"change", d>> :
                         d \in {e \in records :
                                   /\ recordKey(e) \in DOMAIN first
                                   /\ ~recordMatches(first[recordKey(e)], e)}}
           firsts == {first[k] : k \in DOMAIN first}
           marked == \E d \in records : isWorkflowManagedMarker(d)
           stale == {c \in listed \ firsts : marked /\ isWorkflowManagedMarker(c)}
           extra == {c \in listed : manage /\ recordKey(c) \notin Keys(desired)}
<1>1. diffRecords(listed, desired, manage, first) =
          adds \cup changes \cup {<<"remove", c>> : c \in stale \cup extra}
  BY DEF diffRecords
<1>2. adds = {} /\ changes = {} /\ stale = {} /\ extra = {}
  BY <1>1
<1>3. /\ \A k \in DOMAIN first : first[k] \in Candidates(listed, k)
      /\ DOMAIN first \subseteq Keys(desired)
  BY DEF sortedFirst
<1>4. \A i \in DOMAIN desired :
          /\ recordKey(desired[i]) \in DOMAIN first
          /\ recordMatches(first[recordKey(desired[i])], desired[i])
  BY <1>2
<1>5. \A c \in listed : marked /\ isWorkflowManagedMarker(c) => c \in firsts
  BY <1>2
<1>6. \A c \in listed : manage => recordKey(c) \in Keys(desired)
  BY <1>2
<1>7. \A c \in firsts : \E i \in DOMAIN desired : c = first[recordKey(desired[i])]
  BY <1>3 DEF Keys
<1>8. (\E i \in DOMAIN desired : isWorkflowManagedMarker(desired[i])) => marked
  OBVIOUS
<1> HIDE DEF firsts, marked, adds, changes, stale, extra
<1> QED BY <1>3, <1>4, <1>5, <1>6, <1>7, <1>8

=============================================================================
