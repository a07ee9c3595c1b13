----------------------------- MODULE MCDNSData -----------------------------
(***************************************************************************)
(* Small records, configs and zones the DNS runs are instantiated with.    *)
(* Specs are always what parseDNSSpec makes of a config.                   *)
(*                                                                         *)
(* The modules that TLC starts from extend this one first and name no      *)
(* field before it: records whose fields are written in the order of their *)
(* first occurrence are in TLC's normal form from the start, which values  *)
(* that several workers share have to be.                                  *)
(***************************************************************************)
EXTENDS DNSSpec

MCDomain     == <<"example", "com">>
MCDomainData == "example.com"
MCMarkerData == {"heritage v1", "heritage v2"}
MCIPv4       == {"192.0.2.1", "192.0.2.2"}
MCIPv6       == {"2001:db8::1"}

Written(labels) == [labels |-> labels, upper |-> FALSE, rooted |-> FALSE]
Www      == Written(<<"www">>)
WwwUpper == [labels |-> <<"www">> \o MCDomain, upper |-> TRUE, rooted |-> TRUE]
Apex     == [labels |-> MCDomain, upper |-> TRUE, rooted |-> FALSE]
None     == Written(<<>>)
Marker   == Written(<<"_workflow-dns-managed">>)
Plain(v)  == [value |-> v, form |-> "plain"]
Quoted(v) == [value |-> v, form |-> "quoted"]
Upper(v)  == [value |-> v, form |-> "upper"]
Rooted(v) == [value |-> v, form |-> "rooted"]

\* Records of a config.
Base(t, n, d) == [ill |-> {}, type |-> t, name |-> n, data |-> d]
With(r, f, v) == [x \in DOMAIN r \cup {f} |-> IF x = f THEN v ELSE r[x]]
A1     == Base("A", Www, Plain("192.0.2.1"))
A1On   == With(A1, "proxied", "on")
A1Off  == With(A1, "proxied", "off")
A1Slow == With(A1, "ttl", 300)
A2     == Base("A", WwwUpper, Plain("192.0.2.2"))
C1     == Base("CNAME", WwwUpper, Plain("@"))
C2     == Base("CNAME", Www, Rooted("example.net"))
T1     == Base("TXT", Root, Quoted("spf"))
K1     == Base("TXT", Marker, Quoted("heritage v1"))
K2     == Base("TXT", Marker, Plain("heritage v2"))
NoName == [ill |-> {}, type |-> "TXT", data |-> Quoted("spf")]
NoData == [ill |-> {}, type |-> "TXT"]
V0     == Base("SRV", Www, Plain("sip"))
V5     == With(V0, "priority", 5)
MX(n)  == With(Base("MX", Root, Plain("mail")), "priority", n)

Config(zoneId, account, manage, records) ==
    [domainOk |-> TRUE, zoneId |-> zoneId, account |-> account,
     manage |-> manage, records |-> records]
Parsed(manage, records) == parseDNSSpec(Config(0, TRUE, manage, records))

\* Records of a zone: what Cloudflare lists after they were created.
Live(id, m) == newRecordBody(id, recordOf(m))

=============================================================================
