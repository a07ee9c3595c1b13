----------------------------- MODULE MCDNSSpec -----------------------------
(* Configs of up to three records, ill-formed ones and duplicates included. *)
EXTENDS MCDNSData, DNSSpecCheck

Records ==
    {A1, A1On, A1Off, With(A1, "ttl", 30), A2, With(A2, "name", Www),
     C1, C2, Base("CNAME", Www, Upper("example.net")), T1, With(T1, "name", Apex), K2, V5, MX(0), MX(1), MX(-1),
     Base("MX", Apex, Rooted("mail")), Base("AAAA", Www, Plain("192.0.2.1")),
     Base("CAA", None, Plain("ca")), Base("PTR", Www, Plain("x")),
     With(C1, "ill", {"ttl"}), NoName,
     NoData, With(T1, "comment", "note")}
MCWritable == Records

=============================================================================
