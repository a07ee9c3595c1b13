------------------------------ MODULE MCDomain ------------------------------
(* Two domains of two accounts, and configs with and without the opt-in. *)
EXTENDS DomainSafety

CONSTANTS a1, a2, d1, d2

MCRegistrant == [n \in {d1, d2} |-> IF n = d1 THEN a1 ELSE a2]

Lower(n) == [name |-> n, upper |-> FALSE]
Upper(n) == [name |-> n, upper |-> TRUE]

Config(domain, account, renew, allow) ==
    [name |-> Lower(d1), domain |-> domain, account |-> account,
     autoRenew |-> renew, allow |-> allow, typed |-> TRUE]

MCConfigs ==
    {Config(Upper(d1), NoAccount, "on", TRUE),
     Config(NoDomain, a1, "off", TRUE),
     Config(Lower(d1), NoAccount, "on", FALSE),
     Config(Lower(d1), a1, "unset", FALSE),
     Config(Lower(d2), NoAccount, "on", TRUE),
     [Config(Lower(d1), NoAccount, "on", TRUE) EXCEPT !.typed = FALSE]}
DomainConfigs == MCConfigs

=============================================================================
