---------------------------- MODULE MCDNSDriver ----------------------------
(***************************************************************************)
(* DNSDriver on small zones and specs.  A constant that a cfg binds to a   *)
(* definition is computed at each use, so the sets the constants are bound *)
(* to are names of other definitions, which TLC computes once.             *)
(***************************************************************************)
EXTENDS MCDNSData, DNSSafety

\* One call at a time: a hostname as an address, as an alias, and other
\* records beside it.
SoloConfigs ==
    {Parsed(FALSE, <<A1On, K1>>),
     parseDNSSpec(Config(0, FALSE, FALSE, <<C1, MX(2)>>)),
     Parsed(TRUE, <<C1, K2>>),
     parseDNSSpec(Config(1, TRUE, TRUE, <<T1, A1Slow, A2>>))}
SoloSpecs == SoloConfigs

SoloListings ==
    {{Live(1, A1Slow), Live(2, K1), Live(3, K1)},
     {Live(1, C1), Live(2, K2), Live(3, T1)},
     {Live(1, A1), Live(2, A2), Live(3, With(T1, "ttl", 300))},
     {Live(1, C2), Live(2, MX(1)), Live(3, MX(2))}}
SoloZones == SoloListings

\* Two calls at a time, one of a spec that removes what it does not declare.
PairConfigs == {Parsed(FALSE, <<A1On, K1>>), Parsed(TRUE, <<C1, K2>>)}
PairSpecs == PairConfigs

PairListings == {{Live(1, A1), Live(2, K1), Live(3, K1)},
                 {Live(1, C2), Live(2, K2), Live(3, T1)}}
PairZones == PairListings

PairEdits == {recordOf(C2), recordOf(K2)}
PairOutside == PairEdits

Perms == Permutations(Ops)

=============================================================================
