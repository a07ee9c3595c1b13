--------------------------- MODULE MCDNSContract ---------------------------
(* One undisturbed caller on zones with duplicate and conflicting records. *)
EXTENDS MCDNSData, DNSContract

CallConfigs ==
    {Parsed(FALSE, <<A1On, K1>>), Parsed(FALSE, <<C1, MX(2), V0>>),
     Parsed(TRUE, <<C1, K2, MX(0)>>), Parsed(TRUE, <<T1, A1Slow, A2>>),
     Parsed(TRUE, <<>>)}
CallSpecs == CallConfigs

CallListings ==
    {{}, {Live(1, A1Slow), Live(2, K1), Live(3, K1)},
     {Live(1, C1), Live(2, K2), Live(3, T1)},
     {Live(1, A1), Live(2, A2), Live(3, With(T1, "ttl", 300))},
     {Live(1, C2), Live(2, MX(1)), Live(3, MX(2))},
     {Live(1, V5), Live(2, K2), Live(3, K1)}}
CallZones == CallListings

=============================================================================
