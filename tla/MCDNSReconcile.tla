--------------------------- MODULE MCDNSReconcile ---------------------------
(* A caller that repeats Create on a zone others disturb. *)
EXTENDS MCDNSData, DNSReconcile

RetryConfigs == {Parsed(FALSE, <<A1On, K1>>), Parsed(TRUE, <<C1, K2>>)}

RetrySpecs == RetryConfigs

RetryListings == {{Live(1, A1Slow), Live(2, K1), Live(3, K2)},
                  {Live(1, C2), Live(2, K1), Live(3, T1)}}
RetryZones == RetryListings

RetryEdits == {recordOf(C2), recordOf(A1)}
RetryOutside == RetryEdits

=============================================================================
