---------------------------- MODULE MCDNSPromises ----------------------------
(* A zone whose SRV record has to lose its priority. *)
EXTENDS MCDNSData, DNSPromises

PriorityConfig  == {Parsed(FALSE, <<V0>>)}
PrioritySpec    == PriorityConfig
PriorityListing == {{Live(1, V5)}}
PriorityZone    == PriorityListing

=============================================================================
