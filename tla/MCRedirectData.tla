--------------------------- MODULE MCRedirectData ---------------------------
(***************************************************************************)
(* Hosts, configs and rules the redirect runs are instantiated with.  As   *)
(* in MCDNSData the fields of records are first named here, in one order.  *)
(***************************************************************************)
EXTENDS RedirectRule

MCZone     == [words |-> <<"example", "net">>, dashed |-> {}]
MCDefaults == "301"

WwwHost    == [words |-> <<"www", "example", "net">>, dashed |-> {}]

Stored(ref, host, target, form) ==
    [ref |-> ref, host |-> host, target |-> target, form |-> form,
     options |-> "302"]
Keep    == Stored(<<"keep">>, WwwHost, "https://keep", "value")
Old     == Stored(redirectRefForHost(MCZone), MCZone, "https://old", "concat")
Dynamic == Stored(<<"dynamic">>, WwwHost, "lookup()", "dynamic")

ToNew   == [target |-> "https://new", ill |-> {}]
ForWww  == [host |-> WwwHost, target |-> "https://new", ill |-> {}]
Custom  == [ref |-> <<"keep">>, host |-> WwwHost, target |-> "https://new",
            options |-> "308", ill |-> {}, preservePath |-> FALSE]
BadCode == [target |-> "https://new", ill |-> {"options"}]

=============================================================================
