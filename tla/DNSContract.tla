---------------------------- MODULE DNSContract ----------------------------
(***************************************************************************)
(* One caller of Create and Update, undisturbed: the driver implements     *)
(* ZoneContract.                                                           *)
(***************************************************************************)
EXTENDS DNSSafety

CONSTANT Idle

Caller == CHOOSE p \in Ops : TRUE

\* The contract is about one caller of Create and Update whose requests arrive and
\* whose zone nobody else edits; no spec of its declares a CNAME and an address of
\* one name, and "Idle", its spec between calls, is none of them.
ASSUME ContractAssumption ==
    /\ Ops = {Caller}
    /\ Kinds \subseteq {"Create", "Update"}
    /\ MaxLost = 0 /\ MaxOutside = 0
    /\ Idle \notin Specs
    /\ \A s \in Specs : Consistent(s)

Call == IF pc[Caller] = "ready" THEN Idle ELSE spec[Caller]

Outcome ==
    IF pc[Caller] # "ready" THEN "running"
    ELSE IF result[Caller] \in {"none", "ok"} THEN result[Caller]
    ELSE "failed"

Contract == INSTANCE ZoneContract WITH
    records <- live,
    call    <- Call,
    outcome <- Outcome

\* Create and Update of dns.go do only what the contract allows: no undeclared
\* record is changed, nothing but spare records goes, and "ok" means that every
\* declared record is in place and no record is left that has to go.
ImplementsContract == Contract!Spec

=============================================================================
