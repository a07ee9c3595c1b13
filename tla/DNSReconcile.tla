---------------------------- MODULE DNSReconcile ----------------------------
(***************************************************************************)
(* DNSDriver under a caller that repeats Create of one spec, as a          *)
(* reconciling engine does: Create looks the zone up, makes it when it is  *)
(* missing, and applies the records, so that it may be called again.       *)
(***************************************************************************)
EXTENDS DNSSafety

Retry(p) == Begin(p, "Create", spec[p], spec[p].zoneId)

RetryInit == \E chosen \in [Ops -> Specs] : InitWith(chosen)

RetryNext ==
    \/ \E p \in Ops : Retry(p) \/ Step(p) \/ Fail(p) \/ Lose(p)
    \/ \E req \in limbo : Arrive(req)
    \/ Outside

\* Beyond the progress of a running call: the caller does not give up.
RetrySpec ==
    /\ RetryInit /\ [][RetryNext]_vars
    /\ \A p \in Ops : WF_vars(Step(p)) /\ WF_vars(Retry(p))

-----------------------------------------------------------------------------

\* The zone is what the spec asks for.
Settled(p) ==
    /\ zone # 0
    /\ \A i \in DOMAIN Desired(p) : \E r \in live : recordMatches(r, Desired(p)[i])
    /\ spec[p].manage => \A r \in live : recordKey(r) \in Keys(Desired(p))

\* An undeclared record that only manage_unlisted may remove is in the way.
Blocked(p) ==
    /\ ~spec[p].manage
    /\ \E i \in DOMAIN Desired(p), r \in live :
          /\ AliasClash(r, Desired(p)[i])
          /\ recordKey(r) \notin Keys(Desired(p))

\* However a bounded number of calls fail, get lost or arrive late, and
\* whatever a bounded number of edits from outside do, a caller that keeps
\* calling Create leaves the zone as its spec says, for good: a call that fails
\* half-way, between the removal of a conflicting record and the creation of
\* its replacement too, is made good by the next (Create of dns.go).
Reconciles == \A p \in Ops : <>[](Settled(p) \/ Blocked(p))

=============================================================================
