-------------------------- MODULE RedirectPromises --------------------------
(***************************************************************************)
(* Statements of README.md about infra.http_redirect that the code does    *)
(* not keep.                                                               *)
(***************************************************************************)
EXTENDS RedirectDriver

\* README.md:53 "It preserves unrelated rules in the same ruleset": a write of
\* a call for one host leaves the rule of every other host as it is.
UnrelatedPreserved ==
    [][\A p \in Ops : WriteRedirectRuleset(p) =>
         \A i \in DOMAIN rules : rules[i].host # spec[p].host =>
            \E j \in DOMAIN rules' : rules'[j] = rules[i]]_vars

\* README.md:52,54 "manages one Cloudflare Single Redirect rule" and "uses a
\* stable rule ref so updates do not create duplicate rules": an Update of a
\* resource whose rule exists adds no rule.
UpdateAddsNoRule ==
    [][\A p \in Ops :
         /\ WriteRedirectRuleset(p) /\ kind[p] = "Update"
         /\ known[p] # NoRef /\ RefIn(known[p], rules)
         => Len(rules') = Len(rules)]_vars

=============================================================================
