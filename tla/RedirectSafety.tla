--------------------------- MODULE RedirectSafety ---------------------------
(***************************************************************************)
(* What calls of RedirectDriver may and may not do to a ruleset.           *)
(***************************************************************************)
EXTENDS RedirectDriver

Labels == {"ready", "GetZone", "GetRedirectRuleset", "WriteRedirectRuleset"}
Results == {"none", "ok", "failed", "missing"}

\* Every variable holds values of its kind; a rule, in the ruleset or under way,
\* has all its fields, its target in one of the three forms (redirectRuleParam).
TypeOK ==
    /\ exists \in BOOLEAN
    /\ rules \in Seq(ServiceRule)
    /\ ~exists => rules = <<>>
    /\ \A req \in limbo : req.rules \in Seq(ServiceRule)
    /\ pc \in [Ops -> Labels]
    /\ kind \in [Ops -> Kinds \cup {"Read"}]
    /\ spec \in [Ops -> DriverRule]
    /\ refID \in [Ops -> Seq(STRING) \cup {NoRef}]
    /\ known \in [Ops -> Seq(STRING) \cup {NoRef}]
    /\ fetched \in [Ops -> Seq(DriverRule)]
    /\ found \in [Ops -> BOOLEAN]
    /\ result \in [Ops -> Results]
    /\ disturbed \in [Ops -> BOOLEAN]

-----------------------------------------------------------------------------

\* However calls, late requests and the dashboard replace the ruleset, no two
\* of its rules ever have one ref (upsertRedirectRule, README "so updates do
\* not create duplicate rules").
NoSharedRef ==
    /\ RefsUnique(rules)
    /\ \A req \in limbo : RefsUnique(req.rules)
    /\ \A p \in Ops : RefsUnique(fetched[p])

\* A write that nobody interfered with leaves the rules of other refs as they
\* were, in the order they were in (README "preserves unrelated rules"), those
\* with an expression the driver does not know excepted.
OthersPreserved ==
    [][\A p \in Ops : WriteRedirectRuleset(p) /\ ~disturbed[p] =>
         LET dynamic == {i \in DOMAIN rules : rules[i].form = "dynamic"}
             refs == {refID[p]} \cup {rules[i].ref : i \in dynamic}
         IN  RulesBut(rules', refs) = RulesBut(rules, refs)]_vars

\* The creation of a ruleset never costs a rule, however late its request
\* arrives and whoever has made the ruleset meanwhile (Create).
CreationLosesNothing ==
    [][\/ \E p \in Ops : WriteRedirectRuleset(p) /\ ~found[p]
       \/ \E req \in limbo : Arrive(req) /\ req.call = "CreateRedirectRuleset"
       => rules \in {<<>>, rules'}]_vars

\* What Diff finds between a config and the ruleset right after the Create or
\* Update of it is nothing, and after a Delete its rule is gone, though the
\* ruleset sent back may have been edited by others since it was fetched.
Current(p) ==
    LET rule == findRedirectRule(Fetched(rules), refID[p])
    IN  IF kind[p] = "Delete" THEN rule = {}
        ELSE \E r \in rule : diffRedirectOutput(r, spec[p]) = {}

NoDriftAfterWrite ==
    [][\A p \in Ops : WriteRedirectRuleset(p) => Current(p)']_vars

=============================================================================
