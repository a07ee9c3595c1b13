--------------------------- MODULE RedirectDriver ---------------------------
(***************************************************************************)
(* RedirectDriver of internal/drivers/redirect.go: Create, Read, Update    *)
(* and Delete calls for rules of one zone.  The service knows no request   *)
(* for a single rule: a call fetches the zone's whole ruleset, edits it    *)
(* and sends all of it back, while other calls, late requests and the      *)
(* dashboard do the same.                                                  *)
(***************************************************************************)
EXTENDS RedirectRule

CONSTANTS Ops,          \* the concurrent calls, each for a resource of its own
          Kinds,        \* the operations callers use
          Configs,      \* configs of the resources
          InitialRules, \* what the ruleset may hold at first
          OutsideRules, \* rules the dashboard may write
          NoRef,        \* a resource without a known rule
          MaxCalls,     \* calls started
          MaxFaults,    \* API calls that may fail
          MaxLost,      \* API calls whose request may outlive its failure
          MaxOutside    \* edits from outside

RefsUnique(rules) ==
    \A i, j \in DOMAIN rules : rules[i].ref = rules[j].ref => i = j

ASSUME ConfigsAssumption ==
    /\ Kinds \subseteq {"Create", "Read", "Update", "Delete"}
    /\ Configs # {}
    /\ \A c \in Configs : parseRedirectSpec(c) \in DriverRule \cup {ParseError}
    /\ NoRef \notin Seq(STRING)

ASSUME ZoneAssumption ==
    /\ \A rules \in InitialRules : rules \in Seq(ServiceRule) /\ RefsUnique(rules)
    /\ OutsideRules \subseteq ServiceRule

VARIABLES exists,    \* whether the zone's phase has a ruleset
          rules,     \* its rules
          limbo,     \* requests that failed at the caller, not yet applied
          pc,        \* where a call is; "ready" between two calls
          kind,      \* its operation
          spec,      \* the rule of its parsed spec
          refID,     \* the rule a Read or Delete is about
          fetched,   \* the rules of the ruleset it fetched
          found,     \* whether there was one
          known,     \* the rule ref of the resource's ProviderID
          out,       \* the rule the last call put out, as a set
          result,    \* how the last call ended
          disturbed, \* history: the ruleset was changed since it was fetched
          calls, faults, edits

serviceVars == <<exists, rules>>
callVars == <<kind, spec, refID, fetched, found>>
budgetVars == <<calls, faults, edits>>
vars == <<serviceVars, limbo, pc, callVars, known, out, result, disturbed,
          budgetVars>>

-----------------------------------------------------------------------------
(* The service *)

Request(call, sent) == [call |-> call, rules |-> sent]

\* A ruleset is made once per phase; the entrypoint may always be replaced.
Accepts(req) == req.call = "CreateRedirectRuleset" => ~exists

Serve(req) == exists' = TRUE /\ rules' = req.rules

-----------------------------------------------------------------------------
(* Steps all calls share *)

Return(p, how, rule) ==
    /\ pc' = [pc EXCEPT ![p] = "ready"]
    /\ result' = [result EXCEPT ![p] = how]
    /\ out' = [out EXCEPT ![p] = rule]
    /\ fetched' = [fetched EXCEPT ![p] = <<>>]
    /\ found' = [found EXCEPT ![p] = FALSE]
    /\ UNCHANGED <<kind, spec, refID>>

Begin(p, k, rule, ref) ==
    /\ pc[p] = "ready"
    /\ calls < MaxCalls
    /\ calls' = calls + 1
    /\ kind' = [kind EXCEPT ![p] = k]
    /\ spec' = [spec EXCEPT ![p] = rule]
    /\ refID' = [refID EXCEPT ![p] = ref]
    /\ out' = [out EXCEPT ![p] = {}]
    /\ UNCHANGED <<serviceVars, limbo, fetched, found, known, disturbed,
                   faults, edits>>

-----------------------------------------------------------------------------
(* A caller *)

\* Create and Update take all they need from their spec: Update does not look
\* at the rule its ResourceRef names.
StartApply(p) ==
    \E k \in Kinds \cap {"Create", "Update"}, c \in Configs :
       LET rule == parseRedirectSpec(c)
       IN  IF rule = ParseError
           THEN /\ Begin(p, k, spec[p], NoRef)
                /\ result' = [result EXCEPT ![p] = "failed"]
                /\ UNCHANGED pc
           ELSE /\ Begin(p, k, rule, rule.ref)
                /\ result' = [result EXCEPT ![p] = "none"]
                /\ pc' = [pc EXCEPT ![p] = "GetZone"]

\* Read and Delete take the rule of the ProviderID.  A ResourceRef without one
\* has the zone's name, its id or neither: the first stands for the zone's own
\* rule, the second only for a Read (a Delete refuses it after the fetch), and
\* with neither no zone is found.
StartByRef(p) ==
    \E k \in Kinds \cap {"Read", "Delete"}, by \in {"name", "id", "neither"} :
       /\ Begin(p, k, spec[p],
                IF known[p] # NoRef THEN known[p]
                ELSE IF by = "name" \/ (by = "id" /\ k = "Read")
                     THEN redirectRefForHost(Zone)
                ELSE NoRef)
       /\ IF known[p] = NoRef /\ by = "neither"
          THEN result' = [result EXCEPT ![p] = "failed"] /\ UNCHANGED pc
          ELSE /\ result' = [result EXCEPT ![p] = "none"]
               /\ pc' = [pc EXCEPT ![p] = "GetZone"]

-----------------------------------------------------------------------------
(* A call *)

GetZone(p) ==
    /\ pc[p] = "GetZone"
    /\ pc' = [pc EXCEPT ![p] = "GetRedirectRuleset"]
    /\ UNCHANGED <<serviceVars, limbo, callVars, known, out, result, disturbed,
                   budgetVars>>

\* Only Create goes on without a ruleset; Delete needs to know its rule.
GetRedirectRuleset(p) ==
    /\ pc[p] = "GetRedirectRuleset"
    /\ kind[p] \in {"Create", "Update", "Delete"}
    /\ exists \/ kind[p] = "Create"
    /\ kind[p] = "Delete" => refID[p] # NoRef
    /\ fetched' = [fetched EXCEPT ![p] = Fetched(rules)]
    /\ found' = [found EXCEPT ![p] = exists]
    /\ disturbed' = [disturbed EXCEPT ![p] = FALSE]
    /\ pc' = [pc EXCEPT ![p] = "WriteRedirectRuleset"]
    /\ UNCHANGED <<serviceVars, limbo, kind, spec, refID, known, out, result,
                   budgetVars>>

\* Read ends with the rule it finds.
ReadRule(p) ==
    /\ pc[p] = "GetRedirectRuleset" /\ kind[p] = "Read" /\ exists
    /\ LET rule == findRedirectRule(Fetched(rules), refID[p])
       IN  Return(p, IF rule = {} THEN "missing" ELSE "ok", rule)
    /\ UNCHANGED <<serviceVars, limbo, known, disturbed, budgetVars>>

\* There is no ruleset, or Delete does not know its rule.
RefuseFetch(p) ==
    /\ pc[p] = "GetRedirectRuleset"
    /\ \/ ~exists /\ kind[p] # "Create"
       \/ kind[p] = "Delete" /\ refID[p] = NoRef
    /\ Return(p, IF kind[p] = "Read" THEN "missing" ELSE "failed", {})
    /\ UNCHANGED <<serviceVars, limbo, known, disturbed, budgetVars>>

\* Variant: the entrypoint is replaced even when there was none.
WriteRequestReplacing(p) ==
    Request("UpdateRedirectRuleset",
            Sent(IF kind[p] = "Delete" THEN withoutRule(fetched[p], refID[p])
                 ELSE upsertRedirectRule(fetched[p], spec[p])))

\* The ruleset a call sends back: the one it fetched, edited.
WriteRequest(p) ==
    IF kind[p] = "Delete"
    THEN Request("UpdateRedirectRuleset", Sent(withoutRule(fetched[p], refID[p])))
    ELSE Request(IF found[p] THEN "UpdateRedirectRuleset"
                 ELSE "CreateRedirectRuleset",
                 Sent(upsertRedirectRule(fetched[p], spec[p])))

\* Everyone but p may now hold a stale ruleset.
Disturb(p) == disturbed' = [q \in Ops |-> disturbed[q] \/ q # p]

\* The output of Create and Update is the rule that was asked for, and its ref
\* becomes part of the resource's ProviderID.
WriteRedirectRuleset(p) ==
    /\ pc[p] = "WriteRedirectRuleset"
    /\ Accepts(WriteRequest(p))
    /\ Serve(WriteRequest(p))
    /\ Disturb(p)
    /\ Return(p, "ok", IF kind[p] = "Delete" THEN {} ELSE {spec[p]})
    /\ known' = [known EXCEPT ![p] = IF kind[p] = "Delete" THEN NoRef
                                     ELSE spec[p].ref]
    /\ UNCHANGED <<limbo, budgetVars>>

\* Another call has made the ruleset meanwhile.
RefuseWrite(p) ==
    /\ pc[p] = "WriteRedirectRuleset"
    /\ ~Accepts(WriteRequest(p))
    /\ Return(p, "failed", {})
    /\ UNCHANGED <<serviceVars, limbo, known, disturbed, budgetVars>>

-----------------------------------------------------------------------------
(* Failures and the environment *)

\* An API call fails and has no effect.
Fail(p) ==
    /\ faults < MaxFaults /\ pc[p] # "ready"
    /\ faults' = faults + 1
    /\ Return(p, "failed", {})
    /\ UNCHANGED <<serviceVars, limbo, known, disturbed, calls, edits>>

\* A write fails at the caller; its request may still arrive.
Lose(p) ==
    /\ faults < MaxFaults /\ Cardinality(limbo) < MaxLost
    /\ pc[p] = "WriteRedirectRuleset"
    /\ limbo' = limbo \cup {WriteRequest(p)}
    /\ faults' = faults + 1
    /\ Return(p, "failed", {})
    /\ UNCHANGED <<serviceVars, known, disturbed, calls, edits>>

DisturbAll == disturbed' = [q \in Ops |-> TRUE]

Arrive(req) ==
    /\ req \in limbo
    /\ limbo' = limbo \ {req}
    /\ \/ Accepts(req) /\ Serve(req) /\ DisturbAll
       \/ ~Accepts(req) /\ UNCHANGED <<serviceVars, disturbed>>
    /\ UNCHANGED <<pc, callVars, known, out, result, budgetVars>>

\* The dashboard adds a rule or removes one.
Outside ==
    /\ edits < MaxOutside
    /\ edits' = edits + 1
    /\ \/ \E r \in OutsideRules :
             /\ ~RefIn(r.ref, rules)
             /\ exists' = TRUE /\ rules' = Append(rules, r)
       \/ \E i \in DOMAIN rules :
             rules' = withoutRule(rules, rules[i].ref) /\ UNCHANGED exists
    /\ DisturbAll
    /\ UNCHANGED <<limbo, pc, callVars, known, out, result, calls, faults>>

-----------------------------------------------------------------------------

Step(p) ==
    \/ GetZone(p) \/ GetRedirectRuleset(p) \/ ReadRule(p) \/ RefuseFetch(p)
    \/ WriteRedirectRuleset(p) \/ RefuseWrite(p)

\* Some rule to begin with; no call uses it.
AnyRule == [ref |-> <<>>, host |-> Zone, target |-> "", preservePath |-> FALSE,
            options |-> Defaults]

Init ==
    /\ \/ exists = FALSE /\ rules = <<>>
       \/ exists = TRUE /\ rules \in InitialRules
    /\ limbo = {}
    /\ pc = [p \in Ops |-> "ready"]
    /\ kind = [p \in Ops |-> "Read"]
    /\ spec = [p \in Ops |-> AnyRule]
    /\ refID = [p \in Ops |-> NoRef]
    /\ fetched = [p \in Ops |-> <<>>]
    /\ found = [p \in Ops |-> FALSE]
    /\ known = [p \in Ops |-> NoRef]
    /\ out = [p \in Ops |-> {}]
    /\ result = [p \in Ops |-> "none"]
    /\ disturbed = [p \in Ops |-> TRUE]
    /\ calls = 0 /\ faults = 0 /\ edits = 0

Next ==
    \/ \E p \in Ops :
          StartApply(p) \/ StartByRef(p) \/ Step(p) \/ Fail(p) \/ Lose(p)
    \/ \E req \in limbo : Arrive(req)
    \/ Outside

\* Every API call ends within the request timeout, so a running call goes on.
Spec == Init /\ [][Next]_vars /\ \A p \in Ops : WF_vars(Step(p))

=============================================================================
