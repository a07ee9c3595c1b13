---------------------------- MODULE RedirectRule ----------------------------
(***************************************************************************)
(* Redirect rules as internal/drivers/redirect.go parses, names, edits,    *)
(* sends and reads them.                                                   *)
(*                                                                         *)
(* A host is [words, dashed]: the words between dots and dashes, and the   *)
(* positions after which a dash stands, a dot everywhere else.  A rule of  *)
(* the service has its target in one of three forms: a fixed "value", a    *)
(* "concat" of a fixed value and the request's path, or another "dynamic"  *)
(* expression.  The driver knows only preservePath.                        *)
(***************************************************************************)
EXTENDS Integers, Sequences, FiniteSets

CONSTANTS Zone,      \* the zone's name, a host
          Defaults,  \* status code, query string and enabled of a bare config
          ParseError

Hosts == [words : Seq(STRING), dashed : SUBSET Nat]

ASSUME HostAssumption == Zone \in Hosts /\ Defaults \in STRING

\* Literals are strings, which TLC knows and the provers do not.
ASSUME StringAssumption == {"", "workflow_redirect"} \subseteq STRING

\* A rule as Cloudflare keeps it.
ServiceRule ==
    [ref : Seq(STRING), host : Hosts, target : STRING,
     form : {"value", "concat", "dynamic"}, options : STRING]

\* A RedirectRule of the driver.
DriverRule ==
    [ref : Seq(STRING), host : Hosts, target : STRING,
     preservePath : BOOLEAN, options : STRING]

-----------------------------------------------------------------------------
(* The config of a resource *)

\* Every run of other characters becomes one "_".
redirectRefForHost(host) == <<"workflow_redirect">> \o host.words

\* A config sets some of the fields host, target, preservePath, options and
\* ref; "ill" holds those whose value is not valid.  The result is the rule of
\* the parsed spec.
parseRedirectSpec(config) ==
    LET Field(f, default) == IF f \in DOMAIN config THEN config[f] ELSE default
        host == Field("host", Zone)
    IN  IF config.ill # {} \/ "target" \notin DOMAIN config THEN ParseError
        ELSE [ref |-> Field("ref", redirectRefForHost(host)), host |-> host,
              target |-> config.target,
              preservePath |-> Field("preservePath", TRUE),
              options |-> Field("options", Defaults)]

-----------------------------------------------------------------------------
(* Lists of rules *)

RefIn(ref, rules) == \E i \in DOMAIN rules : rules[i].ref = ref

\* Variant: a rule that is there already is added again.
upsertAppending(rules, desired) == Append(rules, desired)

upsertRedirectRule(rules, desired) ==
    IF RefIn(desired.ref, rules)
    THEN [i \in DOMAIN rules |->
             IF rules[i].ref = desired.ref THEN desired ELSE rules[i]]
    ELSE Append(rules, desired)

\* The rules that have none of some refs, in their order.
RulesBut(rules, refs) ==
    LET kept[n \in 0..Len(rules)] ==
            IF n = 0 THEN <<>>
            ELSE IF rules[n].ref \in refs THEN kept[n - 1]
            ELSE Append(kept[n - 1], rules[n])
    IN  kept[Len(rules)]

\* Variant: the rest of the list goes, not the rule.
withoutOthers(rules, ref) ==
    LET gone(rule) == rule.ref = ref IN SelectSeq(rules, gone)

\* The filter of Delete.
withoutRule(rules, ref) == RulesBut(rules, {ref})

\* The first rule of a ref, as a set of at most one.
findRedirectRule(rules, ref) ==
    {rules[i] : i \in {j \in DOMAIN rules :
                          /\ rules[j].ref = ref
                          /\ \A k \in 1..(j - 1) : rules[k].ref # ref}}

-----------------------------------------------------------------------------
(* To the service and back *)

\* Variant: the path is always dropped.
redirectRuleParamFixed(rule) ==
    [ref |-> rule.ref, host |-> rule.host, target |-> rule.target,
     form |-> "value", options |-> rule.options]

\* Variant: the target is left out when the path is not kept.
redirectRuleParamUnset(rule) ==
    [ref |-> rule.ref, host |-> rule.host, target |-> rule.target,
     form |-> IF rule.preservePath THEN "concat" ELSE "unset",
     options |-> rule.options]

redirectRuleParam(rule) ==
    [ref |-> rule.ref, host |-> rule.host, target |-> rule.target,
     form |-> IF rule.preservePath THEN "concat" ELSE "value",
     options |-> rule.options]

\* Every expression but the driver's own concat is taken for a fixed target.
redirectRuleFromPhase(rule) ==
    [ref |-> rule.ref, host |-> rule.host, target |-> rule.target,
     preservePath |-> rule.form = "concat", options |-> rule.options]

Sent(rules)    == [i \in DOMAIN rules |-> redirectRuleParam(rules[i])]
Fetched(rules) == [i \in DOMAIN rules |-> redirectRuleFromPhase(rules[i])]

\* What Diff compares: everything of the rule's output but its ref.
diffRedirectOutput(current, desired) ==
    {f \in {"host", "target", "preservePath", "options"} :
        current[f] # desired[f]}

=============================================================================
