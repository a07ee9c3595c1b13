---------------------------- MODULE DomainDriver ----------------------------
(***************************************************************************)
(* DomainDriver of internal/drivers/domain.go under an engine: a domain is *)
(* imported, and then planned and updated as its config says, while the    *)
(* registrar carries out accepted changes of auto_renew at a time of its   *)
(* own, and the dashboard, the config and the provider's account change.   *)
(*                                                                         *)
(* The engine plans from the outputs it has stored and does not read the   *)
(* domain again by itself.  One action is one API call.                    *)
(***************************************************************************)
EXTENDS Naturals

CONSTANTS Callers,     \* engines, each with a resource of its own
          Names,       \* registered domains
          Accounts,    \* registrar accounts
          Registrant,  \* the account that holds a domain
          Configs,     \* what the config of the resource may say
          NoDomain, NoAccount, NoOutput, ParseError,
          MaxFaults,   \* API calls and registrar jobs that may fail
          MaxOutside,  \* changes made in the dashboard
          MaxConfigs,  \* changes of a config
          MaxAccounts  \* changes of the provider's account

\* A domain name is a name and whether it is written with capitals.
Domain   == [name : Names, upper : BOOLEAN]
Renewal  == {"on", "off"}
Account  == Accounts \cup {NoAccount}

\* The config of a resource; typed: the values that are there have their types.
ResourceSpec == [name      : Domain \cup {NoDomain},
                 domain    : Domain \cup {NoDomain},
                 account   : Account,
                 autoRenew : Renewal \cup {"unset"},
                 allow     : BOOLEAN,
                 typed     : BOOLEAN]

DomainSpec == [domain : Domain, account : Accounts,
               autoRenew : Renewal \cup {"unset"}, allow : BOOLEAN]

ResourceOutput == [account : Accounts, domain : Domain, autoRenew : Renewal]

ASSUME RegistrarAssumption ==
    /\ Names # {} /\ Accounts # {}
    /\ Registrant \in [Names -> Accounts]
    /\ NoAccount \notin Accounts
    /\ NoDomain \notin Domain
    /\ NoOutput \notin ResourceOutput

ASSUME DomainConfigsAssumption ==
    /\ Configs # {}
    /\ Configs \subseteq ResourceSpec
    /\ ParseError \notin DomainSpec

ASSUME DomainBoundsAssumption ==
    /\ MaxFaults \in Nat /\ MaxOutside \in Nat
    /\ MaxConfigs \in Nat /\ MaxAccounts \in Nat

VARIABLES autoRenew, \* at the registrar, by domain
          jobs,      \* changes the registrar has accepted and not yet made
          accountID, \* the account of the provider's config
          config,    \* the engine's config of the resource
          state,     \* the outputs the engine has stored
          pc,        \* where a call is; "ready" between two calls
          spec,      \* the config the plan was made for, then as parsed
          target,    \* domain and account the call works on
          asked,     \* history: changes that configs with the opt-in asked for
          outdated,  \* history: something else changed what was stored
          faults, edits, configs, accounts

registrarVars == <<autoRenew, jobs>>
callVars == <<spec, target>>
boundVars == <<faults, edits, configs, accounts>>
vars == <<registrarVars, accountID, config, state, pc, callVars, asked,
          outdated, boundVars>>

-----------------------------------------------------------------------------
(* Configs and diff *)

\* Variant: names are compared with their capitals.
EqualFoldExactly(d, e) == d = e

EqualFold(d, e) == d.name = e.name

parseDomainSpec(s, default) ==
    LET domain  == IF s.domain # NoDomain THEN s.domain ELSE s.name
        account == IF s.account # NoAccount THEN s.account ELSE default
    IN  IF ~s.typed \/ domain = NoDomain \/ account = NoAccount THEN ParseError
        ELSE [domain |-> domain, account |-> account,
              autoRenew |-> s.autoRenew, allow |-> s.allow]

\* What Diff says of a config and stored outputs.  The outputs of the update
\* in progress are not looked at.
Diff(s, default, output) ==
    LET parsed == parseDomainSpec(s, default)
    IN  IF output = NoOutput \/ parsed = ParseError THEN "error"
        ELSE IF \/ ~EqualFold(output.domain, parsed.domain)
                \/ output.account # parsed.account THEN "replace"
        ELSE IF parsed.autoRenew \in {"unset", output.autoRenew} THEN "none"
        ELSE "update"

-----------------------------------------------------------------------------
(* The registrar *)

GetRegistration(t) == Registrant[t.domain.name] = t.account

Job(name, value) == [name |-> name, value |-> value]

Wanted(c) == config[c].autoRenew

\* The engines whose outputs are about a domain.
About(name) == {c \in Callers : state[c] # NoOutput /\ state[c].domain.name = name}

\* An accepted change is made.
CompleteJob(job) ==
    /\ job \in jobs
    /\ jobs' = jobs \ {job}
    /\ autoRenew' = [autoRenew EXCEPT ![job.name] = job.value]
    /\ outdated' = [c \in Callers |->
                       \/ outdated[c]
                       \/ c \in About(job.name) /\ Wanted(c) # job.value]
    /\ UNCHANGED <<accountID, config, state, pc, callVars, asked, boundVars>>

\* An accepted change fails for good.
FailJob(job) ==
    /\ job \in jobs
    /\ faults < MaxFaults
    /\ faults' = faults + 1
    /\ jobs' = jobs \ {job}
    /\ UNCHANGED <<autoRenew, accountID, config, state, pc, callVars,
                   asked, outdated, edits, configs, accounts>>

\* Someone changes auto_renew in the dashboard.
Dashboard(name) ==
    /\ edits < MaxOutside
    /\ edits' = edits + 1
    /\ autoRenew' = [autoRenew EXCEPT ![name] = IF @ = "on" THEN "off" ELSE "on"]
    /\ outdated' = [c \in Callers |-> outdated[c] \/ c \in About(name)]
    /\ UNCHANGED <<jobs, accountID, config, state, pc, callVars, asked,
                   faults, configs, accounts>>

-----------------------------------------------------------------------------
(* Calls *)

Goto(c, label) == pc' = [pc EXCEPT ![c] = label]

Return(c) == Goto(c, "ready")

\* Variant: the account is not required.
ImportUnchecked(c, domain) ==
    /\ pc[c] = "ready"
    /\ target' = [target EXCEPT ![c] = [domain |-> domain, account |-> accountID]]
    /\ Goto(c, "readDomain")
    /\ UNCHANGED <<registrarVars, accountID, config, state, spec, asked,
                   outdated, boundVars>>

\* Read of an existing domain, by Import or adoption: the ProviderID is a domain
\* name, the account that of the provider's config.
Import(c, domain) ==
    /\ pc[c] = "ready"
    /\ IF accountID = NoAccount
       THEN UNCHANGED <<pc, target>>
       ELSE /\ target' = [target EXCEPT ![c] =
                             [domain |-> domain, account |-> accountID]]
            /\ Goto(c, "readDomain")
    /\ UNCHANGED <<registrarVars, accountID, config, state, spec, asked,
                   outdated, boundVars>>

\* Diff for the stored outputs.  Of a replacement, Delete and Create both refuse.
Plan(c) ==
    /\ pc[c] = "ready"
    /\ LET diff == Diff(config[c], accountID, state[c])
       IN  IF diff = "update"
           THEN /\ Goto(c, "planned")
                /\ spec' = [spec EXCEPT ![c] = config[c]]
                /\ asked' = IF config[c].allow
                            THEN asked \cup {Job(state[c].domain.name, Wanted(c))}
                            ELSE asked
           ELSE UNCHANGED <<pc, spec, asked>>
    /\ UNCHANGED <<registrarVars, accountID, config, state, target, outdated,
                   boundVars>>

\* Update of the planned config; the account may be another one by now.
Update(c) ==
    /\ pc[c] = "planned"
    /\ LET parsed == parseDomainSpec(spec[c], accountID)
       IN  IF parsed = ParseError \/ ~EqualFold(state[c].domain, parsed.domain)
           THEN Return(c) /\ UNCHANGED target
           ELSE /\ target' = [target EXCEPT ![c] =
                       [domain |-> state[c].domain, account |-> parsed.account]]
                /\ Goto(c, "GetRegistration")
    /\ UNCHANGED <<registrarVars, accountID, config, state, spec, asked,
                   outdated, boundVars>>

NeedsEdit(c) == spec[c].autoRenew \notin {"unset", autoRenew[target[c].domain.name]}

\* Variant: the opt-in is not looked at.
CheckCurrentUnasked(c) ==
    /\ pc[c] = "GetRegistration"
    /\ GetRegistration(target[c])
    /\ Goto(c, IF NeedsEdit(c) THEN "Edit" ELSE "readDomain")
    /\ UNCHANGED <<registrarVars, accountID, config, state, callVars, asked,
                   outdated, boundVars>>

CheckCurrent(c) ==
    /\ pc[c] = "GetRegistration"
    /\ GetRegistration(target[c])
    /\ Goto(c, IF ~NeedsEdit(c) THEN "readDomain"
               ELSE IF spec[c].allow THEN "Edit"
               ELSE "ready")
    /\ UNCHANGED <<registrarVars, accountID, config, state, callVars, asked,
                   outdated, boundVars>>

\* The job an Edit asks for.
Wish(c) == Job(target[c].domain.name, spec[c].autoRenew)

\* Variant: the answer is stored as if the change were made.
UpdateBelieved(c) ==
    /\ pc[c] = "Edit"
    /\ jobs' = jobs \cup {Wish(c)}
    /\ state' = [state EXCEPT ![c].autoRenew = spec[c].autoRenew]
    /\ Return(c)
    /\ UNCHANGED <<autoRenew, accountID, config, callVars, asked, outdated,
                   boundVars>>

\* The registrar accepts the change, which it is to make later.
UpdateRegistrationAutoRenew(c) ==
    /\ pc[c] = "Edit"
    /\ jobs' = jobs \cup {Wish(c)}
    /\ Goto(c, "readDomain")
    /\ UNCHANGED <<autoRenew, accountID, config, state, callVars, asked,
                   outdated, boundVars>>

\* What is read, in the registrar's spelling of the domain.
domainOutput(c) ==
    [account |-> target[c].account,
     domain  |-> [name |-> target[c].domain.name, upper |-> FALSE],
     autoRenew |-> autoRenew[target[c].domain.name]]

\* Import and Update end with a read, and the engine stores what it shows.
\* Errors of the two status requests are ignored.
readDomain(c) ==
    /\ pc[c] = "readDomain"
    /\ GetRegistration(target[c])
    /\ state' = [state EXCEPT ![c] = domainOutput(c)]
    /\ outdated' = [outdated EXCEPT ![c] = FALSE]
    /\ Return(c)
    /\ UNCHANGED <<registrarVars, accountID, config, callVars, asked, boundVars>>

\* The account does not hold the domain, or the registrar takes no second
\* change while one is pending.
Refused(c) ==
    /\ \/ pc[c] \in {"GetRegistration", "readDomain"} /\ ~GetRegistration(target[c])
       \/ pc[c] = "Edit" /\ \E job \in jobs : job.name = target[c].domain.name
    /\ Return(c)
    /\ UNCHANGED <<registrarVars, accountID, config, state, callVars, asked,
                   outdated, boundVars>>

\* An API call fails, or the engine gives up on it; an Edit may have been accepted.
Fail(c) ==
    /\ pc[c] \in {"GetRegistration", "Edit", "readDomain"}
    /\ faults < MaxFaults
    /\ faults' = faults + 1
    /\ \/ UNCHANGED jobs
       \/ pc[c] = "Edit" /\ jobs' = jobs \cup {Wish(c)}
    /\ Return(c)
    /\ UNCHANGED <<autoRenew, accountID, config, state, callVars, asked, outdated,
                   edits, configs, accounts>>

-----------------------------------------------------------------------------
(* What changes around the calls *)

\* The author of a config changes it; what is stored may be stale, and a change
\* that was asked for under the old config may be pending.
ChangeConfig(c) ==
    /\ configs < MaxConfigs
    /\ configs' = configs + 1
    /\ \E s \in Configs : config' = [config EXCEPT ![c] = s]
    /\ outdated' = [outdated EXCEPT ![c] =
          \/ @
          \/ /\ state[c] # NoOutput
             /\ state[c].autoRenew # autoRenew[state[c].domain.name]]
    /\ UNCHANGED <<registrarVars, accountID, state, pc, callVars, asked,
                   faults, edits, accounts>>

\* Initialize with another config makes a new driver; running calls keep theirs.
ChangeAccount ==
    /\ accounts < MaxAccounts
    /\ accounts' = accounts + 1
    /\ accountID' \in Account
    /\ UNCHANGED <<registrarVars, config, state, pc, callVars, asked,
                   outdated, faults, edits, configs>>

-----------------------------------------------------------------------------

\* The steps in which a running call makes an API call or moves on.
Step(c) ==
    \/ Update(c) \/ CheckCurrent(c) \/ UpdateRegistrationAutoRenew(c)
    \/ readDomain(c) \/ Refused(c)

Init ==
    /\ autoRenew \in [Names -> Renewal]
    /\ jobs = {}
    /\ accountID \in Account
    /\ config \in [Callers -> Configs]
    /\ state = [c \in Callers |-> NoOutput]
    /\ pc = [c \in Callers |-> "ready"]
    /\ spec = config
    /\ target = [c \in Callers |->
                    [domain |-> [name |-> CHOOSE n \in Names : TRUE, upper |-> FALSE],
                     account |-> CHOOSE a \in Accounts : TRUE]]
    /\ asked = {}
    /\ outdated = [c \in Callers |-> FALSE]
    /\ faults = 0 /\ edits = 0 /\ configs = 0 /\ accounts = 0

Next ==
    \/ \E c \in Callers :
          \/ \E domain \in Domain : Import(c, domain)
          \/ Plan(c) \/ Step(c) \/ Fail(c) \/ ChangeConfig(c)
    \/ \E job \in jobs : CompleteJob(job) \/ FailJob(job)
    \/ \E name \in Names : Dashboard(name)
    \/ ChangeAccount

\* The engine keeps planning, between imports too, and finishes its calls, and
\* the registrar decides about every change it accepted.
Spec ==
    /\ Init /\ [][Next]_vars
    /\ \A c \in Callers : SF_vars(Plan(c)) /\ WF_vars(Step(c))
    /\ \A name \in Names, value \in Renewal : WF_vars(CompleteJob(Job(name, value)))

=============================================================================
