---------------------------- MODULE DomainSafety ----------------------------
(***************************************************************************)
(* What DomainDriver may and may not do to registrations, and where an     *)
(* engine that keeps planning gets to.                                     *)
(***************************************************************************)
EXTENDS DomainDriver

Jobs == [name : Names, value : Renewal]

\* Every variable holds values of its kind.
TypeOK ==
    /\ autoRenew \in [Names -> Renewal]
    /\ jobs \subseteq Jobs
    /\ accountID \in Account
    /\ config \in [Callers -> Configs]
    /\ state \in [Callers -> ResourceOutput \cup {NoOutput}]
    /\ pc \in [Callers -> {"ready", "planned", "GetRegistration", "Edit", "readDomain"}]
    /\ spec \in [Callers -> Configs]
    /\ target \in [Callers -> [domain : Domain, account : Accounts]]
    /\ asked \subseteq Jobs
    /\ outdated \in [Callers -> BOOLEAN]
    /\ faults \in 0..MaxFaults /\ edits \in 0..MaxOutside
    /\ configs \in 0..MaxConfigs /\ accounts \in 0..MaxAccounts

-----------------------------------------------------------------------------

\* The registrar is asked for no change but one that a config with
\* allow_auto_renew_update asked for, for that very domain: whatever happens to
\* the config, the account and the registration between plan, check and Edit
\* (Update of domain.go, README "Required before apply may change auto_renew").
OnlyAsAsked == jobs \subseteq asked

\* What the outputs of c say and what the registrar holds.
Declared(c) == Wanted(c) # "unset"
Agreed(c)   == autoRenew[state[c].domain.name] = Wanted(c)
Clean(c)    == Diff(config[c], accountID, state[c]) = "none"

\* When the plan is empty the registration is as the config says, although the
\* plan is made from outputs that Update read while its change was pending:
\* unless something other than the present config changed it since, or the
\* config changed while the outputs were stale (Diff and Update of domain.go).
CleanMeansDone ==
    \A c \in Callers : Clean(c) /\ Declared(c) /\ ~outdated[c] => Agreed(c)

\* The config, the account or the opt-in do not allow any change.
Hopeless(c) ==
    LET parsed == parseDomainSpec(config[c], accountID)
    IN  \/ state[c] = NoOutput
        \/ parsed = ParseError
        \/ parsed.domain.name # state[c].domain.name
        \/ parsed.account # state[c].account
        \/ ~parsed.allow

\* An engine that keeps planning ends with an empty plan, and the registration
\* is as declared, however its calls and the registrar's jobs fail: an update
\* whose result was not visible at once is not repeated for ever, and one that
\* failed is repeated.
Converges ==
    \A c \in Callers :
        <>[](\/ Hopeless(c)
             \/ outdated[c] /\ Clean(c)
             \/ Clean(c) /\ (Declared(c) => Agreed(c)))

=============================================================================
