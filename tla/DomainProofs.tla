---------------------------- MODULE DomainProofs ----------------------------
(***************************************************************************)
(* Proofs about DomainDriver, for any domains, accounts, configs and       *)
(* engines, and any number of failures and changes from outside.           *)
(***************************************************************************)
EXTENDS DomainSafety, TLAPS

\* A config that is accepted has a domain and an account (parseDomainSpec).
LEMMA ParsedTyped ==
    ASSUME NEW s \in ResourceSpec, NEW default \in Account
    PROVE  LET parsed == parseDomainSpec(s, default)
           IN  /\ parsed \in DomainSpec \cup {ParseError}
               /\ parsed # ParseError => /\ parsed.autoRenew = s.autoRenew
                                         /\ parsed.account \in Accounts
BY DomainConfigsAssumption
DEF parseDomainSpec, ResourceSpec, DomainSpec, Account

\* A plan that is not an error was made from outputs, and says "update" only of a
\* config that sets auto_renew (Diff).
LEMMA DiffMeans ==
    ASSUME NEW s \in ResourceSpec, NEW default \in Account,
           NEW output \in ResourceOutput \cup {NoOutput}
    PROVE  /\ Diff(s, default, output) \in {"none", "update"} => output # NoOutput
           /\ Diff(s, default, output) = "update" => s.autoRenew \in Renewal
           /\ Diff(s, default, output) = "none" =>
                  s.autoRenew \in {"unset", output.autoRenew}
<1> DEFINE parsed == parseDomainSpec(s, default)
<1>1. s.autoRenew \in Renewal \cup {"unset"}
  BY DEF ResourceSpec
<1>2. parsed # ParseError => parsed.autoRenew = s.autoRenew
  BY ParsedTyped
<1>3. CASE output = NoOutput \/ parsed = ParseError
  <2>1. Diff(s, default, output) = "error"
    BY <1>3 DEF Diff
  <2> QED BY <2>1
<1>4. CASE ~(output = NoOutput \/ parsed = ParseError)
  <2>1. /\ Diff(s, default, output) = "none" =>
              parsed.autoRenew \in {"unset", output.autoRenew}
        /\ Diff(s, default, output) = "update" =>
              parsed.autoRenew \notin {"unset", output.autoRenew}
    BY <1>4 DEF Diff
  <2> QED BY <1>1, <1>2, <1>4, <2>1
<1> QED BY <1>3, <1>4

\* The running calls: what is planned was asked for if the opt-in is given, the
\* call works on the domain it was planned for, and only a call with the
\* opt-in and a value comes to an Edit.
CallsOK ==
    \A c \in Callers :
        /\ pc[c] \in {"planned", "GetRegistration", "Edit"} =>
              /\ state[c] # NoOutput
              /\ spec[c].allow =>
                    Job(state[c].domain.name, spec[c].autoRenew) \in asked
        /\ pc[c] \in {"GetRegistration", "Edit"} => target[c].domain = state[c].domain
        /\ pc[c] = "Edit" => spec[c].allow /\ spec[c].autoRenew \in Renewal

\* Outputs that nothing outdated show what the registrar holds, or what it held
\* before it made the change the present config asks for.
OutputsOK ==
    \A c \in Callers :
        state[c] # NoOutput /\ ~outdated[c] =>
            autoRenew[state[c].domain.name] \in {state[c].autoRenew, Wanted(c)}

IInv == TypeOK /\ CallsOK /\ OnlyAsAsked /\ OutputsOK

-----------------------------------------------------------------------------

\* Nothing was asked, nothing is stored and no call runs.
LEMMA InitIInv == Init => IInv
<1> SUFFICES ASSUME Init PROVE IInv
  OBVIOUS
<1>1. target \in [Callers -> [domain : Domain, account : Accounts]]
  BY RegistrarAssumption DEF Init, Domain
<1>2. TypeOK
  BY <1>1, DomainBoundsAssumption DEF Init, TypeOK
<1> QED BY <1>2 DEF Init, IInv, CallsOK, OnlyAsAsked, OutputsOK

\* Types are kept by every step; an Edit is only reached with a value, which
\* OnlyAsAsked and CallsOK know.
LEMMA NextTyped == IInv /\ Next => TypeOK'
<1> SUFFICES ASSUME IInv, Next PROVE TypeOK'
  OBVIOUS
<1> USE DEF IInv, TypeOK, boundVars, callVars, registrarVars
<1>0. Configs \subseteq ResourceSpec
  BY DomainConfigsAssumption
<1>1. ASSUME NEW c \in Callers, NEW domain \in Domain, Import(c, domain)
      PROVE  TypeOK'
  <2>1. CASE accountID = NoAccount
    BY <1>1, <2>1 DEF Import
  <2>2. CASE accountID # NoAccount
    <3>1. [domain |-> domain, account |-> accountID]
              \in [domain : Domain, account : Accounts]
      BY <2>2 DEF Account
    <3> QED BY <1>1, <2>2, <3>1 DEF Import, Goto
  <2> QED BY <2>1, <2>2
<1>2. ASSUME NEW c \in Callers, Plan(c)
      PROVE  TypeOK'
  <2>1. CASE Diff(config[c], accountID, state[c]) = "update"
    <3>1. state[c] \in ResourceOutput /\ Wanted(c) \in Renewal
      BY <1>0, <2>1, DiffMeans DEF Wanted
    <3>2. Job(state[c].domain.name, Wanted(c)) \in Jobs
      BY <3>1 DEF ResourceOutput, Domain, Job, Jobs
    <3>3. /\ pc' = [pc EXCEPT ![c] = "planned"]
          /\ spec' = [spec EXCEPT ![c] = config[c]]
          /\ asked' \in {asked, asked \cup {Job(state[c].domain.name, Wanted(c))}}
      BY <1>2, <2>1 DEF Plan, Goto
    <3> QED BY <1>2, <3>2, <3>3 DEF Plan
  <2>2. CASE Diff(config[c], accountID, state[c]) # "update"
    BY <1>2, <2>2 DEF Plan
  <2> QED BY <2>1, <2>2
<1>3. ASSUME NEW c \in Callers, Update(c)
      PROVE  TypeOK'
  <2> DEFINE parsed == parseDomainSpec(spec[c], accountID)
  <2>1. CASE parsed = ParseError \/ ~EqualFold(state[c].domain, parsed.domain)
    BY <1>3, <2>1 DEF Update, Return, Goto
  <2>2. CASE ~(parsed = ParseError \/ ~EqualFold(state[c].domain, parsed.domain))
    <3>1. parsed.account \in Accounts
      BY <1>0, <2>2, ParsedTyped
    <3>2. state[c].domain \in Domain
      BY <1>3 DEF Update, CallsOK, ResourceOutput
    <3>3. [domain |-> state[c].domain, account |-> parsed.account]
              \in [domain : Domain, account : Accounts]
      BY <3>1, <3>2
    <3>4. /\ pc' = [pc EXCEPT ![c] = "GetRegistration"]
          /\ target' = [target EXCEPT ![c] =
                [domain |-> state[c].domain, account |-> parsed.account]]
      BY <1>3, <2>2 DEF Update, Goto
    <3> HIDE DEF parsed
    <3> QED BY <1>3, <3>3, <3>4 DEF Update
  <2> QED BY <2>1, <2>2
<1>4. ASSUME NEW c \in Callers, CheckCurrent(c)
      PROVE  TypeOK'
  BY <1>4 DEF CheckCurrent, Goto
<1>5. ASSUME NEW c \in Callers, pc[c] = "Edit"
      PROVE  Wish(c) \in Jobs
  BY <1>5 DEF CallsOK, Wish, Job, Jobs, Domain
<1>6. ASSUME NEW c \in Callers, UpdateRegistrationAutoRenew(c)
      PROVE  TypeOK'
  BY <1>5, <1>6 DEF UpdateRegistrationAutoRenew, Goto
<1>7. ASSUME NEW c \in Callers, readDomain(c)
      PROVE  TypeOK'
  <2>1. domainOutput(c) \in ResourceOutput
    BY DEF domainOutput, ResourceOutput, Domain
  <2> QED BY <1>7, <2>1 DEF readDomain, Return, Goto
<1>8. ASSUME NEW c \in Callers, Refused(c)
      PROVE  TypeOK'
  BY <1>8 DEF Refused, Return, Goto
<1>9. ASSUME NEW c \in Callers, Fail(c)
      PROVE  TypeOK'
  BY <1>5, <1>9, DomainBoundsAssumption DEF Fail, Return, Goto
<1>10. ASSUME NEW c \in Callers, ChangeConfig(c)
       PROVE  TypeOK'
  BY <1>10, DomainBoundsAssumption DEF ChangeConfig
<1>11. ASSUME NEW job \in jobs, CompleteJob(job) \/ FailJob(job)
       PROVE  TypeOK'
  <2>1. job.name \in Names /\ job.value \in Renewal
    BY DEF Jobs
  <2>2. CASE CompleteJob(job)
    <3>1. autoRenew' \in [Names -> Renewal] /\ outdated' \in [Callers -> BOOLEAN]
      BY <2>1, <2>2 DEF CompleteJob
    <3> QED BY <2>2, <3>1 DEF CompleteJob
  <2>3. CASE FailJob(job)
    BY <2>3, DomainBoundsAssumption DEF FailJob
  <2> QED BY <1>11, <2>2, <2>3
<1>12. ASSUME NEW name \in Names, Dashboard(name)
       PROVE  TypeOK'
  BY <1>12, DomainBoundsAssumption DEF Dashboard, Renewal
<1>13. CASE ChangeAccount
  BY <1>13, DomainBoundsAssumption DEF ChangeAccount
<1> QED BY <1>1, <1>2, <1>3, <1>4, <1>6, <1>7, <1>8, <1>9, <1>10, <1>11, <1>12,
           <1>13 DEF Next, Step

\* A plan asks before its call exists, and nothing that CallsOK speaks of
\* changes under a call that runs: outputs are only stored by its last step.
LEMMA NextAsking == IInv /\ Next => (CallsOK /\ OnlyAsAsked)'
<1> SUFFICES ASSUME IInv, Next PROVE (CallsOK /\ OnlyAsAsked)'
  OBVIOUS
<1> USE DEF IInv, TypeOK, CallsOK, OnlyAsAsked, boundVars, callVars, registrarVars
<1>0. Configs \subseteq ResourceSpec
  BY DomainConfigsAssumption
<1>1. ASSUME NEW c \in Callers, NEW domain \in Domain, Import(c, domain)
      PROVE  (CallsOK /\ OnlyAsAsked)'
  BY <1>1 DEF Import, Goto
<1>2. ASSUME NEW c \in Callers, Plan(c)
      PROVE  (CallsOK /\ OnlyAsAsked)'
  <2>1. CASE Diff(config[c], accountID, state[c]) = "update"
    <3>1. state[c] # NoOutput
      BY <1>0, <2>1, DiffMeans
    <3>2. /\ pc[c] = "ready" /\ pc' = [pc EXCEPT ![c] = "planned"]
          /\ spec' = [spec EXCEPT ![c] = config[c]]
          /\ asked' = IF config[c].allow
                      THEN asked \cup {Job(state[c].domain.name, config[c].autoRenew)}
                      ELSE asked
          /\ UNCHANGED <<jobs, state, target>>
      BY <1>2, <2>1 DEF Plan, Goto, Wanted
    <3> QED BY <3>1, <3>2
  <2>2. CASE Diff(config[c], accountID, state[c]) # "update"
    BY <1>2, <2>2 DEF Plan
  <2> QED BY <2>1, <2>2
<1>3. ASSUME NEW c \in Callers, Update(c)
      PROVE  (CallsOK /\ OnlyAsAsked)'
  <2> DEFINE parsed == parseDomainSpec(spec[c], accountID)
             t == [domain |-> state[c].domain, account |-> parsed.account]
  <2>1. \/ pc' = [pc EXCEPT ![c] = "ready"] /\ UNCHANGED target
        \/ pc' = [pc EXCEPT ![c] = "GetRegistration"] /\ target' = [target EXCEPT ![c] = t]
    BY <1>3 DEF Update, Return, Goto
  <2>2. t.domain = state[c].domain
    OBVIOUS
  <2> HIDE DEF t, parsed
  <2> QED BY <1>3, <2>1, <2>2 DEF Update
<1>4. ASSUME NEW c \in Callers, CheckCurrent(c)
      PROVE  (CallsOK /\ OnlyAsAsked)'
  <2>1. NeedsEdit(c) => spec[c].autoRenew \in Renewal
    BY <1>0 DEF NeedsEdit, ResourceSpec
  <2> QED BY <1>4, <2>1 DEF CheckCurrent, Goto
<1>5. ASSUME NEW c \in Callers, pc[c] = "Edit"
      PROVE  Wish(c) \in asked
  BY <1>5 DEF Wish
<1>6. ASSUME NEW c \in Callers, UpdateRegistrationAutoRenew(c)
      PROVE  (CallsOK /\ OnlyAsAsked)'
  BY <1>5, <1>6 DEF UpdateRegistrationAutoRenew, Goto
<1>7. ASSUME NEW c \in Callers, readDomain(c)
      PROVE  (CallsOK /\ OnlyAsAsked)'
  BY <1>7 DEF readDomain, Return, Goto
<1>8. ASSUME NEW c \in Callers, Refused(c)
      PROVE  (CallsOK /\ OnlyAsAsked)'
  BY <1>8 DEF Refused, Return, Goto
<1>9. ASSUME NEW c \in Callers, Fail(c)
      PROVE  (CallsOK /\ OnlyAsAsked)'
  BY <1>5, <1>9 DEF Fail, Return, Goto
<1>10. ASSUME NEW c \in Callers, ChangeConfig(c)
       PROVE  (CallsOK /\ OnlyAsAsked)'
  BY <1>10 DEF ChangeConfig
<1>11. ASSUME NEW job \in jobs, CompleteJob(job) \/ FailJob(job)
       PROVE  (CallsOK /\ OnlyAsAsked)'
  BY <1>11 DEF CompleteJob, FailJob
<1>12. ASSUME NEW name \in Names, Dashboard(name)
       PROVE  (CallsOK /\ OnlyAsAsked)'
  BY <1>12 DEF Dashboard
<1>13. CASE ChangeAccount
  BY <1>13 DEF ChangeAccount
<1> QED BY <1>1, <1>2, <1>3, <1>4, <1>6, <1>7, <1>8, <1>9, <1>10, <1>11, <1>12,
           <1>13 DEF Next, Step

\* Only the registrar, the dashboard, a new config and a read touch what
\* OutputsOK relates; each either keeps it or marks the outputs as outdated.
LEMMA NextOutputs == IInv /\ Next => OutputsOK'
<1> SUFFICES ASSUME IInv, Next PROVE OutputsOK'
  OBVIOUS
<1> USE DEF IInv, TypeOK, OutputsOK, Wanted, registrarVars, boundVars, callVars
<1>1. ASSUME NEW job \in jobs, CompleteJob(job)
      PROVE  OutputsOK'
  <2> SUFFICES ASSUME NEW c \in Callers, state[c] # NoOutput, ~outdated'[c]
               PROVE  autoRenew'[state[c].domain.name]
                          \in {state[c].autoRenew, config[c].autoRenew}
    BY <1>1 DEF CompleteJob
  <2>1. job.name \in Names /\ state[c].domain.name \in Names
    BY DEF Jobs, ResourceOutput, Domain
  <2>2. ~outdated[c] /\ (c \in About(job.name) => config[c].autoRenew = job.value)
    BY <1>1 DEF CompleteJob
  <2>3. CASE state[c].domain.name = job.name
    <3>1. c \in About(job.name)
      BY <2>3 DEF About
    <3> QED BY <1>1, <2>1, <2>2, <2>3, <3>1 DEF CompleteJob
  <2>4. CASE state[c].domain.name # job.name
    BY <1>1, <2>1, <2>2, <2>4 DEF CompleteJob
  <2> QED BY <2>3, <2>4
<1>2. ASSUME NEW name \in Names, Dashboard(name)
      PROVE  OutputsOK'
  <2> SUFFICES ASSUME NEW c \in Callers, state[c] # NoOutput, ~outdated'[c]
               PROVE  autoRenew'[state[c].domain.name]
                          \in {state[c].autoRenew, config[c].autoRenew}
    BY <1>2 DEF Dashboard
  <2>1. ~outdated[c] /\ c \notin About(name)
    BY <1>2 DEF Dashboard
  <2>2. state[c].domain.name # name
    BY <2>1 DEF About
  <2> QED BY <1>2, <2>1, <2>2 DEF Dashboard
<1>3. ASSUME NEW c \in Callers, ChangeConfig(c)
      PROVE  OutputsOK'
  BY <1>3 DEF ChangeConfig
<1>4. ASSUME NEW c \in Callers, readDomain(c)
      PROVE  OutputsOK'
  <2>1. /\ domainOutput(c).autoRenew = autoRenew[target[c].domain.name]
        /\ domainOutput(c).domain.name = target[c].domain.name
    BY DEF domainOutput
  <2>2. /\ state' = [state EXCEPT ![c] = domainOutput(c)]
        /\ outdated' = [outdated EXCEPT ![c] = FALSE]
        /\ UNCHANGED <<autoRenew, config>>
    BY <1>4 DEF readDomain
  <2> QED BY <2>1, <2>2
<1>5. CASE UNCHANGED <<autoRenew, state, config, outdated>>
  BY <1>5
<1>6. \/ \E job \in jobs : CompleteJob(job)
      \/ \E name \in Names : Dashboard(name)
      \/ \E c \in Callers : ChangeConfig(c) \/ readDomain(c)
      \/ UNCHANGED <<autoRenew, state, config, outdated>>
  BY DEF Next, Step, Import, Plan, Update, CheckCurrent,
     UpdateRegistrationAutoRenew, Refused, Fail, FailJob, ChangeAccount
<1> QED BY <1>1, <1>2, <1>3, <1>4, <1>5, <1>6

\* Steps that change nothing keep everything.
LEMMA StutterIInv == IInv /\ UNCHANGED vars => IInv'
BY DEF IInv, TypeOK, CallsOK, OnlyAsAsked, OutputsOK, Wanted, vars, callVars,
       boundVars, registrarVars

-----------------------------------------------------------------------------

\* Every reachable state satisfies the invariant.
THEOREM DomainInvariant == Spec => []IInv
<1>1. Init => IInv
  BY InitIInv
<1>2. IInv /\ [Next]_vars => IInv'
  <2>1. IInv /\ Next => IInv'
    BY NextTyped, NextAsking, NextOutputs DEF IInv
  <2> QED BY <2>1, StutterIInv
<1> QED BY <1>1, <1>2, PTL DEF Spec

\* Every variable of DomainDriver holds values of its kind.
THEOREM DomainTypeCorrect == Spec => []TypeOK
<1>1. IInv => TypeOK
  BY DEF IInv
<1> QED BY <1>1, DomainInvariant, PTL

\* The registrar is only asked for what a config with the opt-in asked for.
THEOREM ChangesOnlyAsAsked == Spec => []OnlyAsAsked
<1>1. IInv => OnlyAsAsked
  BY DEF IInv
<1> QED BY <1>1, DomainInvariant, PTL

\* An empty plan means that the registration is as declared, if nothing
\* outdated the outputs the plan was made from.
THEOREM EmptyPlanMeansDone == Spec => []CleanMeansDone
<1>1. IInv => CleanMeansDone
  <2> SUFFICES ASSUME IInv, NEW c \in Callers,
                      Clean(c), Declared(c), ~outdated[c]
               PROVE  Agreed(c)
    BY DEF CleanMeansDone
  <2>1. config[c] \in ResourceSpec /\ accountID \in Account
    BY DomainConfigsAssumption DEF IInv, TypeOK
  <2>2. state[c] # NoOutput /\ Wanted(c) = state[c].autoRenew
    BY <2>1, DiffMeans DEF Clean, Declared, Wanted, IInv, TypeOK
  <2> QED BY <2>2 DEF Agreed, IInv, OutputsOK
<1> QED BY <1>1, DomainInvariant, PTL

=============================================================================
