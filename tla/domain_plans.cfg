SPECIFICATION Spec
CONSTANTS
    a1 = a1
    a2 = a2
    d1 = d1
    d2 = d2
    Callers = {c1}
    Names = {d1, d2}
    Accounts = {a1, a2}
    Registrant <- MCRegistrant
    Configs <- DomainConfigs
    NoDomain = NoDomain
    NoAccount = NoAccount
    NoOutput = NoOutput
    ParseError = ParseError
    MaxFaults = 1
    MaxOutside = 1
    MaxConfigs = 1
    MaxAccounts = 1
INVARIANTS TypeOK OnlyAsAsked CleanMeansDone
PROPERTY Converges
CHECK_DEADLOCK FALSE
