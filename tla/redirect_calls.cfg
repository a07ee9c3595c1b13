SPECIFICATION Spec
CONSTANTS
    Zone <- MCZone
    Defaults <- MCDefaults
    ParseError = ParseError
    NoRef = NoRef
    Ops = {p1, p2}
    Kinds = {"Create", "Read", "Update", "Delete"}
    Configs <- CallConfigs
    InitialRules <- CallRules
    OutsideRules <- CallOutside
    MaxCalls = 3
    MaxFaults = 1
    MaxLost = 1
    MaxOutside = 1
INVARIANTS TypeOK NoSharedRef
PROPERTIES OthersPreserved CreationLosesNothing NoDriftAfterWrite
CHECK_DEADLOCK FALSE
