SPECIFICATION Spec
CONSTANTS
    Zone <- MCZone
    Defaults <- MCDefaults
    ParseError = ParseError
    NoRef = NoRef
    Ops = {p1}
    Kinds = {"Update"}
    Configs <- OneConfig
    InitialRules <- DynamicRules
    OutsideRules = {}
    MaxCalls = 1
    MaxFaults = 0
    MaxLost = 0
    MaxOutside = 0
PROPERTY UnrelatedPreserved
CHECK_DEADLOCK FALSE
