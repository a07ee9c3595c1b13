SPECIFICATION Spec
CONSTANTS
    Zone <- MCZone
    Defaults <- MCDefaults
    ParseError = ParseError
    NoRef = NoRef
    Ops = {p1}
    Kinds = {"Create", "Update"}
    Configs <- MovedConfigs
    InitialRules <- NoneRules
    OutsideRules = {}
    MaxCalls = 2
    MaxFaults = 0
    MaxLost = 0
    MaxOutside = 0
PROPERTY UpdateAddsNoRule
CHECK_DEADLOCK FALSE
