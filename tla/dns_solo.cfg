SPECIFICATION Spec
CONSTANTS
    Domain <- MCDomain
    DomainData <- MCDomainData
    MarkerData <- MCMarkerData
    IPv4 <- MCIPv4
    IPv6 <- MCIPv6
    NoList = NoList
    ParseError = ParseError
    NoRecord = NoRecord
    Ops = {p1}
    Kinds = {"Create", "Read", "Update", "Delete"}
    Specs <- SoloSpecs
    InitialZones <- SoloZones
    OutsideRecords = {}
    SeedIds = 3
    MaxId = 5
    MaxZones = 2
    MaxFaults = 1
    MaxLost = 1
    MaxOutside = 0
INVARIANTS TypeOK NeverRefused NoDuplicates
PROPERTIES DeclaredSurvives NoDriftAfterApply CallsReturn
CHECK_DEADLOCK FALSE
