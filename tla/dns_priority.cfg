SPECIFICATION Spec
CONSTANTS
    Domain <- MCDomain
    DomainData <- MCDomainData
    MarkerData <- MCMarkerData
    IPv4 <- MCIPv4
    IPv6 <- MCIPv6
    NoList = NoList
    ParseError = ParseError
    NoRecord = NoRecord
    Ops = {p1}
    Kinds = {"Update"}
    Specs <- PrioritySpec
    InitialZones <- PriorityZone
    OutsideRecords = {}
    SeedIds = 3
    MaxId = 5
    MaxZones = 2
    MaxFaults = 0
    MaxLost = 0
    MaxOutside = 0
PROPERTY DriftEnds
CHECK_DEADLOCK FALSE
