SPECIFICATION Spec
CONSTANTS
    Domain <- MCDomain
    DomainData <- MCDomainData
    MarkerData <- MCMarkerData
    IPv4 <- MCIPv4
    IPv6 <- MCIPv6
    NoList = NoList
    ParseError = ParseError
    Idle = Idle
    NoRecord = NoRecord
    Ops = {p1}
    Kinds = {"Create", "Update"}
    Specs <- CallSpecs
    InitialZones <- CallZones
    OutsideRecords = {}
    SeedIds = 3
    MaxId = 7
    MaxZones = 2
    MaxFaults = 1
    MaxLost = 0
    MaxOutside = 0
PROPERTY ImplementsContract
CHECK_DEADLOCK FALSE
