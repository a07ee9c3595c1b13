SPECIFICATION RetrySpec
CONSTANTS
    Domain <- MCDomain
    DomainData <- MCDomainData
    MarkerData <- MCMarkerData
    IPv4 <- MCIPv4
    IPv6 <- MCIPv6
    NoList = NoList
    ParseError = ParseError
    NoRecord = NoRecord
    Ops = {p1}
    Kinds = {"Create"}
    Specs <- RetrySpecs
    InitialZones <- RetryZones
    OutsideRecords <- RetryOutside
    SeedIds = 3
    MaxId = 12
    MaxZones = 2
    MaxFaults = 2
    MaxLost = 1
    MaxOutside = 1
PROPERTY Reconciles
CHECK_DEADLOCK FALSE
