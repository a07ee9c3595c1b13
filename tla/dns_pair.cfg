SPECIFICATION Spec
CONSTANTS
    Domain <- MCDomain
    DomainData <- MCDomainData
    MarkerData <- MCMarkerData
    IPv4 <- MCIPv4
    IPv6 <- MCIPv6
    NoList = NoList
    ParseError = ParseError
    NoRecord = NoRecord
    Ops = {p1, p2}
    Kinds = {"Update"}
    Specs <- PairSpecs
    InitialZones <- PairZones
    OutsideRecords <- PairOutside
    SeedIds = 3
    MaxId = 5
    MaxZones = 2
    MaxFaults = 0
    MaxLost = 0
    MaxOutside = 1
INVARIANT EmptyPlanChangesNothing
PROPERTIES UnlistedPreserved RemovesOnlyListed
SYMMETRY Perms
CHECK_DEADLOCK FALSE
