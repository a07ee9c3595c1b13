SPECIFICATION Spec
CONSTANTS
    Domain <- MCDomain
    DomainData <- MCDomainData
    MarkerData <- MCMarkerData
    IPv4 <- MCIPv4
    IPv6 <- MCIPv6
    NoList = NoList
    ParseError = ParseError
    Writable <- MCWritable
    MaxWritten = 3
INVARIANTS DedupeKeepsKeys SpellingIrrelevant ImportHasNoDrift
CHECK_DEADLOCK FALSE
