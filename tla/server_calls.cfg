SPECIFICATION Spec
CONSTANTS
    z1 = z1
    z2 = z2
    z3 = z3
    d1 = d1
    d2 = d2
    a1 = a1
    r1 = r1
    r2 = r2
    r3 = r3
    k1 = k1
    k2 = k2
    bad = bad
    label = label
    c1 = c1
    c2 = c2
    Callers = {c1, c2}
    ZoneIds = {z1, z2, z3}
    Records = {r1, r2, r3}
    PageSize = 1
    Names = {d1, d2}
    Labels = {label}
    Accounts = {a1}
    ZoneName <- DomainZones
    ZoneAccount <- AccountZones
    NoId = NoId
    NoAccount = NoAccount
    Configs = {k1, k2}
    BadConfigs = {bad}
    ConfigAccount <- AccountConfigs
    Nil = Nil
    Mixed = Mixed
    Requests <- EngineRequests
    FirstZones = {z1, z2}
    FirstOrder <- RecordsAtFirst
    MaxCalls = 3
    MaxUpsets = 1
SYMMETRY TwoCallers
INVARIANTS
    TypeOK NoNilDriver OneConfigPerCall DestroyAccounts WritesNamedZone
    MissedOnlyIfDeleted TwiceOnlyIfCreated
PROPERTIES EnumeratedImportable ImportedReachable
CHECK_DEADLOCK FALSE
