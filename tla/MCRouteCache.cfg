CONSTANTS
    d1 = d1
    d2 = d2
    a1 = a1
    a2 = a2
    b1 = b1
    b2 = b2
    s1 = s1
    s2 = s2
    r1 = r1
    r2 = r2
    None = None
    Domains <- MCDomains
    Addrs <- MCAddrs
    Outbounds <- MCOutbounds
    Lazy = TRUE
    Size = 2
    Buckets = {b1, b2}
    Hash <- MCHash
    Sessions = {s1, s2}
    RefreshIds = {r1, r2}
    NginxResolver = TRUE
    Ttls = {1}
    MaxTime = 3
    MaxGeneration = 5
SPECIFICATION MCSpec
CHECK_DEADLOCK FALSE
INVARIANTS
    TypeOK
    RefreshOwnsEntry
    RefreshingMeansOneInFlight
    Indexed
PROPERTIES
    ImplementsRouteTable
    RefreshEnds
    ImplementsRouteSlots
