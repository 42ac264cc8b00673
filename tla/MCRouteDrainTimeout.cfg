CONSTANTS
    d1 = d1
    a1 = a1
    a2 = a2
    c1 = c1
    c2 = c2
    None = None
    Domains <- MCDomains
    Addrs <- MCAddrs
    Outbounds <- MCOutbounds
    Lazy = TRUE
    Slots <- MCSlots
    Conns = {c1}
    ClientTimeout = 2
SPECIFICATION Spec
PROPERTIES
    TimeoutAsConfigured
