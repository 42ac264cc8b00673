CONSTANTS
    d1 = d1
    a1 = a1
    a2 = a2
    a3 = a3
    None = None
    udp4 = udp4
    socks5_udp = socks5_udp
    Domains <- Domains1
    Addrs <- Addrs3
    Outbounds <- ByAddress
    Lazy = TRUE
    Slots <- OneSlot
    Configs <- MCConfigs
    Sends = {d1, a3}
    UdpTimeout = 2
    MaxQueue = 2
    MaxLeaked = 1
    Sockets = {udp4, socks5_udp}
    Replaced = {socks5_udp}
    Room = 1
    MaxReplies = 4
SPECIFICATION MCSpec
INVARIANTS
    SentIntact
CHECK_DEADLOCK FALSE
