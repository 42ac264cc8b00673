CONSTANTS
    V4Len = 4
    V6Len = 16
    ConnectWord <- MCConnectWord
    OtherWords <- MCOtherWords
    VersionWord <- MCVersionWord
    InetPton <- MCInetPton
    Scripts <- MCScripts
    Sizes = {1, 2, 3, 7, 1000}
    Keys <- MCKeys
    KeyLen = 3
    Socks5Room <- MCSocks5Room
    UdpRoom <- MCUdpRoom
SPECIFICATION CutsSpec
INVARIANTS
    TypeOK
    ReadsBackAsWritten
    CutsDoNotMatter
    PeersAreUnderstood
CHECK_DEADLOCK FALSE
