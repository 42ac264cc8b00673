CONSTANTS
    k1 = k1
    k2 = k2
    k3 = k3
    k4 = k4
    k5 = k5
    None = None
    Confs <- MCConfs
    Chars <- MCChars
    Lower <- MCLower
    Reserved <- MCReserved
    RegexMatches <- MCRegexMatches
    Loopback = {"127.0.0.1", "::1"}
    MaxKey = 4
    V4Bits = 3
    V6Bytes = 2
    ByteBits = 2
    Keys <- TableKeys
    Hashes <- TableHashes
    Tables <- KeyTables
    MaxSeed = 3
SPECIFICATION MCSpec
INVARIANTS
    TypeOK
    RoutesAsWritten
    LocalProxiesServed
    FindsExactlyItsKeys
CHECK_DEADLOCK FALSE
