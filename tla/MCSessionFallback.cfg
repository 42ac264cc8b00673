CONSTANTS
    Streams <- MCStreams
    Configs <- MCConfigs
    Outbounds <- MCOutbounds
SPECIFICATION Spec
CHECK_DEADLOCK FALSE
INVARIANTS
    OtherTrafficFallsBack
