CONSTANTS
    Streams <- MCStreams
    Configs <- MCConfigs
    Outbounds <- MCOutbounds
SPECIFICATION FairSpec
CHECK_DEADLOCK FALSE
INVARIANTS
    TypeOK
    NoPayloadLost
    DialsOnlyAdmitted
    OneFinalAnswer
    RequestWhileResolving
    TimerWhileConnecting
PROPERTIES
    NoEndlessWait
