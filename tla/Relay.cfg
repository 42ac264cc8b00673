CONSTANTS
    Supply = 2
    Room = 1
    Limit = 4
    Initial = 1
SPECIFICATION FairSpec
INVARIANTS
    TypeOK
    StuckUnitsWaitForRoom
    UnreadIsSignalled
    CloseLosesNothing
PROPERTIES
    RelayCompletes
