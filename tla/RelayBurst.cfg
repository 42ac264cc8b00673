CONSTANTS
    Supply = 2
    Room = 2
    Limit = 1
    Initial = 0
SPECIFICATION FairSpec
PROPERTIES
    RelayCompletes
