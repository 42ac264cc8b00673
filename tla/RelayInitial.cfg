CONSTANTS
    Supply = 2
    Room = 1
    Limit = 4
    Initial = 2
SPECIFICATION Spec
INVARIANTS
    InitialPayloadFirst
