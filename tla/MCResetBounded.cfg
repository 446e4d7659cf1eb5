SPECIFICATION Spec
CONSTANTS
    NTiles = 2
    NContexts = 2
    NGrids = 3
    Role <- MCRole
    L1Units = 3
    LeaseLimit = 2
    RouteLimit = 2
    QueueDepth = 1
    Channels = 1
    LaneDepth = 2
    StreamDepth = 1
    BindCycles = 1
    ColdCycles = 0
    MaxFaults = 1
    MaxResets = 1
INVARIANT ResetIsBounded
CHECK_DEADLOCK FALSE
