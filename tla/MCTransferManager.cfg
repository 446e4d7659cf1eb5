SPECIFICATION Spec
CONSTANTS
    Full = TRUE
    Ids = {"g", "u", "w", "c", "r", "d", "x"}
    Req <- MCReq
    Views <- MCViews
    Seeded <- MCSeeded
    Channels <- MCChannels
    HbmLimit = 1
    VcDepth = 1
    Tombstones = 1
    MaxLive = 2
    MaxIssued = 2
    MaxChanges = 1
INVARIANTS FabricSound NoLostWakeup
PROPERTIES DataTrue EveryTransferEnds
CHECK_DEADLOCK FALSE
