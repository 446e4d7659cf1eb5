SPECIFICATION Spec
CONSTANTS
    Jobs <- MCJobs
    Desc <- MCDesc
    NTiles = 2
    LineBytes = 2
    HbmBytes = 4
    L1Lines = 1
    L2Lines = 1
    L1Entries = 1
    L2Entries = 1
    JobLimit = 1
    MaxFaults = 1
    Resets = 1
INVARIANTS GatherSound RefillsSound
PROPERTIES EveryJobEnds
CHECK_DEADLOCK FALSE
