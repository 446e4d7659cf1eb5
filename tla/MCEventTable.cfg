CONSTANTS
    l1 = l1
    l2 = l2
    a = a
    b = b
    NoLaunch = NoLaunch
    Launches <- MCLaunches
    Names <- MCNames
    EventUses <- MCUses
    Producers = {1}
    Outcomes = {"DONE", "ERROR"}
    Capacity = 2
    MaxSeq = 1
    MaxRefs = 0
    MaxLimit = 2
SPECIFICATION Spec
INVARIANTS StorageAccounted ReferenceAccounting
PROPERTIES EventsFinal FreedStorageWakes
CHECK_DEADLOCK FALSE
