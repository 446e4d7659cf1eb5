CONSTANTS
    c1 = c1
    c2 = c2
    NoLaunch = NoLaunch
    NoKey = NoKey
    Launches <- MCLaunches
    Names <- MCNames
    EventUses <- MCUses
    Programs <- MCPrograms
    Capacity = 9
    Policy = "s1"
    SameProgram = TRUE
    ActiveCapacity = 2
    ActionCapacity = 4
    ContextQuota = 3
    ScanWidth = 2
    InflightCapacity = 2
    AdapterCapacity <- MCTwoEach
    Gated = {"bind", "control"}
    Faulty = {"bind", "prefetch", "dispatch", "control"}
SPECIFICATION FairSpec
INVARIANTS BooksAgree NoInternalError RunsAsWritten
PROPERTIES GroupSettles
