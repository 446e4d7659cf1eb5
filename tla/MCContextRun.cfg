SPECIFICATION Spec
CONSTANTS
    Modes <- MCModes
    CacheModes <- MCCacheModes
    WriteBack <- MCWriteBack
    MaintenanceCaps <- MCMaintenanceCaps
    NoScope = "-"
    Declared <- MCDeclared
    SlotBytes = 2
    Contexts <- MCContexts
    ResetL1 = 0
    InputBytes = 3
    InputNames <- MCInputs
    LineBytes = 2
INVARIANTS CompiledTaskIsValid AsIfSequential LifetimesKept
