SPECIFICATION Spec
CONSTANTS
    Modes <- MCModes
    CacheModes <- MCCacheModes
    WriteBack <- MCWriteBack
    MaintenanceCaps <- MCMaintenanceCaps
    ResetModes <- MCResetModes
    NoScope = "-"
    Specs <- MCSpecs
    Unregistered <- MCUnregistered
    StorePage = 4
    HbmBase = 0
    HbmSize = 12
    Zero <- MCZero
    Declared <- MCDeclared
    Sources <- MCSources
    Tampered = TRUE
    Layouts <- MCLayouts
    Inputs <- MCInputs
    Seeds <- MCSeeds
INVARIANTS CompiledIsValid RootsIsolated NewOwnerClean PoolExact
