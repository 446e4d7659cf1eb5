CONSTANTS
    a = a
    b = b
    z = z
    x1 = x1
    MembersOf <- MCMembersOf
    Contexts <- MCContexts
    Commands <- MCCommands
    MaxDispatches = 1
    MaxRuns = 1
    MaxRecoveries = 1
    MaxOverrides = 1
SPECIFICATION FairSpec
INVARIANTS GatesHonest ReconfigurationIsolated PublicationCannotFail
PROPERTIES CommandsEnd
