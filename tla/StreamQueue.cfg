CONSTANTS
    Producers = {p1, p2}
    Depth = 2
    MaxTokens = 2
    MaxResets = 1
    Isolated = TRUE
SPECIFICATION FairSpec
INVARIANTS CreditInvariant
PROPERTIES StreamsDrain
