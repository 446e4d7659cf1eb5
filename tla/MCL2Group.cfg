CONSTANTS
    p = p
    c = c
    d = d
    e = e
    Owners <- MCOwners
    Layout <- MCLayout
    Source <- MCSource
    Exports <- MCExports
    SubmitDeps <- MCDeps
    Program <- MCProgram
    ActiveCapacity = 2
    BankCount = 2
    BankBytes = 11
    SpmStart = 1
    SpmEnd = 10
    Stripe = 2
    Align = 2
SPECIFICATION Spec
INVARIANTS PoolSound HeadNotForgotten
PROPERTIES OwnershipRefined RunSettles
