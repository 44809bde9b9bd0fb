SPECIFICATION JobsSpec
CONSTANTS
    None = None
    \* the lock
    Run = {r1, r2}
    NoOwner = NoOwner
    \* the pipeline
    Item = {1, 2}
    RuntimeKey <- OneKey
    Command = {c1, c2}
    ClaimSize = 2
    ItemAttempts <- OneOrTwo
INVARIANTS
    WritesByOwnerOnly
    ReturnedCommandIsInGold
PROPERTIES
    SerializedSpec
    LockMakesProgress
    EveryCommandEnds
CHECK_DEADLOCK FALSE
