SPECIFICATION OperationsSpec
CONSTANTS
    None = None
    \* inbox
    VideoWork = {w1}
    MaxAttempts = 2
    MaxLeases = 2
    Execution = {e1, e2}
    MaxEvents = 4
    MaxPending = 2
    Active <- TwoActive
    Commands <- SomeCommands
    \* publisher
    Video = {a, b}
    Content = {x, y}
    Chunks = 2
    MaxEdits = 4
    MaxPrepares = 2
    \* retirement, cleanup and bootstrap
    Table = {t1, t2}
    Views = {v1}
    TableSuffixes = {"work", "attempts"}
    Bootstrap = {b1, b2}
    MaxVersion = 2
    \* deployment
    Release = {r1, r2}
    RoleOrder <- ThreeRoles
    Scheduled = {"control", "process"}
    Principal = {p1, p2}
    Deprecated = {p1}
    Option <- SomeOptions
    MaxSends = 2
    MaxFaults = 2
    MaxRuns = 2
    NoRelease = NoRelease
    \* deployment by hand
    Build = {1, 2}
    Deployment = {d1, d2}
    ItemKinds <- OneItem
    ScheduleKinds <- TwoSchedules
INVARIANTS
    EventsTakeEffectOnce
    PublicationIsFaithful
    RetirementIsSafe
    EnabledSchedulesRunAVettedRelease
    SucceededRunIsInPlace
    ReturnedDeploymentIsInPlace
SYMMETRY Symmetry
CHECK_DEADLOCK FALSE
