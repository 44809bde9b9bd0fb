SPECIFICATION MCSpec
CONSTANTS
    Work = {1, 2}
    Batch = {b1, b2, b3}
    Output = {o1, o2}
    Operator = {op1}
    Content <- Contents
    Available = {2}
    ClaimCall <- Calls
    Workers = 2
    Extension = 2
    None = None
    MaxTime = 3
    MaxDelay = 1
    MaxReplay = 1
    MaxExtra = 1
    Speed = 2
    Factor = 1
    Margin = 1
SYMMETRY Symmetry
INVARIANTS
    LeaseAgreement
    FencesAreUnique
    PublishedExactlyOnce
    ClaimsStayInBounds
    ReconcileFindsOnlyLeases
PROPERTIES
    HistoryIsImmutable
    NoWorkIsPassedOver
CHECK_DEADLOCK FALSE
