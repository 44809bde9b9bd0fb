SPECIFICATION PSpec
CONSTANTS
    Work = {1, 2}
    Batch = {b1}
    Output = {o1}
    Operator = {}
    Content <- TwiceContent
    Available = {}
    ClaimCall <- LongCall
    Workers = 2
    Extension = 3
    None = None
    MaxTime = 3
    MaxDelay = 1
    MaxReplay = 0
    MaxExtra = 1
    Speed = 2
    Factor = 1
    Margin = 1
    Run = {r1, r2}
    Plan = {1, 2}
    Torn = Torn
SYMMETRY Symmetry
INVARIANTS
    SealedOutputIsStaged
    ReturnedRunReportsItsBatch
    CommittedBatchCanBeResumed
CHECK_DEADLOCK FALSE
