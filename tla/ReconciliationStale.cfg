SPECIFICATION MCSpec
CONSTANTS
    Work = {1}
    Batch = {b1, b2}
    Output = {o1}
    Operator = {op1}
    Content <- OneContent
    Available = {}
    ClaimCall <- OneCall
    Workers = 1
    Extension = 1
    None = None
    MaxTime = 3
    MaxDelay = 1
    MaxReplay = 0
    MaxExtra = 1
    Speed = 2
    Factor = 1
    Margin = 1
PROPERTY FindingsRemainVisible
CHECK_DEADLOCK FALSE
