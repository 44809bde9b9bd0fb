SPECIFICATION FSpec
CONSTANTS
    Work = {1}
    Batch = {b1, b2}
    Output = {o1}
    Operator = {op1}
    Content <- Contents
    Available = {}
    ClaimCall <- OneCall
    Workers = 2
    Extension = 2
    None = None
    MaxTime = 2
    MaxDelay = 0
    MaxReplay = 1
    MaxExtra = 1
    Speed = 2
    Factor = 1
    Margin = 1
SYMMETRY Symmetry
INVARIANT SettledOnlyAfterPublication
