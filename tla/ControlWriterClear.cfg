SPECIFICATION Spec
CONSTANTS
    Run = {r1, r2}
    NoOwner = NoOwner
INVARIANT ClearReadbackIsFree
CHECK_DEADLOCK FALSE
