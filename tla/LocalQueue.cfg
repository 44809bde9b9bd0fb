CONSTANTS
    Message = {m1, m2}
    Process = {p1, p2}
    MaxDelivery = 2
    MaxItems = 2
    MinItems = 1
    MaxLoad = 3
    None = None
SPECIFICATION MCSpec
INVARIANT CompletedByItsLastDelivery
PROPERTY EveryMessageSettles
CHECK_DEADLOCK FALSE
