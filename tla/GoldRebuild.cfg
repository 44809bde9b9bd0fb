SPECIFICATION MCSpec
CONSTANTS
    None = None
    \* runs
    Output = {1, 2}
    Date = {1, 2}
    DatesOf <- MidnightDates
    Model = {1}
    MaxSeq = 1
    MaxChange = 1
    MaxVersion = 1
    MaxSignal = 1
    \* rows
    Video = {1, 2}
    Earlier = {2}
    Captured <- CaptureDates
    Camera <- OwnCamera
    Location <- OwnCamera
    MaxTries <- TwoTries
    Lookback = 1
    LeaseDays = 1
    MaxDay = 3
    MaxGoldRuns = 3
INVARIANT
    RebuildShowsCommittedOnly
CHECK_DEADLOCK FALSE
