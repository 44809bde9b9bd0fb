SPECIFICATION MCSpec
CONSTANTS
    None = None
    \* runs
    Output = {1, 2}
    Date = {1, 2}
    DatesOf <- MidnightDates
    Model = {1}
    MaxSeq = 2
    MaxChange = 2
    MaxVersion = 5
    MaxSignal = 2
    \* rows
    Video = {1, 2}
    Earlier = {2}
    Captured <- CaptureDates
    Camera <- OwnCamera
    Location <- OwnCamera
    MaxTries <- TwoTries
    Lookback = 1
    LeaseDays = 1
    MaxDay = 4
    MaxGoldRuns = 3
INVARIANTS
    SkippedFactsAreCurrent
    AcknowledgedSignalsWereSeen
    OnlyTornSavesLoseSignals
    SavedRowsAreCurrent
CHECK_DEADLOCK FALSE
