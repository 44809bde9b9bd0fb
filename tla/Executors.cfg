SPECIFICATION ExecutorsSpec
CONSTANTS
    None = None
    \* inputs
    Job = {j1, j2}
    Artifact = {"video"}
    Proof = {"posix", "consumers"}
    Ability = {{"posix", "consumers"}, {"posix"}}
    Workers = 1
    MaxExecutor = 2
    \* width
    Host = {h1, h2}
    Machine <- SomeMachines
    TaskCpus = 2
    ExecutorCores = 4
    PeakRss = 2
    HeadroomPercent = 20
    StabilityPolls = 2
    MaxPolls = 4
    \* staging
    Driver = {d1, d2}
    Partition = {1}
    MaxTasks = 2
    \* release
    Work = {w1}
    Session = {s1, s2}
    Releases <- ThreeReleases
    MaxItems = 2
    MaxAttempts = 1
    MaxBatch = 2
    MaxReplays = 1
    MaxChanges = 2
    \* tracking
    Person = {"a", "b"}
    Cell = {0, 1, 2}
    Similarity <- Looks
    MaxMove = 1
    MaxSpeed = 2
    Body = 2
    MaxDisappeared = 2
    MaxReentry = 3
    MaxFrame = 6
    \* catalog
    Row <- SomeRows
    Video <- SomeVideos
    Instant = {1, 2}
    MaxEdits = 2
    \* counting
    Walker = {1}
    RateUnit = 100
    SourceFps = {290, 375}
    SampleFps = {150, 400}
    Announced = 6
    Delivered = 8
    BatchSize = 2
    TrackerSlack = 1
    \* admission
    Speed = 2
    Factor = 3
    Margin = 1
    ExecutionProfile <- SomeProfiles
    LeaseSeconds = {2, 13, 14}
    MaxQueue = 5
    MaxDuration = 3
    \* evidence
    SparkExecutor = {1, 2}
    ExpectedIds = {1}
    ExpectedCpus = 2
    ExpectedTasks = 2
    MaxLaunches = 3
    LastMs = 3
    MaxLapses = 1
INVARIANTS
    ReportedOverlapIsReal
    InputsAreSafe
    RunningTasksFitTheirExecutor
    HarnessReturnsOneExecution
    ReleasesAreRespected
    IdsAreOnePerson
    OneRowInForce
    CountIsComplete
    AdmissionIsSound
PROPERTIES
    NoOldIdReturns
    AddedRowsNeverReassign
SYMMETRY Symmetry
CHECK_DEADLOCK FALSE
