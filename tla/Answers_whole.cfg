\* Calls whose answers depend on no earlier call: the bounds are those of the data in them.
CONSTANTS
    RrfK = 60
    MaxLimit = 2
    Probe = 1
    Sampled = 4
    Few = 2
    Budget = 2
    Overhead = 1
    LoaderFragmentFloor = 3
    LoaderBytesFloor = 4
    ManyVersions = 10
    MaxChunk = 3
    MaxDepth = 1
    BatchRows = 2
    RecallK = 2
    FacetProbe = 1
    FacetSample = 2
    FacetMost = 1
    MaxRows = 2
    HistoryDays = 2
    Half = 1
    MaxAttempts = 3
    MaxWait = 3
    MaxItems = 2
    MaxBytes = 3
    TargetSize = 6
    MinSeconds = 2
    MaxSeconds = 4
    Runt = 2
    MinDelta = 1
    Sampling = 2
    Memory = 3
    Step = 2
SPECIFICATION Spec
INVARIANTS
    QueriesAreHonest
    ScansAreHonest
    LanguageIsHonest
    PanelsAreHonest
    EdgesAreHonest
CHECK_DEADLOCK FALSE
