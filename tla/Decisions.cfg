SPECIFICATION Spec
CONSTANTS
    TopFiles = 2
    HooksShown = 1
    NamesShown = 2
    Bridge = 1
    ModuleSpan = 1
    LookupCap = 2
    EstablishedDays = 365
    EstablishedReleases = 5
    BrandNewDays = 30
    MaxMembers = 3
    MaxTotalBytes = 7
    MaxSourceBytes = 3
    MaxMemberBytes = 3
    MaxForeignFiles = 1
    Threshold = 5
    SystemPrompt = 9466
    DefaultCpt = 34
    ColdStartCap = 40000
    MaxInputChars = 200000
    ReadingTime = 180
    EscalationFloor = 60
    MaliciousFloor = 80
    InputCases <- InputSet
    ChainCases <- ChainSet
    DepCases <- DepSet
    BaselineCases <- BaselineSet
    DiffCases <- DiffSet
    TriageCases <- TriageSet
    MergeCases <- MergeSet
    EndpointCases <- EndpointSet
    ReviewCases <- ReviewSet
    ContextCases <- ContextSet
    FileCases <- FileSet
    MaxItems = 2
    MaxEggEps = 1
    MaxLine = 9
    Widths <- WidthSet
INVARIANT InputWithinCap
INVARIANT NothingLeftUnsaid
INVARIANT ChainOfOnePair
INVARIANT DepsScreened
INVARIANT BaselineStays
INVARIANT ChangesReported
INVARIANT NothingTakenOut
INVARIANT WindowShared
INVARIANT WordDecides
INVARIANT ContextHonest
INVARIANT RunsAsSaid
CHECK_DEADLOCK FALSE
