SPECIFICATION ComponentsSpec
CONSTANTS
    Experiments = {a1, a2, e3}
    MaximumExperiments = 2
    MaximumTotal = 8
    MaximumExperiment = 5
    SaveReserve = 3
    StopSteps = {2}
    Interval = 2
    LongestStep = 2
    Scores = {1}
    BestKept = 1
    MaxCrashes = 1
    Nothing = Nothing
    Stages = {b1, b2}
    StageSeconds <- PilotSeconds
    MaximumSeconds = 8
    CheckpointReserve = 2
    ShutdownReserve = 1
    MaximumTransfer = 1
    SessionIds = {a1, a2}
    FirstTime = 1
    LastTime = 3
    MaxTransfers = 1
    MaxJumps = 1
    Running = Running
    ModelNames = {m1}
    Pairs = {c1, c2}
    InstallRequests = {r1}
    ImageRefs = {b1, b2}
    InferenceJobs = {a1, a2}
    ImageSizes = {1, 2}
    StorageCap = 2
    MaximumWaiting = 2
    RetentionTicks = 1
    MaxRestarts = 1
    MaxDeletions = 1
    Missing = Missing
    FeedJobs = {a1, a2}
    Page = 1
    MaxEvents = 3
    MaxAnswers = 2
    MaxReloads = 1
    Photos = {1, 2, 3}
    PhysicalBatch = 2
    Accumulation = 2
    PlannedSteps = 2
    PilotNames = {"a", "b"}
    Trainers = {a1, a2}
    MaxStarts = 3
    Files = {1, 2, 3}
    Pictures = {large, small}
    Small = {small}
    Unreadable = Unreadable
    UpstreamLabels = {"a", "b"}
    Mappings <- OneMapping
    MaxEdits = 1
    MaxRuns = 2
    Paths <- SomePaths
    RowNames = {"x", "r"}
    AssetNames = {"z"}
    UpstreamLabel <- LabelOf
    ImageCaps = {2}
    MaximumMembers = 4
    MaxAssets = 2
    MaxRead = 3
    Tabs = {a1, a2}
    Changes = {change}
    Scripts = {s1}
    MaxWrites = 3
    MaxRereads = 1
    ByteBits = 2
    BlockData = 2
    BlockParity = 2
    Parity <- FieldParity
    HeaderBytes = 1
    TagBytes = 0
    MessageLimit = 1
    PixelsPerByte = 8
    Messages <- TwoMessages
    Passwords = {"", "k", "l"}
    ModelPairs = {"m"}
    Sizes = {17, 20}
    MaxDamage = 3
SYMMETRY Alike
CHECK_DEADLOCK FALSE
INVARIANTS
    TimeAccounted
    CheckpointsRestorable
    PreflightKeepsItsWord
    StopAlwaysConfirmable
    SpendingWithinAllocations
    GuardStopsInTime
    LostOnlyToOverlap
    StoredImagesBounded
    ResumeIsExact
    SplitsDoNotLeak
    PublishedSourcePrepares
    ConfirmedSettingsStay
    MessageExactOrRefused
PROPERTY PageFollowsJobs
