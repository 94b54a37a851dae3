SPECIFICATION AssetSpec
CONSTANTS
    ModelNames = {m1}
    Pairs = {p1}
    InstallRequests = {r1}
    ImageRefs = {i1}
    InferenceJobs = {j1}
    ImageSizes = {1}
    StorageCap = 1
    MaximumWaiting = 1
    RetentionTicks = 1
    MaxRestarts = 0
    MaxDeletions = 1
    Missing = Missing
INVARIANT
    JobsKeepTheirModel
CHECK_DEADLOCK FALSE
