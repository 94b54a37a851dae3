SPECIFICATION LivenessSpec
CONSTANTS
    c1 = c1
    c2 = c2
    c3 = c3
    c4 = c4
    s1 = s1
    s2 = s2
    good = good
    MaxJobs = 2
    MaxBoots = 1
    MaximumInferenceJobs = 1
    ClientIds <- FourClients
    Subjects = {s1, s2}
    Submissions <- MixedSubmissions
    Commands <- MixedCommands
    StorageCanFail = FALSE
    CommandLineRuns = TRUE
    CommandLine = CommandLine
    NoJob = NoJob
    NoBoot = NoBoot
    NoRequest = NoRequest
    NoMutation = NoMutation
    Sessions = {u1, u2}
    Requests <- OneArchive
    Contents = {good}
    ArchiveStarts = {good}
    Capacity = 3
    MaxInterruptions = 1
    NoSession = NoSession
    NoUpload = NoUpload
    NoCall = NoCall
    NoDigest = NoDigest
    Absent = Absent
    Torn = Torn
PROPERTIES
    RequestTakesEffect
    CloseEnds
    QueuedJobServed
    StorageDrains
CHECK_DEADLOCK FALSE
