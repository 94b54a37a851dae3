SPECIFICATION Spec
CONSTANTS
    MaxJobs = 2
    MaxBoots = 2
    MaximumInferenceJobs = 1
    c1 = c1
    c2 = c2
    c3 = c3
    c4 = c4
    s1 = s1
    s2 = s2
    ClientIds <- FourClients
    Subjects = {s1, s2}
    Submissions <- AllSubmissions
    Commands <- AllCommands
    StorageCanFail = FALSE
    CommandLineRuns = TRUE
    CommandLine = CommandLine
    NoJob = NoJob
    NoBoot = NoBoot
    NoRequest = NoRequest
    NoMutation = NoMutation
INVARIANTS
    OneRunningJob
    OnlyOwnerWrites
    SecretsFollowQueue
    RetryFindsItsJob
CHECK_DEADLOCK FALSE
