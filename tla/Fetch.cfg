SPECIFICATION Spec
CONSTANTS
    MaxJobs = 2
    MaxBoots = 2
    MaximumInferenceJobs = 1
    c1 = c1
    c2 = c2
    c3 = c3
    c4 = c4
    s1 = s1
    s2 = s2
    ClientIds <- FourClients
    Subjects = {s1, s2}
    Submissions <- FetchSubmissions
    Commands <- FetchCommands
    StorageCanFail = TRUE
    CommandLineRuns = FALSE
    CommandLine = CommandLine
    NoJob = NoJob
    NoBoot = NoBoot
    NoRequest = NoRequest
    NoMutation = NoMutation
INVARIANTS
    OneActiveFetch
    CleanupExcludesFetch
    WorkersFollowJobs
    ActionsHonoured
PROPERTIES
    EndedStaysEnded
    ImplementsLedger
CHECK_DEADLOCK FALSE
