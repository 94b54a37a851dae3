SPECIFICATION Spec
CONSTANTS
    w1 = w1
    w2 = w2
    job = job
    shell = shell
    whole = whole
    capped = capped
    archive = archive
    plain = plain
    upload = upload
    Workers = {w1, w2}
    Fetches <- JobAndCommand
    Jobs = {job}
    Plans <- TwoSources
    Size <- Lengths
    Known = {archive, upload}
    Ranged = {archive, plain}
    Local = {upload}
    SharedPartials = FALSE
    ServerFails = FALSE
    MaxFaults = 1
    MaxCleanups = 0
    None = None
    Absent = Absent
    Bad = Bad
INVARIANTS
    StoppedDownloadResumes
CHECK_DEADLOCK FALSE
