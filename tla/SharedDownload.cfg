SPECIFICATION Spec
CONSTANTS
    w1 = w1
    w2 = w2
    job = job
    shell = shell
    whole = whole
    capped = capped
    archive = archive
    plain = plain
    upload = upload
    Workers = {w1, w2}
    Fetches <- SameSelection
    Jobs = {job}
    Plans <- TwoSources
    Size <- Lengths
    Known = {archive, upload}
    Ranged = {archive, plain}
    Local = {upload}
    SharedPartials = TRUE
    ServerFails = FALSE
    MaxFaults = 0
    MaxCleanups = 0
    None = None
    Absent = Absent
    Bad = Bad
INVARIANTS
    EntriesMatchManifest
CHECK_DEADLOCK FALSE
