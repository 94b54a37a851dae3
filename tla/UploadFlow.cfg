SPECIFICATION FlowSpec
CONSTANTS
    s1 = s1
    s2 = s2
    good = good
    damaged = damaged
    Sessions = {s1, s2}
    Requests <- TwoAttempts
    Contents = {good, damaged}
    ArchiveStarts = {good}
    Capacity = 4
    MaxInterruptions = 1
    FileContent = good
    Arrivals = {good, damaged}
    CanDigest = TRUE
    MaxAttempts = 2
    NoSession = NoSession
    NoRecord = NoRecord
    NoCall = NoCall
    NoDigest = NoDigest
    Absent = Absent
    Torn = Torn
INVARIANTS
    SkippedPartsStored
    CheckedPartsAreTheFile
PROPERTIES
    GivenUpCannotFinish
CHECK_DEADLOCK FALSE
