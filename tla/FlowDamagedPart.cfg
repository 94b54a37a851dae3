SPECIFICATION FlowSpec
CONSTANTS
    s1 = s1
    s2 = s2
    good = good
    damaged = damaged
    Sessions = {s1}
    Requests <- TwoAttempts
    Contents = {good, damaged}
    ArchiveStarts = {good}
    Capacity = 3
    MaxInterruptions = 0
    FileContent = good
    Arrivals = {good, damaged}
    CanDigest = TRUE
    MaxAttempts = 2
    NoSession = NoSession
    NoRecord = NoRecord
    NoCall = NoCall
    NoDigest = NoDigest
    Absent = Absent
    Torn = Torn
INVARIANT
    CompletedIsTheFile
CHECK_DEADLOCK FALSE
