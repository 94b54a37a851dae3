SPECIFICATION Spec
CONSTANTS
    s1 = s1
    s2 = s2
    c1 = c1
    good = good
    bad = bad
    Sessions = {s1, s2}
    Requests <- Conflict
    Contents = {good, bad}
    ArchiveStarts = {good}
    Capacity = 4
    MaxInterruptions = 1
    NoSession = NoSession
    NoRecord = NoRecord
    NoCall = NoCall
    NoDigest = NoDigest
    Absent = Absent
    Torn = Torn
INVARIANTS
    CompleteIsWhole
    AcknowledgedPartKept
    UsedWithinCapacity
    ReplayFindsSession
PROPERTIES
    ImplementsUploads
SYMMETRY Symmetry
CHECK_DEADLOCK FALSE
