SPECIFICATION PreparationSpec
CONSTANTS
    Files = {1, 2}
    Pictures = {large, small}
    Small = {small}
    Unreadable = Unreadable
    UpstreamLabels = {"a", "b"}
    Mappings <- TwoMappings
    MaxEdits = 1
    MaxRuns = 2
INVARIANT PreparedAsRequested
CHECK_DEADLOCK FALSE
