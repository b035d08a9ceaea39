SPECIFICATION Spec
CONSTANTS
    Segments = {"a"}
    Ids <- MCIds
    Apps = {}
    NoApp = NoApp
    ReportStates = {"working", "done"}
    MaxRecords = 1
    MaxRevision = 2
    Overlap = FALSE
    RestartLive = TRUE
    MaxRestarts = 1
    MaxQueued = 0
INVARIANT LiveIsCurrent
