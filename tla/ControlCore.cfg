SPECIFICATION FairSpec
CONSTANTS
    Segments = {"a"}
    Ids <- MCIds
    Apps = {}
    NoApp = NoApp
    ReportStates = {"working", "done"}
    MaxRecords = 1
    MaxRevision = 2
    Overlap = FALSE
    RestartLive = FALSE
    MaxRestarts = 1
    MaxQueued = 0
INVARIANTS
    NoLostUpdate
    EndedStaysEnded
    LiveIsCurrent
PROPERTIES
    FeedSpec
    RowCatchesUp
    RowSettles
    CloseEnds
