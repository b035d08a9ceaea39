SPECIFICATION StoreSpec
CONSTANTS
    Segments = {"a", "b", "c", "ab"}
    Ids <- MCIds
    Apps = {claude}
    NoApp = NoApp
    ReportStates = {"working", "done"}
    MaxRecords = 3
    MaxRevision = 4
INVARIANTS
    CapRespected
    AppFromNearestAncestor
PROPERTIES
    OnlyOldestEvicted
    ReportsAreNew
