SPECIFICATION FairSpec
CONSTANTS
    Profiles = {"p", "q"}
    Values = {"old", "new"}
    NoFile = NoFile
    MaxFailed = 1
    MaxWrites = 3
INVARIANT MirrorsCurrent
PROPERTIES
    MirrorsSettle
