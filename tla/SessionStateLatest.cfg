SPECIFICATION TabSpec
CONSTANTS
    TaskIds = {0, 1}
    MaxWrites = 3
INVARIANT
    LatestShown
CHECK_DEADLOCK FALSE
