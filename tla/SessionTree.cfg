SPECIFICATION FairSpec
CONSTANTS
    TabOrder <- MCTabOrder
    Separators = {"s", "u"}
    Bottoms = {"u"}
    Headers = {"s"}
    Folded = {"s"}
    Scenarios <- MCScenarios
    AncestorMoved = FALSE
CHECK_DEADLOCK FALSE
INVARIANTS
    TreeMirrorsTabs
    CapturedRelaunches
PROPERTIES
    SeparatorsInPlace
    RowsKeepPlace
    SeparatorsAppear
