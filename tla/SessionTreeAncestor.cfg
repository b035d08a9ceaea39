SPECIFICATION Spec
CONSTANTS
    TabOrder <- MCTabOrder
    Separators = {"s", "u"}
    Bottoms = {"u"}
    Headers = {"s"}
    Folded = {}
    Scenarios <- MCScenarios
    AncestorMoved = TRUE
CHECK_DEADLOCK FALSE
INVARIANTS
    TreeMirrorsTabs
