SPECIFICATION Spec
CONSTANTS
    Ids = {a, b, c, d}
    MaxRows = 4
    Lists <- MCLists
SYMMETRY MCSymmetry
INVARIANTS
    NothingUncommitted
    LaunchedInOrder
PROPERTIES
    EditsReachSettings
    OpsKeepWellFormed
    MoveTakesFamily
    DragTakesFamily
    ShownWhereLinked
