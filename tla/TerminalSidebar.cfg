SPECIFICATION Spec
CONSTANTS
    Screens = {k, l, m, n}
    NoRow = NoRow
    StartupLists <- MCStartupLists
    NestedMoves = FALSE
SYMMETRY MCSymmetry
INVARIANTS
    SidebarPreOrder
    DrawnAsLinked
    CaptureRelaunches
PROPERTIES
    FamiliesTravel
