SPECIFICATION Spec
CONSTANTS
    Screens = {k, l, m, n}
    NoRow = NoRow
    StartupLists <- MCNoStartup
    NestedMoves = TRUE
SYMMETRY MCSymmetry
INVARIANT ParentsListed
