SPECIFICATION Spec
CONSTANTS
    Panes = {p, q}
    Ids = {0, 1, 2}
    Scenarios <- MCScenarios
    MaxRevision = 2
SYMMETRY MCSymmetry
INVARIANTS
    RowIsCurrentButForClosed
    StrongestShown
    MessageFromPreferred
    AgeSurvivesSeeing
    SeenWasLooked
    AttentionKept
    LookedIsSeenButForRemoval
    PreviewEndsWithReport
