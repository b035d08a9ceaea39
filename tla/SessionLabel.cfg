SPECIFICATION FairSpec
CONSTANTS
    Panes = {p, q}
    MaxInputs = 2
INVARIANT LabelTypeOK
PROPERTIES
    LabelNeverReverts
    LabelSettles
CHECK_DEADLOCK FALSE
