CHECK_DEADLOCK FALSE
SPECIFICATION Spec
CONSTANTS
    a1 = a1
    p1 = p1
    Activations = {a1}
    Applies = {p1}
    Threshold = 1
INVARIANT
    SyncingIsBidirectional
