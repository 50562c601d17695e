CHECK_DEADLOCK FALSE
SPECIFICATION FairSpec
CONSTANTS
    a1 = a1
    p1 = p1
    Activations = {a1}
    Applies = {p1}
    Threshold = 1
INVARIANTS
    RemoteStaysWhole
    OkMeansAlive
    GuardPrecedesSupervision
PROPERTY
    SyncComesBack
