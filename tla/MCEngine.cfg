CHECK_DEADLOCK FALSE
SPECIFICATION FairSpec
CONSTANTS
    r1 = r1
    r2 = r2
    Rebuilds = {r1, r2}
    MaxActivations = 2
INVARIANTS
    PublishedIsBacked
    ReclaimContract
    RebuildsExclude
    AppliedIsNotLeftStopped
PROPERTIES
    RebuildNeverRacesEngine
    EngineComesBack
