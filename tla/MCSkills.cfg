SPECIFICATION Spec
CHECK_DEADLOCK FALSE
CONSTANTS
    r1 = r1
    r2 = r2
    sync = sync
    codex = codex
    claude = claude
    d1 = d1
    s1 = s1
    v1 = v1
    v2 = v2
    Runs = {r1, r2}
    Commands = {sync}
    Harnesses = {codex, claude}
    Dirs = {d1}
    Slugs = {s1}
    Places = {v1, v2}
    Elsewhere = Elsewhere
    None = None
    Homes <- MCHomes
    Contents <- MCContents
    Profiles <- MCProfiles
    MaxEdits = 2
SYMMETRY Symmetry
INVARIANTS
    MadeIsClaimed
    RunConverges
    StatusDescribesMachine
PROPERTY
    ForeignEntriesStay
