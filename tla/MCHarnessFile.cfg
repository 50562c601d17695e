SPECIFICATION Spec
CONSTANTS
    none = none
    mine = mine
    conn = conn
    e1 = e1
    e2 = e2
    Contents = {none, mine}
    Empty = none
    Connector = conn
    Engines = {e1, e2}
    Toml = TRUE
    MaxGrants = 2
    MaxMergeAttempts = 1
INVARIANTS
    TypeOK
    ConfiguredIsWired
    NoOrphans
PROPERTIES
    EditsSurvive
    RunEnds
