CHECK_DEADLOCK FALSE
SPECIFICATION Spec
CONSTANTS
    e1 = e1
    e2 = e2
    k1 = k1
    k2 = k2
    m1 = m1
    codex = codex
    Enrols = {e1, e2}
    Configures = {k1, k2}
    Mutators = {m1}
    Harnesses = {codex}
    Only <- MCAll
INVARIANTS
    ConfigHoldsLiveGrant
PROPERTY
    StaleResponseIsDiscarded
