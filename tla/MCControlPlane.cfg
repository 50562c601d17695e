CHECK_DEADLOCK FALSE
SPECIFICATION Spec
CONSTANTS
    n1 = n1
    n2 = n2
    g1 = g1
    g2 = g2
    g3 = g3
    r1 = r1
    r2 = r2
    r3 = r3
    codex = codex
    unknown = unknown
    read = read
    send = send
    Nodes = {n1, n2}
    Harnesses = {codex, unknown}
    Caps = {read, send}
    Allowed <- MCAllowed
    Default <- MCDefault
    GrantIds = {g1, g2, g3}
    Requests = {r1, r2, r3}
    MaxVersion = 2
INVARIANTS
    TypeOK
    OneActivePerHarness
    GrantHistory
    RevocationAnswersAreTrue
