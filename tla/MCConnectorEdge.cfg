CHECK_DEADLOCK FALSE
SPECIFICATION EdgeFairSpec
CONSTANTS
    n1 = n1
    n2 = n2
    g1 = g1
    g2 = g2
    r1 = r1
    r2 = r2
    c1 = c1
    codex = codex
    read = read
    send = send
    Nodes = {n1, n2}
    Harnesses = {codex}
    Caps = {read, send}
    Allowed <- MCAllowed
    Default <- MCDefault
    GrantIds = {g1, g2}
    Requests = {r1, r2}
    Calls = {c1}
    classCapability <- MCclassCapability
    Manifests <- MCManifests
    ToolCalls <- MCToolCalls
    MaxVersion = 1
INVARIANTS
    RevocationBites
    AuthorityIsProven
    CallsAreOnRecord
PROPERTY
    CallsEnd
