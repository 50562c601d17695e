CHECK_DEADLOCK FALSE
SPECIFICATION Spec
CONSTANTS
    f1 = f1
    f2 = f2
    gmail = gmail
    Providers = {gmail}
    Flows = {f1, f2}
    ProviderOf <- MCOne
    MaxGen = 2
INVARIANTS
    CompletedWasDelivered
    RestartConverges
