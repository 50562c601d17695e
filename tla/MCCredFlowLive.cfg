CHECK_DEADLOCK FALSE
SPECIFICATION FairSpec
CONSTANTS
    f1 = f1
    f2 = f2
    m1 = m1
    gmail = gmail
    Flows = {f1, f2}
    Machines = {m1}
    Providers = {gmail}
    MachineOf <- MCOneMachine
    ProviderOf <- MCOneProvider
    MaxActive = 2
    MaxImport = 0
PROPERTIES
    RelayedFlowEnds
    PolledFlowEnds
