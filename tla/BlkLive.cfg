SPECIFICATION FairSpec
CONSTANTS
    MaxGen = 1
    MaxReq = 2
    MaxFreezes = 1
    MaxResets = 0
    Throttled = TRUE
    HostFaults = FALSE
INVARIANTS
    WorkIsNoticed
    CompletionIsSignalled
PROPERTIES
    RequestsComplete
