SPECIFICATION Spec
CONSTANTS
    MaxGen = 2
    MaxReq = 1
    MaxFreezes = 2
    MaxResets = 1
    Throttled = FALSE
    HostFaults = TRUE
INVARIANTS
    TypeOK
    OneWorker
    DumpIsQuiet
    CompletionsAreOwed
PROPERTIES
    NeedsResetSticks
