SPECIFICATION FairSpec
CONSTANTS
    a1 = a1
    a2 = a2
    BSP = b
    APs <- OneAP
    HasImmediateExit = TRUE
    MaxCycles = 1
    WorkerInit <- AbsentWorker
    Upsets <- Deadlines
PROPERTIES
    TeardownCompletes
    FrozenIsReleased
