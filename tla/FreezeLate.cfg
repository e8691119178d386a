SPECIFICATION Spec
CONSTANTS
    a1 = a1
    a2 = a2
    BSP = b
    APs <- OneAP
    HasImmediateExit = TRUE
    MaxCycles = 2
    WorkerInit <- AbsentWorker
    Upsets <- Deadlines
INVARIANTS
    TypeOK
    KillNotLost
    KickNotLost
    RegsOfThisCycle
