SPECIFICATION Spec
CONSTANTS
    a1 = a1
    a2 = a2
    BSP = b
    APs <- TwoAPs
    HasImmediateExit = TRUE
    MaxCycles = 1
    WorkerInit <- AnyWorker
    Upsets <- Drops
SYMMETRY SymmetricAPs
PROPERTY
    StopsTheWorld
CONSTRAINT
    FollowedToThaw
