SPECIFICATION FairSpec
CONSTANTS
    p1 = p1
    p2 = p2
    Procs <- TwoProcs
    LlcGroups <- Groups
    OnlineCpus <- Online
    NodeLlcs <- LlcsByNode
    Distance <- NodeDistance
    Wants <- MixedWants
INVARIANTS
    TypeOK
    PerfIsAlone
    PinnedOnce
    PlanIsExact
PROPERTY
    AttemptEnds
