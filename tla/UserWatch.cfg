SPECIFICATION FairSpec
CONSTANTS
    v1 = v1
    x = x
    y = y
    Vcpus <- OneVcpu
    Bsp = v1
    Symbols <- TwoSymbols
    Other = other
    Nil = nil
    UserSlots = 1
    FailCap = 2
    MaxReq = 2
INVARIANTS
    TypeOK
    WatchNotMissed
    GateIsCleared
    NoneStranded
PROPERTIES
    FireIsRecorded
