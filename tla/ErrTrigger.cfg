SPECIFICATION FairSpec
CONSTANTS
    v1 = v1
    a = a
    b = b
    Vcpus <- OneVcpu
    Bsp = v1
    Scheds <- TwoScheds
    Nil = nil
    Configs <- DualOrPlain
    MaxFail = 1
    MaxEintr = 1
INVARIANTS
    TypeOK
    DumpIsGenuine
    PointerCoversRequest
    EarlyIsKept
PROPERTIES
    ReportedErrorIsDumped
