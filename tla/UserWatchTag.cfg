SPECIFICATION Spec
CONSTANTS
    v1 = v1
    x = x
    y = y
    Vcpus <- OneVcpu
    Bsp = v1
    Symbols <- TwoSymbols
    Other = other
    Nil = nil
    UserSlots = 2
    FailCap = 2
    MaxReq = 2
INVARIANT CaptureIsOfItsSymbol
