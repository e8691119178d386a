SPECIFICATION Spec
CONSTANTS
    p1 = p1
    p2 = p2
    p3 = p3
    k1 = k1
    k2 = k2
    b1 = b1
    b2 = b2
    d1 = d1
    d2 = d2
    d3 = d3
    d4 = d4
    Procs = {p1, p2, p3}
    Keys = {k1, k2}
    Builds = {b1, b2}
    Dirs = {d1, d2, d3, d4}
    Final = Final
    NoDir = NoDir
    NoName = NoName
    NoFile = NoFile
    NoJob = NoJob
    MayStore = {p1, p2}
    MayTest = {p3}
    MayClean = {p1, p2, p3}
    MaxCalls = 3
SYMMETRY Symm
INVARIANTS
    TypeOK
    PublishedIsWhole
    StagingIsKept
    LockedVmIsConsistent
PROPERTY
    StoresAreAtomic
