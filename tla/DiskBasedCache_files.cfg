SPECIFICATION Spec
CONSTANTS
    k1 = k1  k2 = k2  k3 = k3  f1 = f1  f2 = f2  f3 = f3
    small = small  large = large
    Keys = {k1, k2, k3}
    Files = {f1, f2, f3}
    FileOf <- OneFileEach
    Responses = {small, large}
    DataLen <- Lengths
    HeaderLen = 1
    MaxSize = 9
    NoFile = noFile  Unreadable = unreadable  Nothing = nothing
    DiskMay = {"writeFails", "vanish", "crash", "crashInPut"}
    MaxDrift = 4
INVARIANTS
    ServesWhatWasPut
    NoOrphanFiles
    DiskUseIsBounded
PROPERTIES
    PutMakesRoom
CHECK_DEADLOCK FALSE
