SPECIFICATION Spec
CONSTANTS
    r1 = r1  r2 = r2  r3 = r3  k1 = k1  k2 = k2  tagA = tagA  tagB = tagB
    Requests = {r1, r2, r3}
    Keys = {k1}
    KeyOf <- OneKey
    TagOf <- OneTag
    Priority <- Normal
    Cacheable = {r1, r2, r3}
    Cancellable = {}
    CacheThreads = {c1}
    NetThreads = {n1, n2}
    PoolSize = 2
    Main = main
    NoRequest = none
    StopAllowed = TRUE
    CacheParses = {"result", "exception"}
    OffMainCancel = TRUE
INVARIANTS
    OnePlace
PROPERTIES
    FinishedIsFinal
SYMMETRY Symmetry
CHECK_DEADLOCK FALSE
