SPECIFICATION Spec
CONSTANTS
    r1 = r1  r2 = r2  r3 = r3  k1 = k1  k2 = k2  tagA = tagA  tagB = tagB
    Requests = {r1, r2, r3}
    Keys = {k1}
    KeyOf <- OneKey
    TagOf <- TwoTags
    Priority <- ThirdLow
    Cacheable = {r1, r2}
    Cancellable = {r1, r2}
    CacheThreads = {c1}
    NetThreads = {n1, n2}
    PoolSize = 2
    Main = main
    NoRequest = none
    StopAllowed = FALSE
    CacheParses = {"result", "error"}
    OffMainCancel = FALSE
INVARIANTS
    CurrentIsExact
    KeyMeansInFlight
PROPERTIES
    KeepsPromise
SYMMETRY Symmetry12
CHECK_DEADLOCK FALSE
