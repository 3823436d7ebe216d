SPECIFICATION Spec
CONSTANTS
    r1 = r1  r2 = r2  r3 = r3  k1 = k1  k2 = k2  tagA = tagA  tagB = tagB
    Requests = {r1, r2}
    Keys = {k1}
    KeyOf <- OneKey
    TagOf <- TwoTags
    Priority <- Normal
    Cacheable = {r1, r2}
    Cancellable = {r1, r2}
    CacheThreads = {c1}
    NetThreads = {n1}
    PoolSize = 1
    Main = main
    NoRequest = none
    StopAllowed = FALSE
    CacheParses = {"result", "exception"}
    OffMainCancel = FALSE
INVARIANTS
    KeyMeansInFlight
CHECK_DEADLOCK FALSE
