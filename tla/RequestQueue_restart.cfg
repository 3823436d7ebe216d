SPECIFICATION FairSpec
CONSTANTS
    r1 = r1  r2 = r2  r3 = r3  k1 = k1  k2 = k2  tagA = tagA  tagB = tagB
    Requests = {r1, r2}
    Keys = {k1}
    KeyOf <- OneKey
    TagOf <- TwoTags
    Priority <- Normal
    Cacheable = {r1, r2}
    Cancellable = {r1}
    CacheThreads = {c1, c2}
    NetThreads = {n1, n2}
    PoolSize = 1
    Main = main
    NoRequest = none
    StopAllowed = FALSE
    CacheParses = {"result"}
    OffMainCancel = FALSE
PROPERTIES
    EveryRequestFinishes
CHECK_DEADLOCK FALSE
