SPECIFICATION FairSpec
CONSTANTS
    MaxRetries = {1}
    DefaultSize = 2
    ReadSize = 3
    MaxBody = 3
    SizeLimit = 4
    MaxOthers = 1
    MaxBuffers = 6
    None = none
INVARIANTS
    PoolIsSound
    OneOwner
    NothingKept
    AttemptsUsedUp
    ResponseIsGood
PROPERTIES
    EveryExchangeEnds
CHECK_DEADLOCK FALSE
