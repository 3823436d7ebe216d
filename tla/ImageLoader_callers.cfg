SPECIFICATION FairSpec
CONSTANTS
    k1 = k1  k2 = k2
    Keys = {k1, k2}
    MaxContainers = 3
    Refreshed = {k1}
    World = {{}, {"overtake", "inside", "queueCancels"}}
INVARIANTS
    AnswerFindsItsCallers
    CallbackFitsAnswer
PROPERTIES
    CalledOnce
    EveryCallerIsCalled
CHECK_DEADLOCK FALSE
