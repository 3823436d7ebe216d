SPECIFICATION FutureSpec
CONSTANTS
    Getters = {g1, g2, g3}
    Timed = {g3}
    Request = request
    None = none
INVARIANTS
    NoLostWakeup
    OutcomesAreAnswers
PROPERTIES
    GetsNeverGoBack
    EveryGetReturns
CHECK_DEADLOCK FALSE
