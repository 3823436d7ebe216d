SPECIFICATION Spec
CONSTANTS
    W = 2
    H = 1
    C = 1
    A24 = 114
    BasePoint = 9
    Cleared = 2
    Prime = 127
    CoefA = 73
    Alice = alice  Bob = bob
    Party = {alice, bob}
    Randoms <- SomeRandoms
    Leftovers <- FreeLeftovers
    Strangers <- SomeStrangers
    Copied = 1
    None = none
INVARIANTS
    SharedSecretsAgree
    LadderInStep
    LadderIsRight
    KeysAreMultiples
    FieldIsExact
CHECK_DEADLOCK FALSE
