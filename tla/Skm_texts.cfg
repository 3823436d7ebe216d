SPECIFICATION CryptSpec
CONSTANTS
    CipherKey <- SampleKey
    Texts <- SomeTexts
    Uninitialised <- Rubbish
    Cuts <- SomeCuts
    Nothing = none
    Null = null
    OtherText = other
INVARIANTS
    RoundsAreStandard
    DecryptionRetraces
    TextSurvives
    EncodedFits
CHECK_DEADLOCK FALSE
