SPECIFICATION FairSpec
CONSTANTS
    w1 = w1  w2 = w2  alice = alice  bob = bob
    Runs = {w1, w2}
    UserOf <- Alices
    TypeOf <- EnrolStep
    Checked = {w1}
    Resets = {w2}
    DeviceBased = {w1}
    Definition = definition
    Nothing = nothing
    HostMay = {}
    ServerMay = {"configFails", "configMalformed"}
INVARIANTS
    CallbacksNameTheirWorkflow
    ScoreNeedsSuccess
    CompletedIsDone
    AnswersOwnWorkflow
    CancelAllSilences
PROPERTIES
    OutcomeIsFinal
    EveryStepAnswered
CHECK_DEADLOCK FALSE
