SPECIFICATION FairSpec
CONSTANTS
    Requests = {r1, r2, r3, r4}
    MaxBatchSize = 3
    QueueMaxsize = 2
    BatchWindow = TRUE
    Errors = {"EngineError"}
    MaxLives = 2
INVARIANTS
    WaitingIsHeld
    OwnResult
    StopAnswersHeld
PROPERTIES
    AnswersAreFinal
    ServesInOrder
    EveryoneAnswered
CHECK_DEADLOCK FALSE
