SPECIFICATION Spec
CONSTANTS
    Requests = {r1, r2}
    MaxBatchSize = 2
    QueueMaxsize = 2
    BatchWindow = TRUE
    Errors = {"EngineError"}
    MaxLives = 1
INVARIANTS
    StopAnswersAll
CHECK_DEADLOCK FALSE
