SPECIFICATION ServerSpec
CONSTANTS
    Requests = {r1, long}
    OverLimit = {}
    TooLong = {long}
    MaxBatchSize = 2
    QueueMaxsize = 2
    BatchWindow = TRUE
    Errors = {"ContextLengthError", "RuntimeError"}
    MaxLives = 1
INVARIANTS
    ContextErrorIsOwn
CHECK_DEADLOCK FALSE
