SPECIFICATION FairServerSpec
CONSTANTS
    Requests = {r1, r2, long, over}
    OverLimit = {over}
    TooLong = {long}
    MaxBatchSize = 2
    QueueMaxsize = 1
    BatchWindow = TRUE
    Errors = {"ContextLengthError", "RuntimeError"}
    MaxLives = 1
INVARIANTS
    ReadyMeansRunning
    LiveWhileWaited
    StatusHasCause
PROPERTIES
    EveryoneGetsAReply
    BackpressureEnds
CHECK_DEADLOCK FALSE
