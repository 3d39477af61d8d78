SPECIFICATION Spec
CONSTANTS
    Kinds <- MCKinds
    MaxBatch = 3
    MaxContext = 6
INVARIANTS
    SeesOnlyItself
    SeededDrawsAreOwn
    ReasonsAreTrue
