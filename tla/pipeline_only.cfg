SPECIFICATION Spec
CONSTANTS
    Configs = {"A", "B"}
    Selections <- AnySelections
    MayForce = FALSE
    MaxInvocations = 3
    MaxCrashes = 0
INVARIANTS
    NothingForeign
CHECK_DEADLOCK FALSE
