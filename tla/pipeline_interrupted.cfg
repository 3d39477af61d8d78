SPECIFICATION Spec
CONSTANTS
    Configs = {"A", "B"}
    Selections <- ClosedSelections
    MayForce = FALSE
    MaxInvocations = 3
    MaxCrashes = 1
INVARIANTS
    ReturnedIsCurrent
CHECK_DEADLOCK FALSE
