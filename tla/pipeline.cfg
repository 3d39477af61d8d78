SPECIFICATION Spec
CONSTANTS
    Configs = {"A", "B"}
    Selections <- ClosedSelections
    MayForce = TRUE
    MaxInvocations = 3
    MaxCrashes = 2
INVARIANTS
    ReturnedIsCurrentUnlessInterrupted
    RecordTellsUnlessInterrupted
    NothingForeign
PROPERTIES
    FinishedIsKept
CHECK_DEADLOCK FALSE
