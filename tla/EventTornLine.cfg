SPECIFICATION Spec
CONSTANTS
    MaxEvents = 3
    MaxOpens = 2
    FaultLimit = 2
INVARIANTS
    FailedEmitLeavesNoHole
CHECK_DEADLOCK FALSE
