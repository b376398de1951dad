SPECIFICATION FairSpec
CONSTANTS
    Catalogue <- MCSequential
    OneShot <- MCRestore
    Budget <- MCTwoAttempts
    FaultLimit = 2
INVARIANTS
    OneShotNeverResumed
    CompletedRunIsDurable
    RecheckedRunHolds
PROPERTIES
    DurableStepsKept
    ImplementsRollout
    ResumeConverges
