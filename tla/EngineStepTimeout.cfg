SPECIFICATION Spec
CONSTANTS
    Catalogue <- MCParallel
    OneShot <- MCNone
    Budget <- MCTwoAttempts
    FaultLimit = 2
INVARIANTS
    CancelledOnlyIfCancelled
