SPECIFICATION Spec
CONSTANTS
    Catalogue <- MCParallel
    OneShot <- MCRestores
    Budget <- MCTwoAttempts
    FaultLimit = 2
INVARIANTS
    OneShotNeverResumed
