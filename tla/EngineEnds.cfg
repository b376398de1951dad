SPECIFICATION FairSpec
CONSTANTS
    Catalogue <- MCPair
    OneShot <- MCNone
    Budget <- MCOneAttempt
    FaultLimit = 2
PROPERTIES
    EveryRunFinishes
