SPECIFICATION FairSpec
CONSTANTS
    ServerCount = 2
    AgentCount = 1
    Minor <- MCMinor
    FaultLimit = 2
INVARIANTS
    TypeOK
    DrainedBeforeRestart
    OneNodeOut
    OneNodeDown
    AgentsFollow
    ServersStayTogether
    CompletedIsMoved
    CanBeFinished
PROPERTIES
    NoDowngrade
    MoveEnds
CHECK_DEADLOCK FALSE
