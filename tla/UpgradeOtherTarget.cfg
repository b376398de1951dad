SPECIFICATION Spec
CONSTANTS
    ServerCount = 1
    AgentCount = 1
    Minor <- MCMinor
    FaultLimit = 1
INVARIANTS
    AgentsNeverLead
CHECK_DEADLOCK FALSE
