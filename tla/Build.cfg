CONSTANTS
    IPs <- MCIPs
    CIDRs <- MCCIDRs
    Loopback <- MCLoopback
    Under <- MCUnder
    Plain <- MCPlain
    Interfaces <- MCInterfaces
    DefaultAddress <- MCDefaultAddress
    Contents <- MCContents
    Labels <- MCLabels
    SystemRoots <- MCSystemRoots
    ACMEChain <- MCACMEChain
    Now <- MCNow
    Archives <- MCArchives
    Facts <- MCFacts
    Site <- MCSite
    Within <- MCWithin
    Overlapping <- MCOverlapping
    Machines <- MCMachines
    Documents <- Everything
    Edits <- MCEdits
    Outside <- MCOutside
    Interrupted <- MCInterrupted
    MaxInterruptions = 1
    MaxEdits = 1
    Starting <- MCStarting
SPECIFICATION MCSpec
INVARIANTS
    TypeOK
    AcceptedIsBuilt
    CompletedMeetsDocument
    CanBeRunAgain
    PlanWithinDocument
PROPERTIES
    SecondApplyIsQuiet
    WorkedInOrder
    InterruptedIsFinished
CHECK_DEADLOCK FALSE
