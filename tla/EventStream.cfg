SPECIFICATION FairSpec
CONSTANTS
    MaxEvents = 3
    MaxOpens = 2
    FaultLimit = 2
INVARIANTS
    TypeOK
    NumberingSurvives
    ShownIsTheFile
    ShownIsHonest
    FreshRunIsShown
PROPERTIES
    LinesKept
    ReaderSettles
    CommandReturns
CHECK_DEADLOCK FALSE
