SPECIFICATION FairSpec
CONSTANTS
    Scenarios <- MCScenarios
INVARIANTS
    SeatInv
PROPERTIES
    RetiredByALaterDemotion
    NodeSettles
CHECK_DEADLOCK FALSE
