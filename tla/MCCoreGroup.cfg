SPECIFICATION FairSpec
CONSTANTS
    a = a
    b = b
    c = c
    Members = {a, b, c}
    Nobody = Nobody
    Scenarios <- MCScenarios
    Prompt = TRUE
INVARIANTS
    CoreGroupInv
PROPERTIES
    JointTargetIsReached
    GroupSettles
CHECK_DEADLOCK FALSE
