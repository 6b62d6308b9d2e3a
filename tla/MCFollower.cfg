SPECIFICATION MCSpec
CONSTANTS
    s1 = s1
    s2 = s2
    s3 = s3
    me = me
    Me <- me
    Server = {s1, s2, s3}
    Scenarios <- MCScenarios
    PROTOCOL_MAX = 1
    EVENTS_PER_FETCH = 2
    MaxVisited = 3
INVARIANTS
    FollowerInv
PROPERTIES
    CatchesUp
    ExpulsionEndsTheLoop
CHECK_DEADLOCK FALSE
