SPECIFICATION Spec
CONSTANTS
    n1 = n1
    n2 = n2
    n3 = n3
    i1 = i1
    i2 = i2
    me = n1
    Node = {n1, n2, n3}
    Item = {i1, i2}
    Score <- MCScore
    Groups <- MCGroups
    Stored <- MCStored
    replicas = 2
    min_bytes = 2
    cap_bytes = 3
    step_bytes = 2
    settle_secs = 2
    max_settle_secs = 3
    MaxTime = 4
    MaxMemberships = 2
    MaxItemChanges = 2
    EVENTS_WAITING = 1
INVARIANTS
    CustodyInv
    ViewIsCurrent
CHECK_DEADLOCK FALSE
