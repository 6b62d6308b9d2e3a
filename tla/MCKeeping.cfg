SPECIFICATION Spec
CONSTANTS
    n1 = n1
    n2 = n2
    n3 = n3
    i1 = i1
    i2 = i2
    i3 = i3
    f1 = f1
    f2 = f2
    f3 = f3
    u1 = u1
    u2 = u2
    Upload = {u1, u2}
    FileOf <- MCFileOf
    max_upload_bytes = 1
    me = n1
    Node = {n1, n2, n3}
    Item = {i1, i2, i3}
    File = {f1, f2, f3}
    Score <- MCScore
    size <- MCSize
    Groups <- MCGroups
    Scenarios <- MCScenarios
    replicas = 2
    min_bytes = 1
    cap_bytes = 2
    step_bytes = 2
    limit = 2
    max_fetches = 2
    CHANGES_WAITING = 1
    KEEP_ENDED = 1
INVARIANTS
    KeepingInv
PROPERTIES
    CopiesOnlyTheAlone
    CustodyInTheEnd
    CopiedInTheEnd
    RequestsEnd
CHECK_DEADLOCK FALSE
