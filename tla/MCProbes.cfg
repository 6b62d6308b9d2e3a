SPECIFICATION Spec
CONSTANTS
    n1 = n1
    n2 = n2
    n3 = n3
    i1 = i1
    i2 = i2
    c0 = c0
    None = None
    me = n1
    Member = {n1, n2, n3}
    Item = {i1, i2}
    Wish = {}
    File = {}
    ContentFile = {}
    size <- MCSize
    Chunk = {c0}
    stored <- MCStored
    Score <- MCScore
    replicas = 2
    min_bytes = 1
    cap_bytes = 2
    step_bytes = 1
    window = 2
    max_settle_secs = 1
    MaxTime = 2
    MaxInARow = 2
    Scenarios <- MCScenarios
INVARIANTS
    ProbesInv
PROPERTIES
    ClearedInTheEnd
    FoundInTheEnd
    LowInTheEnd
CHECK_DEADLOCK FALSE
