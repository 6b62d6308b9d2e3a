SPECIFICATION Spec
CONSTANTS
    v1 = v1
    v2 = v2
    f1 = f1
    a1 = a1
    a2 = a2
    mapHere = mapHere
    mapThere = mapThere
    admit = admit
    support = support
    None = None
    Voter = {v1, v2}
    Follower = {f1}
    FirstLeader = v2
    Addr = {a1, a2}
    OldAddr = a1
    Call = {mapHere, mapThere, admit, support}
    Scenarios <- MCScenarios
    Asks <- MCAsks
    PROPOSE_ATTEMPTS = 2
    MaxFaults = 1
    MaxTerms = 1
INVARIANTS
    ProposingInv
    MapsUndoNothingDecidedSince
PROPERTIES
    ProposalsEnd
CHECK_DEADLOCK FALSE
