\* Founding, admissions, expulsions, core changes, pledges and raises.
SPECIFICATION HistorySpec
CONSTANTS
    a = a
    b = b
    c = c
    x = x
    y = y
    Member = {a, b, c}
    Addr = {x, y}
    CoreList <- CoreMaps
    FounderList <- SoloOrTrio
    Settings <- Expiry3
    DefaultSettings <- Default
    Pledge = {1, 2}
    Protocol = {2, 3}
    MaxIndex = 5
INVARIANTS
    FoldInv
    WaitingMapsAgree
PROPERTIES
    VotersMoveByMajority
    ProtocolClimbs
CHECK_DEADLOCK FALSE
