SPECIFICATION GateSpec
CONSTANTS
    Peer = {p1}
    Conn = {c1, c2}
    Bootstrap = {p1}
    MaxChanges = 2
    MaxAddr = 2
INVARIANTS
    GateInv
PROPERTIES
    Enforces
    ClosesWhatItShould
CHECK_DEADLOCK FALSE
