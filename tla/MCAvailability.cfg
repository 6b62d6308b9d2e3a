SPECIFICATION AvailabilitySpec
CONSTANTS
    ItemId = {i1, i2}
    DELTA_MAX = 1
    MaxEpoch = 2
    MaxSeq = 3
    MaxUnderWay = 2
    MaxChanges = 2
    MaxFaults = 1
INVARIANTS
    AvailabilityInv
    GoodbyeStands
PROPERTIES
    Implements
    KnownInTheEnd
CHECK_DEADLOCK FALSE
