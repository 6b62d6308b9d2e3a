SPECIFICATION Spec
CONSTANTS
    n1 = n1
    n2 = n2
    n3 = n3
    Node = {n1, n2, n3}
    Scenarios <- MCScenarios
    MaxAddr = 2
    MaxPosition = 1
PROPERTIES
    EverybodyIsFound
    FallsSilent
CHECK_DEADLOCK FALSE
