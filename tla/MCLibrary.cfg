SPECIFICATION Spec
CONSTANTS
    n1 = n1
    n2 = n2
    n3 = n3
    i1 = i1
    i2 = i2
    w1 = w1
    f1 = f1
    f2 = f2
    a1 = a1
    a2 = a2
    None = None
    me = n1
    Member = {n1, n2, n3}
    Item = {i1, i2}
    Wish = {w1}
    File = {f1, f2}
    ContentFile = {f1}
    size <- MCSize
    ASK_AGAIN = 2
    SUBSCRIPTION = 2
    Scenarios <- MCScenarios
INVARIANTS
    LibraryInv
PROPERTIES
    WishesStand
    ShownInTheEnd
    SyncedInTheEnd
CHECK_DEADLOCK FALSE
