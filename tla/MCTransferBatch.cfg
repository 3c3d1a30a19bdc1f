CONSTANTS
    b1 = b1
    b2 = b2
    Batches = {b1, b2}
    Branches = {"warehouse", "store"}
    s1 = s1
    s2 = s2
    Slots = {s1, s2}
    Lists <- MCLists
    Initial <- MCInitial
    MaxUpdates = 2
SPECIFICATION Spec
SYMMETRY Symmetry
CONSTRAINT OnePerBatch
INVARIANTS
    TypeOK
    ReservedMatchesPending
    ReceivedAsShipped
PROPERTIES
    GoodsConserved
CHECK_DEADLOCK FALSE
