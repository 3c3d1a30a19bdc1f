SPECIFICATION Spec
CONSTANTS
    Carts = {c1}
    Tenders = {k1, k2}
    Cash = {"full"}
    Flushes = {f1, f2}
    MaxIntents = 2
    None = None
INVARIANTS
    TypeOK
    SyncedMeansSold
    HandedOverKept
    SoldIsPaid

    
