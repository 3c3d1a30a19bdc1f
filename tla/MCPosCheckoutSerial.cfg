SPECIFICATION Spec
CONSTANTS
    c1 = c1
    c2 = c2
    s1 = s1
    s2 = s2
    ana = ana
    Nobody = Nobody
    NoInvoice = NoInvoice
    Carts = {c1}
    Slots = {s1}
    Products = {"tea"}
    Customers = {ana}
    Price <- MCPrice
    MaxQty = 2
    FlatAmounts = {1}
    PointAmounts = {1}
    CodeAmounts = {2}
    PointValue = 1
    MaxRows = 3
    k1 = k1
    k2 = k2
    Keys = {k1, k2}
    MaxIntents = 2
    Increment = 3
    Partials = {2}
    Credits = {0, 2}
    Earned = 1
    Opening = 1
INVARIANTS TypeOK BooksAgree TotalsMatchRows SoldCartFrozen
PROPERTIES CapturesKept
CHECK_DEADLOCK FALSE
SYMMETRY Symmetry
