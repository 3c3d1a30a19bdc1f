SPECIFICATION Spec
CONSTANTS
    c1 = c1
    c2 = c2
    s1 = s1
    s2 = s2
    ana = ana
    Nobody = Nobody
    NoInvoice = NoInvoice
    Carts = {c1, c2}
    Slots = {s1, s2}
    Products = {"tea"}
    Customers = {}
    Price <- MCPrice
    MaxQty = 1
    FlatAmounts = {}
    PointAmounts = {}
    CodeAmounts = {}
    PointValue = 1
    MaxRows = 1
    k1 = k1
    k2 = k2
    Keys = {k1, k2}
    MaxIntents = 2
    Increment = 3
    Partials = {}
    Credits = {0}
    Earned = 1
    Opening = 2
INVARIANTS  OneCompletedPayment
 
CHECK_DEADLOCK FALSE
SYMMETRY Symmetry
