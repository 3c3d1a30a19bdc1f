CONSTANTS
    s1 = s1
    s2 = s2
    x1 = x1
    x2 = x2
    Shifts = {x1, x2}
    Slots = {s1, s2}
    Terminals = {"t1"}
    Types = {"sale", "refund"}
    Amounts = {2}
    Floats = {1}
    Counts = {1, 2}
    MaxEvents = 3
SPECIFICATION Spec
SYMMETRY Symmetry
INVARIANTS
    TypeOK
    DrawerAddsUp
    ReportsAgree
CHECK_DEADLOCK FALSE
