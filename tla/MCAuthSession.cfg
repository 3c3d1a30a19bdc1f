SPECIFICATION Spec
CONSTANTS
    t1 = t1
    t2 = t2
    p1 = p1
    NoToken = NoToken
    Job = Job
    Tabs = {t1, t2}
    Pages = {p1}
    MaxLogins = 1
INVARIANTS TabsWellTyped NothingStranded RemovalReaches
PROPERTIES RequestsEnd 
