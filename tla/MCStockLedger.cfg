SPECIFICATION FairSpec
CONSTANTS
    t1 = t1
    t2 = t2
    shelfA = shelfA
    shelfB = shelfB
    receive = receive
    restock = restock
    saleA = saleA
    saleB = saleB
    reserve = reserve
    NoRow = NoRow
    Txns = {t1, t2}
    Keys = {receive, restock, saleA, saleB, reserve}
    Levels = {shelfA, shelfB}
    Deltas <- MCDeltas
    Programs <- MCPrograms
INVARIANTS TypeOK LedgerReplaysLevels LevelsStayValid
PROPERTIES PostsAtomically RequestsEnd
