CONSTANTS
    Workers = {w1, w2}
    Conns = {d1, d2}
    NoConn = NoConn
    k1 = k1
    k2 = k2
    Cards = {k1, k2}
    Batches <- MCBatches
    OldTbl <- MCOldTbl
    Nil = Nil
    MaxImports = 3
SPECIFICATION FairSpec
INVARIANTS
    AllOrNothing
    RepliesTrue
PROPERTIES
    UsesBoundedPool
    CardsReleased
    
CHECK_DEADLOCK FALSE
