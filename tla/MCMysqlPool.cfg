CONSTANTS
    Threads = {t1, t2, t3, t4}
    Conns = {c1, c2, c3}
    NoConn = NoConn
    MinConnection = 2
    MaxConnection = 2
SPECIFICATION FairSpec
INVARIANTS
    IInv
    NeverAllAsleep
PROPERTIES
    ImplementsBoundedPool
    NextUserReleases
