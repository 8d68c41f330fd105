CONSTANTS
    Threads = {t1, t2, t3}
    Conns = {c1, c2, c3}
    NoConn = NoConn
    MinConner = 1
    MaxConner = 2
SPECIFICATION FairSpec
INVARIANTS
    TypeOK
    Exclusive
    Accounting
    NoLostWakeup
    OnlyLeaksDeadlock
PROPERTIES
    ImplementsBoundedPool
    BlockedIsReleased
    NeverWedged
CHECK_DEADLOCK FALSE
