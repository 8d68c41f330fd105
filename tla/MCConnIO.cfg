CONSTANTS
    Workers = {w1, w2}
    Main = main
    BObjs = {b1, b2}
    SObjs = {s1, s2, s3, s4}
    Null = Null
    Keys = {k1, k2}
    Ports = {"srv", "nc"}
    PoolCap = 1
    MaxPending = 1
SPECIFICATION Spec
INVARIANTS
    TypeOK
    BufferOwnership
    SocketOwnership
    HandlerMatchesRequest
    MapsSound
SYMMETRY Symmetry
CHECK_DEADLOCK FALSE
