CONSTANTS
    Pushes <- MCPushes
    Cap = 6
    AddrLen = 1
    ReplyLen = 2
SPECIFICATION NC_FairSpec
INVARIANTS
    FirstPushWhole
    StreamIntact
PROPERTY PushAnswered
CHECK_DEADLOCK FALSE
