\* Requests of 8 and 9 bytes fit in the buffer, one of 11 does not; nor does a
\* reply of 11 bytes.
CONSTANTS
    BufLen = 10
    AcceptLen = 7
    FrameLens = {0, 1, 3}
    ReplyLens = {2, 11}
    ApiReqLen = 4
    ApiAnsLen = 11
    MaxRequests = 2
SPECIFICATION FairSpec
INVARIANTS
    TypeOK
    RepliesWhole
    HandledInOrder
    HangsUpForCause
PROPERTY RequestsEnd
CHECK_DEADLOCK FALSE
