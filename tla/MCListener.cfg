CONSTANTS
    Clients = {c1, c2, d}
    Other = d
    NPorts = 2
    PortOf <- MCPortOf
    PostCount = 2
    MaxPending = 2
    MaxFailures = 3
SPECIFICATION FairSpec
INVARIANT DeafOnlyAfterFailedRound
PROPERTY EveryClientAccepted
