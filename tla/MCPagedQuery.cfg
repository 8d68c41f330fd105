\* Every kind of command on one buffer object.
CONSTANTS
    Commands = {"KH_SIM_LIST", "KHJL_LIST", "USER_LIST", "KH_LIST", "KH_ADD", "SIM_JRHM", "DN_DISABLE", "PL_LLC_POOLQRY", "USER_ADD", "USER_LOGIN"}
    Args = {"a", "b"}
    RootArg = "a"
    MaxRows = 3
    Tags <- MCTags
    Pages <- MCPages
SPECIFICATION Spec
INVARIANTS
    TypeOK
    PagesFitTogether
    Isolation
    ResultsFreed
CHECK_DEADLOCK FALSE
