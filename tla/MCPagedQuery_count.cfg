\* Two lists of cards of two customers on one connection.
CONSTANTS
    Commands = {"KH_SIM_LIST"}
    Args = {"a", "b"}
    RootArg = "a"
    MaxRows = 3
    Tags <- MCTags
    Pages <- MCPages
SPECIFICATION Spec
INVARIANT CountIsOfTheCondition
CHECK_DEADLOCK FALSE
