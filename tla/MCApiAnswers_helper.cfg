CONSTANTS
    Cards = {"c1", "c2"}
    Members <- MCMembers
    Answers <- MCAccepted
    MaxCmds = 2
SPECIFICATION Spec
INVARIANT UpdateHandedOver
CHECK_DEADLOCK FALSE
