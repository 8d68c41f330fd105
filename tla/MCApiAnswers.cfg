CONSTANTS
    Cards = {"c1", "c2"}
    Members <- MCMembers
    Answers <- MCAnswers
    MaxCmds = 3
SPECIFICATION Spec
INVARIANTS
    RepliesInOrder
    RepliesFaithful
CHECK_DEADLOCK FALSE
