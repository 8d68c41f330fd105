------------------------------ MODULE MCConnIO ------------------------------
EXTENDS ConnIO

Symmetry == Permutations(Workers) \cup Permutations(BObjs)
                \cup Permutations(SObjs) \cup Permutations(Keys)
=============================================================================
