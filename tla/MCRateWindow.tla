----------------------------- MODULE MCRateWindow ----------------------------
EXTENDS RateWindow, TLC
MCPolicies == {[limit |-> 1, window |-> 2], [limit |-> 2, window |-> 3]}
Symmetry == Permutations(Workers)
=============================================================================
