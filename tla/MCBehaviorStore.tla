-------------------------- MODULE MCBehaviorStore ---------------------------
EXTENDS BehaviorStore, TLC

CONSTANTS k1, k2, k3, a1, id1, id2, u1, u2

Plain(k)   == [main |-> k, ids |-> <<>>, auth |-> NoKey, subject |-> u1]
MCRequests == {[main |-> k1, ids |-> <<id1, id2>>, auth |-> NoKey, subject |-> u1],
               Plain(k3),
               [main |-> k2, ids |-> <<>>, auth |-> a1, subject |-> u1]}
Symmetry   == Permutations(Workers)
=============================================================================
