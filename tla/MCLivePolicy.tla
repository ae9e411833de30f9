---------------------------- MODULE MCLivePolicy -----------------------------
EXTENDS LivePolicy, TLC

CONSTANTS monitor, balanced, marker, good, zero, unset, detectOnly

MCPolicy(mode, rows) ==
    [mode |-> mode, rules |-> [r \in {marker} |-> unset],
     lists |-> [l \in {"limits"} |-> rows]]

MCConfig  == MCPolicy(balanced, <<>>)
MCImports == {MCPolicy(monitor, <<[key |-> "/api", value |-> good]>>)}
Symmetry  == Permutations(Admins)
=============================================================================
