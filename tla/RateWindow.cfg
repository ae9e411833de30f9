SPECIFICATION Spec
CONSTANTS
    Workers = {w1, w2}
    Keys = {k1}
    SourceKeys = {k1}
    Policies <- MCPolicies
    Cap = 2
    MaxTime = 4
    MaxChecks = 5
SYMMETRY Symmetry
INVARIANTS TypeOK AdmissionBound SlidingBound
CHECK_DEADLOCK FALSE
