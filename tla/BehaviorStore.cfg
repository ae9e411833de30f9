SPECIFICATION Spec
CONSTANTS
    Workers = {w1, w2}
    k1 = k1
    k2 = k2
    k3 = k3
    a1 = a1
    id1 = id1
    id2 = id2
    u1 = u1
    u2 = u2
    NoKey = NoKey
    Requests <- MCRequests
    Keys = {k1, k2, k3, a1}
    Ids = {id1, id2}
    Subjects = {u1, u2}
    SourceKeys = {k1}
    MaxEntries = 2
    MaxIds = 3
    ObjectWindow = 1
    HitWindow = 0
    AuthWindow = 1
    MaxTime = 2
    MaxRequests = 3
SYMMETRY Symmetry
INVARIANTS TypeOK CapacityBound AttemptsKept
CHECK_DEADLOCK FALSE
