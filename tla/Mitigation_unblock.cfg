SPECIFICATION Spec
CONSTANTS
    Workers = {w1}
    IPs = {ip1}
    Ttls = {1}
    Deltas = {1}
    MaxTime = 2
    MaxOps = 3
    MaxCrashes = 1
INVARIANTS UnblockSticks
