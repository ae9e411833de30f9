SPECIFICATION FairSpec
CONSTANTS
    Workers = {w1, w2}
    IPs = {ip1}
    Ttls = {1}
    Deltas = {1}
    MaxTime = 2
    MaxOps = 3
    MaxCrashes = 1
INVARIANTS TypeOK RestartAgreement ScoreAccounting
PROPERTIES BanEndsOnlyByLift LedgerSpec ExpiredBanReaped
