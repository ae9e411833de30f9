SPECIFICATION StartSpec
CONSTANTS
    Events = {e1}
    Capacity = 1
    MaxRetries = 0
    MaxRestarts = 0
    Nobody = Nobody
    Settings <- MCEnrolling
INVARIANTS EnrollmentSuffices
