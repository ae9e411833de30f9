SPECIFICATION StartSpec
CONSTANTS
    Events = {e1, e2, e3, e4}
    Capacity = 2
    MaxRetries = 1
    MaxRestarts = 1
    Nobody = Nobody
    Settings <- MCSettings
INVARIANTS TypeOK CountersAccount DuplicatesBounded ServesAsConfigured ServedSettingsStand
PROPERTIES PromiseSpec EveryEventSettled
CHECK_DEADLOCK FALSE
