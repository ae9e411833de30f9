SPECIFICATION Spec
CONSTANTS
    Admins = {a1, a2}
    monitor = monitor
    balanced = balanced
    marker = marker
    good = good
    zero = zero
    unset = unset
    detectOnly = detectOnly
    PolicyModes = {monitor, balanced}
    RuleModes = {detectOnly}
    Rules = {marker}
    Marker = marker
    DetectOnly = detectOnly
    Unset = unset
    Lists = {"limits"}
    Edited = {"limits"}
    Keys = {"/api"}
    Values = {good, zero}
    Refused = {zero}
    Config <- MCConfig
    Imports <- MCImports
    CriticalAt = 2
    Seconds = {1, 2}
    MaxVersion = 3
    MaxRestarts = 1
    MaxRefusals = 0
SYMMETRY Symmetry
INVARIANTS TypeOK VersionNamesPolicy
PROPERTIES OnlySignedRestored
CHECK_DEADLOCK FALSE
