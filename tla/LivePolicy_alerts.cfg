SPECIFICATION Spec
CONSTANTS
    Admins = {a1, a2}
    monitor = monitor
    balanced = balanced
    marker = marker
    good = good
    zero = zero
    unset = unset
    detectOnly = detectOnly
    PolicyModes = {monitor, balanced}
    RuleModes = {detectOnly}
    Rules = {marker}
    Marker = marker
    DetectOnly = detectOnly
    Unset = unset
    Lists = {"limits"}
    Edited = {}
    Keys = {"/api"}
    Values = {good}
    Refused = {}
    Config <- MCConfig
    Imports <- MCImports
    CriticalAt = 3
    Seconds = {1}
    MaxVersion = 2
    MaxRestarts = 1
    MaxRefusals = 3
SYMMETRY Symmetry
INVARIANTS AlertsEscalate
CHECK_DEADLOCK FALSE
