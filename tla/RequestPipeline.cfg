SPECIFICATION Spec
CONSTANTS
    Requests = {r1, r2}
    Sources = {s1, s2}
    ListedSources = {s1}
    s1 = s1
    s2 = s2
    orders = orders
    admin = admin
    home = home
    acme = acme
    alice = alice
    key1 = key1
    Nothing = Nothing
    Config <- MCConfig
    Inputs <- MCInputs
    Responses <- MCResponses
    Policies <- MCPolicies
    StartPolicies <- MCStartPolicies
    PrincipalPrefixes <- MCPrincipalPrefixes
    PathPrefixes <- MCPathPrefixes
    SuppressibleRules <- MCSuppressible
    Routes <- MCRoutes
    Contracts <- MCContracts
    StartReputations <- MCStartReputations
    MinBlockConfidence = 85
    MinBlockScore = 65
    MaxChanges = 1
    MaxFaults = 1
SYMMETRY Symmetry
INVARIANTS TypeOK RejectionHasCause StrictRejectsMore TrustLeavesNoTrace ChargesAddUp AttacksReported
PROPERTIES RequestPromiseSpec
CHECK_DEADLOCK FALSE
