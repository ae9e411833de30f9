SPECIFICATION Spec
CONSTANTS
    Requests = {q1, q2}
    Operators = {o1, o2}
    r1 = r1
    r2 = r2
    r3 = r3
    Routes = {r1, r2, r3}
    Specified = {r3}
    Calls <- MCCalls
    Enabled = TRUE
    MinHits = 1
    MaxRoutes = 1
    MinSamples = 1
    MaxSchemas = 2
    MaxFields = 3
    MaxDepth = 3
    MaxArray = 2
    Sensitive = {"password"}
    Handled = {r1}
    Budgets <- MCBudgets
    StartRows <- MCStartRows
    MaxFaults = 1
    MaxRestarts = 1
SYMMETRY Symmetry
INVARIANTS TypeOK LearnedBound AnnouncedOnce StaysHidden PromotedNotListed SteadyClientQuiet
PROPERTIES EstablishedKept
CHECK_DEADLOCK FALSE
