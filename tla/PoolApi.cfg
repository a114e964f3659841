CONSTANTS
    k1 = k1
    k2 = k2
    p1 = p1
    p2 = p2
    Scopes <- OneScope
    Callers <- MCCallers
    ScopeOf <- BothOnOne
    Operations = {"execute", "prepare", "abort", "close_scope", "close"}
    Faults = {"uncertain"}
    NoCaller = NoCaller
    MaxCalls = 2
    MaxRuntimes = 2
    MaxOperations = 4
    Datasets = {d1, d2}
    None = None
    MaxTurns = 2
    MaxGenerations = 2
    d1 = d1
    Parts = {"pool"}
SPECIFICATION MCFairSpec
CHECK_DEADLOCK FALSE
PROPERTIES
    CallsEnd
