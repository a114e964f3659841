CONSTANTS
    k1 = k1
    k2 = k2
    p1 = p1
    p2 = p2
    Scopes <- TwoScopes
    Callers <- MCCallers
    ScopeOf <- OnePerScope
    Operations = {"execute", "shutdown"}
    Faults = {"start", "open", "uncertain", "raised", "close", "gate", "idle", "exit"}
    NoCaller = NoCaller
    MaxCalls = 3
    MaxRuntimes = 2
    MaxOperations = 4
    Datasets = {d1, d2}
    None = None
    MaxTurns = 2
    MaxGenerations = 2
    d1 = d1
    Parts = {"pool", "chain", "recovery"}
SPECIFICATION MCSpec
CHECK_DEADLOCK FALSE
CONSTRAINT Bounded
INVARIANTS
    CommandsRunInTheirDirectory
    FormalRunsOnDeclaredData
    RecoveryTellsTheTruth
