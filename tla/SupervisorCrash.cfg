CONSTANTS
    t1 = t1
    t2 = t2
    t3 = t3
    Turns = {t1, t2}
    NoTurn = NoTurn
    MaxRevision = 7
    Outcomes = {"succeeded", "paused"}
    Faults = {"crash"}
SPECIFICATION MCFairSpec
CHECK_DEADLOCK FALSE
PROPERTIES
    RunningGetsDriven
