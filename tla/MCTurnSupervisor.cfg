CONSTANTS
    t1 = t1
    t2 = t2
    t3 = t3
    Turns = {t1, t2, t3}
    NoTurn = NoTurn
    MaxRevision = 7
    Outcomes = {"succeeded"}
    Faults = {"crash", "escape", "branch"}
SPECIFICATION MCFairSpec
CONSTRAINT TwoTurnsOnceFaulted
CHECK_DEADLOCK FALSE
INVARIANTS
    DriverOwnsLane
PROPERTIES
    QueueAdvancesUnlessFaulted
    RunningGetsDrivenUnlessFaulted
