CONSTANTS
    t1 = t1
    t2 = t2
    t3 = t3
    Turns <- MCTurns
    NoTurn = NoTurn
    MaxRevision = 4
    Outcomes = {"succeeded", "paused"}
SPECIFICATION Spec
SYMMETRY TurnSymmetry
CHECK_DEADLOCK FALSE
PROPERTIES
    RevisionGuardsState
    ImplementsWriteLane
