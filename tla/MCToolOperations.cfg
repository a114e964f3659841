CONSTANTS
    t1 = t1
    t2 = t2
    c1 = c1
    c2 = c2
    Turns <- MCTurns
    Calls <- MCCalls
    Exclusive <- MCExclusive
    NoTurn = NoTurn
    MaxRevision = 4
    Outcomes = {"succeeded"}
SPECIFICATION ToolSpec
SYMMETRY TurnSymmetry
CHECK_DEADLOCK FALSE
INVARIANTS
    LeasesExclude
    FinishedTurnIsSettled
    ConvergedPauseIsQuiescent
PROPERTIES
    HistoryIsFinal
    ImplementsTurnLane
