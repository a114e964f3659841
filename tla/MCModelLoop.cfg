SPECIFICATION MCSpec
CONSTANTS
    Routes <- TwoRoutes
    Transient <- OneTransient
    Fatal <- OneFatal
    MaxAttempts = 3
    MaxTurnAttempts = 3
    MaxSteps = 2
    MaxTools = 1
    MaxSameFailure = 2
    BeforeFallback = 1
    Threshold = 1
    MaxRuns = 2
    MaxChanges = 1
    Explicit = FALSE
    GoalMode = "deliver_word"
    MaxRevision = 4
    MaxBatches = 3
    MaxFindings = 1
    Messages <- MCMessages
    MaxCalls = 2
    HistoryCapacity = 5
    QueueCapacity = 2
    MaxMounts = 2
    MaxBreaks = 1
    PageSize = 2
    MaxJournal = 3
    MaxOrdinal = 3
    MaxVisits = 2
    Parts = {"gateway", "stopping", "deltas", "trace"}
INVARIANTS
    LiveTextIsTheAnswer
    NoRepeatAfterUnknown
    EndingIsEarned
    TraceIsOneWindow
PROPERTY RunsEnd
CHECK_DEADLOCK FALSE
