CONSTANTS
    Items = {m1, m2}
    Texts = {x, y}
    MaxRevisions = 3
    MaxCommits = 13
    Candidates = {v1}
    Changes = {v2}
    MaxRequests = 2
    MaxMessages = 3
    WindowLimit = 2
    MaxAttempts = 2
    Pinned = {m2}
    Docs = {d1, d2}
    Contents = {c1, c2}
    Sessions = {q1}
    MaximumHops = 3
    HotLimit = 1
    v1 = v1
    d1 = d1
    c2 = c2
    Scenarios = {"files", "windows", "curation", "memories", "retrieval", "nodes",
                 "distilling", "adopting"}
INIT MCInit
NEXT Next
CONSTRAINT Scenario
CHECK_DEADLOCK FALSE
INVARIANTS
    CuratedOnce
PROPERTIES
    EditsFollowTheirBase
    UnknownIsNotResent
    SkillDecisionsAreFinal
    RetrievalIsCurrentAndBounded
    ContextsNeverGoBack
