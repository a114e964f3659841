CONSTANTS
    w1 = w1
    w2 = w2
    Workspaces <- MCWorkspaces
    NoWorkspace = NoWorkspace
    LastRevision <- MCMaxRevision
    MaxOpens = 2
    MaxFaults = 2
    Watched <- MCWorkspaces
    Facts <- MCFacts
    MaxIncidents = 2
    Parts = {"shell", "attention"}
SPECIFICATION MCSpec
CHECK_DEADLOCK FALSE
INVARIANTS
    AttentionIsCurrent
PROPERTIES
    ViewNeverGoesBack
    ViewCatchesUp
