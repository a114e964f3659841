CONSTANTS
    Profiles = {p1, p2}
    Versions = {s1, s2, s3}
    Workspaces = {w1}
    Nothing = Nothing
    Runners = {n1, n2}
    Registry <- MCRegistry
    Free = Free
    MaxTerms = 4
    Releases = {r1, r2}
    NoRelease = NoRelease
    MaxActivations = 3
    Callers = {q1, q2}
    MaxMigrations = 2
    MaxResearch = 2
    Gates <- MCGates
    Cases = {k1, k2, k3}
    CaseGate <- MCCaseGate
    Scenarios = {f1, f2}
    MaxSignings = 3
    r1 = r1
    r2 = r2
    k1 = k1
    k2 = k2
    c1 = c1
    c2 = c2
    b1 = b1
    b2 = b2
    Commands <- MCCommands
    Bodies <- MCBodies
    Attempts <- MCAttempts
    NoBody = NoBody
    NoAttempt = NoAttempt
    MaxNotices = 2
    Parts = {"releases"}
SPECIFICATION MCSpec
CONSTRAINT OneAtATime
CHECK_DEADLOCK FALSE
INVARIANTS
    GuardedEffectsForbidRollback
