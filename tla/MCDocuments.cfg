CONSTANTS
    None = None
    Main = Main
    Branch = Branch
    Paths = {Main, Branch}
    Contents = {"a", "b"}
    d1 = d1
    d2 = d2
    Data = {d1, d2}
    r1 = r1
    r2 = r2
    Results = {r1, r2}
    x1 = x1
    x2 = x2
    Executions = {x1, x2}
    Names = {"table", "plot"}
    Code = "code"
    MaxLost = 1
    MaxTurns = 3
    MaxPlans = 2
    MaxDocuments = 3
    MaxPointer = 2
    Scenarios = {"branching", "delivering", "returning", "analysing"}
SPECIFICATION MCSpec
CONSTRAINT Scenario
CHECK_DEADLOCK FALSE
INVARIANTS
    DeliveredPassedAllAlong
PROPERTIES
    BranchAsShown
    NothingIsReplacedUnseen
    ResultComesWithItsData
    ConfirmedIsThere
