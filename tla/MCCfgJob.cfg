SPECIFICATION Spec
CONSTANTS
    Routers = {r1, r2}
    Parts = 2
    MaxRuns = 2
    MaxCrashes = 1
    Watched = 2
    r1 = r1
    r2 = r2
    Plans <- MCPlans
INVARIANTS
    DeadManIsKept
    AppliedIsTrue
    NothingMeansNothing
    CancelWins
PROPERTIES
    RunIsARollout
CHECK_DEADLOCK FALSE
