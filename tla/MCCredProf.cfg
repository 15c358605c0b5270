SPECIFICATION FairSpec
CONSTANTS
    r1 = r1
    a = a
    b = b
    w1 = w1
    Routers = {r1}
    Names = {a, b}
    Name0 = a
    Theirs <- MCTheirs
    Savers = {w1}
    MaxSaves = 2
    MaxActs = 3
INVARIANTS
    AccountIsKnown
    AppliedIsCurrent
    RemovalIsKept
PROPERTIES
    LinkIsServed
    DeleteFinishes
