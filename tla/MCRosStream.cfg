SPECIFICATION FairSpec
CONSTANTS
    h1 = h1
    h2 = h2
    i1 = i1
    i2 = i2
    i3 = i3
    Holders = {h1,h2}
    Items = {i1, i2, i3}
    Want <- MCWant
    MaxFills = 2
    Watchdog = Watchdog
    None = None
INVARIANTS
    OneChannel
    HeldFillIsCurrent
PROPERTIES
    LastReleaseCloses
CHECK_DEADLOCK FALSE
