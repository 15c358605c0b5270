SPECIFICATION FairSpec
CONSTANTS
    Viewers = {v1, v2}
    Fleet = {f1}
    Admin = Admin
    AdminMay = {}
    Timer = Timer
    HoldFleet = FALSE
    Warm = warm
    Sometimes = {}
    Sessions = {s1, s2, s3}
    MaxWrites = 2
    MaxLoose = 2
    None = None
INVARIANTS
    UsedSessionStays
    RefsCountViewers
PROPERTIES
    IdleSessionCloses
