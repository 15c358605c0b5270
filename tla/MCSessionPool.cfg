SPECIFICATION Spec
CONSTANTS
    Viewers = {v1}
    Fleet = {}
    Admin = Admin
    AdminMay = {"disable", "enable", "delete", "shutdown"}
    Timer = Timer
    HoldFleet = TRUE
    Warm = warm
    Sometimes = {}
    Sessions = {s1, s2, s3}
    MaxWrites = 2
    MaxLoose = 1
    None = None
INVARIANTS
    OneSession
SYMMETRY Symmetry
VIEW Reachable
