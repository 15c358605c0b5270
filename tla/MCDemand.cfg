SPECIFICATION DemandSpec
CONSTANTS
    Sockets = {v1}
    Judge = judge
    Loop = loop
    MenuStates = {"rows", "nothing", "nothing supported"}
    MaxTimers = 1
    MaxBlurs = 1
    MaxDrops = 1
    MaxChanges = 2
    MaxTime = 1000
    EmptyThreshold = 2
    Backoff = 2
    MaxBackoff = 4
    ProbeTimeout = 1
    Restamp = 2
INVARIANTS
    FocusIsNotLost
    RowsWakeTheSleeper
PROPERTIES
    OneReadingIsNotEnough
VIEW View
CHECK_DEADLOCK FALSE
