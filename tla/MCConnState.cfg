CONSTANTS
    s1 = s1
    s2 = s2
    Sessions = {s1}
    Thresholds = {0, 1, 2}
    DefaultSec = 2
    MaxTime = 5
    Ticker = ticker
SPECIFICATION Spec
INVARIANTS OfflineMeansDown NewestRowIsTheVerdict
PROPERTIES ShortDropIsNotAnOutage
CHECK_DEADLOCK FALSE
