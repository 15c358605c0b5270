SPECIFICATION SchedulerSpec
CONSTANTS
    Subs = {s1, s2}
    Cadences = {0, 2, 3}
    Streamed = TRUE
    NRounds = 1
    MaxLag = 2
    Never = Never
INVARIANTS
    HeartbeatKept
SYMMETRY Symmetry
