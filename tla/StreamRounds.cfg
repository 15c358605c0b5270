SPECIFICATION RoundsFairSpec
CONSTANTS
    Keys = {1, 2, 3}
    Unkeyed = {3}
    Boundary = 1
    Stale = 4
    MinGap = 1
    Interval = 2
    MaxReopens = 2
    Never = Never
INVARIANTS
    
    NoGhostRow
PROPERTIES
    LivingChannelIsNotEmptied
    EmptyTableIsShownEmpty
