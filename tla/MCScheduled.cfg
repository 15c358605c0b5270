SPECIFICATION Spec
CONSTANTS
    Callers = {c1, c2, c3}
    Menus = {filter, nat}
    Streamed = {filter}
    FirstMenu = filter
    Handles = {1, 2, 3, 4}
    None = None
INVARIANTS
    NothingLeaks
    HoldsFollowTheMenu
    LastCallDecides
SYMMETRY Symmetry
