SPECIFICATION Spec
CONSTANTS
    g1 = g1
    g2 = g2
    m1 = m1
    f1 = f1
    f2 = f2
    Callers = {g1,g2}
    Menus = {m1}
    Fields = {f1, f2}
    Ttls = {1, 2}
    Asks <- MCAsks
    ErrTTL = 1
    MaxAge = 2
    MaxEra = 1
    None = None
    NoVal = NoVal
INVARIANTS
    SingleFlight
    AnswerWithinTtl
    NoStrandedWaiter
    ResetForgets
