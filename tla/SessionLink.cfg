SPECIFICATION FairSpec
CONSTANTS
    Cfgs = {old, new, wrong}
    FirstCfg = old
    Accepted = {old, new}
    Clients = {k1, k2, k3}
    Collectors = {dns, ping}
    Suspended = {dns}
    None = None
INVARIANTS
    OneConnection
    NoOrphanConnection
    ParkedLoopIsWoken
    OutageIsReported
PROPERTIES
    TeardownEnds
