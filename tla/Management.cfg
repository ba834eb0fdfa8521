CONSTANTS
    Plugins = {p1, p2}
    Drivers = {d1}
    Dpids = {s1, s2}
    Existing = {s1, s2}
    Physical = {eth}
    MaxLinks = 1
    Blacklisting = TRUE
    MaxCalls = 3
    MaxEvents = 1
    None = None
SPECIFICATION Spec
INVARIANTS TypeOK  LocksReleased CacheMatchesDriver AttachedIsTold NobodyStuck
CHECK_DEADLOCK FALSE
SYMMETRY Symmetry
